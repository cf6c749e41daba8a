------------------------------ MODULE Visibility ------------------------------
(***************************************************************************)
(* Which spelling of a name is visible where                               *)
(* (src/src/analysis/project/visibility.rs).                               *)
(*                                                                         *)
(* Ordinary names and derived types go the same ways, in two spaces of a   *)
(* unit.  An answer is an entry: absent, known or ambiguous.  A search of  *)
(* the USE graph hands on the modules and names it has seen.               *)
(***************************************************************************)
EXTENDS Project

\* Visibility::merge
MergeVisibility(mine, theirs) == Join(mine, theirs)

\* One more answer of a search, and what it has seen.
Heard(so, answer) ==
    [found |-> MergeVisibility(so.found, answer.found), seen |-> answer.seen]

Otherwise(answer, other) == IF answer # Absent THEN answer ELSE other

\* merge_definitions: several definitions each search from what was seen before.
MergeDefinitions(answers, seen) ==
    [found |-> FoldLeft(LAMBDA all, answer : MergeVisibility(all, answer.found), Absent, answers),
     seen  |-> IF Len(answers) = 1 THEN answers[1].seen ELSE seen]

ExplicitEntityAccess(unit, key) ==
    IF \E i \in 1..Len(unit.imports) : unit.imports[i].module = key THEN {}
    ELSE Explicit(unit.access, key)

EntityIsPublic(unit, key) ==
    LET stated == ExplicitEntityAccess(unit, key) IN
    IF stated # {} THEN stated = {"public"} ELSE DefaultIsPublic(unit.access)

RouteIsPublic(unit, key, association) ==
    LET stated == ExplicitEntityAccess(unit, key)
        routed == Explicit(unit.access, association.module) IN
    IF stated # {} THEN stated = {"public"}
    ELSE IF routed # {} THEN routed = {"public"}
    ELSE DefaultIsPublic(unit.access)

\* The ways one key leads out of a unit, in the order of its USE statements.
\* exporting: the unit that re-exports, none when the name is only used.
RoutesOf(imports, key, exporting) ==
    FlattenSeq([i \in 1..Len(imports) |->
        IF \/ imports[i].intrinsic
           \/ \E unit \in exporting : ~RouteIsPublic(unit, key, imports[i])
        THEN <<>>
        ELSE LET targets == Targets(imports[i], key) IN
             [t \in 1..Len(targets) |-> [module |-> imports[i].module,
                                         remote |-> targets[t].remote,
                                         alias  |-> targets[t].alias]]])

Renamed(found, alias) ==
    IF found \in {Absent, Ambiguous} \/ alias = {} THEN found
    ELSE Known(CHOOSE spelling \in alias : TRUE)

RenamedAnswer(answer, alias) == [answer EXCEPT !.found = Renamed(@, alias)]

RECURSIVE Imported(_, _, _, _, _, _), UnitExport(_, _, _, _, _), ModuleExport(_, _, _, _, _)

\* imported_symbol, imported_type
Imported(c, space, imports, key, exporting, seen) ==
    FoldLeft(LAMBDA so, route :
                Heard(so, RenamedAnswer(
                    ModuleExport(c, space, route.module, route.remote, so.seen), route.alias)),
             [found |-> Absent, seen |-> seen], RoutesOf(imports, key, exporting))

UnitExport(c, space, unit, key, seen) ==
    IF ~Has(unit[space], key) THEN Imported(c, space, unit.imports, key, {unit}, seen)
    ELSE [found |-> IF EntityIsPublic(unit, key) THEN unit[space][key] ELSE Absent,
          seen  |-> seen]

\* Mutant: the definitions of a module share what they have seen.
ModuleExport_SharedSeen(c, space, module, key, seen) ==
    IF <<module, key>> \in seen THEN [found |-> Absent, seen |-> seen]
    ELSE FoldLeft(LAMBDA so, unit : Heard(so, UnitExport(c, space, unit, key, so.seen)),
                  [found |-> Absent, seen |-> seen \cup {<<module, key>>}],
                  HostUnits(c, <<module>>))

\* module_export_symbol, module_export_type
ModuleExport(c, space, module, key, seen) ==
    LET units == HostUnits(c, <<module>>)
        here  == seen \cup {<<module, key>>} IN
    IF <<module, key>> \in seen THEN [found |-> Absent, seen |-> seen]
    ELSE MergeDefinitions(
            [i \in 1..Len(units) |-> UnitExport(c, space, units[i], key, here)], here)

\* host_visible_symbol, host_visible_type_spelling: a submodule's host, and its host.
RECURSIVE HostVisible(_, _, _, _, _), UnitVisible(_, _, _, _, _)
UnitVisible(c, space, unit, key, seen) ==
    IF Has(unit[space], key) THEN unit[space][key]
    ELSE Otherwise(Imported(c, space, unit.imports, key, {}, {}).found,
                   IF ~Allows(unit.host_access, key) \/ unit.semantic_host = <<>> THEN Absent
                   ELSE HostVisible(c, space, unit.semantic_host, key, seen))

HostVisible(c, space, host, key, seen) ==
    LET units == HostUnits(c, host) IN
    IF host \in seen THEN Absent
    ELSE FoldLeft(MergeVisibility, Absent,
                  [i \in 1..Len(units) |->
                      UnitVisible(c, space, units[i], key, seen \cup {host})])

\* visible_symbol_spelling, visible_type_spelling: outwards from the unit of the line.
RECURSIVE VisibleFrom(_, _, _, _, _)
VisibleFrom(c, facts, scope, space, key) ==
    LET unit == facts.units[scope] IN
    IF Has(unit[space], key) THEN unit[space][key]
    ELSE Otherwise(Imported(c, space, unit.imports, key, {}, {}).found,
                   IF ~Allows(unit.host_access, key) THEN Absent
                   ELSE IF unit.semantic_host # <<>>
                   THEN HostVisible(c, space, unit.semantic_host, key, {})
                   ELSE IF unit.parent = 0 THEN Absent
                   ELSE VisibleFrom(c, facts, unit.parent, space, key))

VisibleSpelling(c, local, line, space, key) ==
    LET facts == Expanded(c, local) IN
    UNION {Option(VisibleFrom(c, facts, scope, space, key)) : scope \in ActiveUnit(facts, line)}

\* visible_use_symbol_spelling: a remote name of one USE statement.
VisibleUseSpelling(c, module, key) == Option(ModuleExport(c, "symbols", module, key, {}).found)

ExternalSpelling(c, key) == Get(c.externals, key)
=============================================================================
