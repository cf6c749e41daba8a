---------------------------- MODULE TypeResolution ----------------------------
(***************************************************************************)
(* Which derived type a `%` chain runs through, and which member it names  *)
(* (src/src/analysis/project/type_resolution.rs; the queries of            *)
(* transform/passes/scoped_case.rs).                                       *)
(*                                                                         *)
(* A type is identified by its origin, the unit that defines it, and its   *)
(* name.  The types of variables are searched like the types themselves:   *)
(* what a unit declares is the `own` table of the search.                  *)
(***************************************************************************)
EXTENDS Visibility

Module(module)     == [host |-> <<module>>, scope |-> 0]
Hosted(host)       == [host |-> host, scope |-> 0]
LocalTo(scope)     == [host |-> <<>>, scope |-> scope]
IsLocal(origin)    == origin.host = <<>>

\* A type defined in a unit of this origin.
DefinedHere(unit, origin, key) ==
    IF unit.types[key] = Ambiguous THEN Ambiguous ELSE Known([origin |-> origin, name |-> key])

RECURSIVE ImportedIdentity(_, _, _, _, _, _), OwnExport(_, _, _, _, _),
          ExportedIdentity(_, _, _, _, _), ModuleVisibleIdentity(_, _, _, _)

\* imported_type_identity, imported_variable_type_identity
ImportedIdentity(c, own, imports, key, exporting, seen) ==
    FoldLeft(LAMBDA so, route :
                Heard(so, ExportedIdentity(c, own, route.module, route.remote, so.seen)),
             [found |-> Absent, seen |-> seen], RoutesOf(imports, key, exporting))

\* The type itself, or the type a declared variable has in its module.
OwnExport(c, own, unit, module, key) ==
    IF ~EntityIsPublic(unit, key) THEN Absent
    ELSE IF own = "types" THEN DefinedHere(unit, Module(module), key)
    ELSE IF unit.variable_types[key] = Ambiguous THEN Ambiguous
    ELSE ModuleVisibleIdentity(c, module, unit.variable_types[key][2], {}).found

ExportedIdentity(c, own, module, key, seen) ==
    LET units == HostUnits(c, <<module>>)
        here  == seen \cup {<<module, key>>}
        From(unit) == IF Has(unit[own], key)
                      THEN [found |-> OwnExport(c, own, unit, module, key), seen |-> here]
                      ELSE ImportedIdentity(c, own, unit.imports, key, {unit}, here) IN
    IF <<module, key>> \in seen THEN [found |-> Absent, seen |-> seen]
    ELSE MergeDefinitions([i \in 1..Len(units) |-> From(units[i])], here)

\* module_visible_type_identity: within the module, private or not.
ModuleVisibleIdentity(c, module, key, seen) ==
    LET units == HostUnits(c, <<module>>)
        here  == seen \cup {<<module, key>>}
        From(unit) == IF Has(unit.types, key)
                      THEN [found |-> DefinedHere(unit, Module(module), key), seen |-> here]
                      ELSE ImportedIdentity(c, "types", unit.imports, key, {}, here) IN
    IF <<module, key>> \in seen THEN [found |-> Absent, seen |-> seen]
    ELSE MergeDefinitions([i \in 1..Len(units) |-> From(units[i])], here)

\* host_visible_type_identity, host_visible_variable_type_identity
RECURSIVE HostIdentity(_, _, _, _, _), UnitIdentity(_, _, _, _, _, _)
UnitIdentity(c, own, unit, host, key, seen) ==
    IF ~Has(unit[own], key)
    THEN Otherwise(ImportedIdentity(c, own, unit.imports, key, {}, {}).found,
                   IF ~Allows(unit.host_access, key) \/ unit.semantic_host = <<>> THEN Absent
                   ELSE HostIdentity(c, own, unit.semantic_host, key, seen))
    ELSE IF own = "types" THEN DefinedHere(unit, Hosted(host), key)
    ELSE IF unit.variable_types[key] = Ambiguous THEN Ambiguous
    ELSE HostIdentity(c, "types", host, unit.variable_types[key][2], {})

HostIdentity(c, own, host, key, seen) ==
    LET units == HostUnits(c, host) IN
    IF host \in seen THEN Absent
    ELSE FoldLeft(MergeVisibility, Absent,
                  [i \in 1..Len(units) |->
                      UnitIdentity(c, own, units[i], host, key, seen \cup {host})])

\* local_type_identity, visible_variable_type: outwards from a scope of the file.
RECURSIVE LocalIdentity(_, _, _, _, _)
LocalIdentity(c, facts, own, scope, key) ==
    LET unit == facts.units[scope] IN
    IF ~Has(unit[own], key)
    THEN Otherwise(ImportedIdentity(c, own, unit.imports, key, {}, {}).found,
                   IF ~Allows(unit.host_access, key) THEN Absent
                   ELSE IF unit.semantic_host # <<>>
                   THEN HostIdentity(c, own, unit.semantic_host, key, {})
                   ELSE IF unit.parent = 0 THEN Absent
                   ELSE LocalIdentity(c, facts, own, unit.parent, key))
    ELSE IF own = "types" THEN DefinedHere(unit, LocalTo(scope), key)
    ELSE IF unit.variable_types[key] = Ambiguous THEN Ambiguous
    ELSE LocalIdentity(c, facts, "types", scope, unit.variable_types[key][2])

IdentityAt(c, local, line, own, key) ==
    LET facts == Expanded(c, local) IN
    UNION {Option(LocalIdentity(c, facts, own, scope, key)) : scope \in ActiveUnit(facts, line)}

VisibleVariableType(c, local, line, key) == IdentityAt(c, local, line, "variable_types", key)
VisibleType(c, local, line, key)         == IdentityAt(c, local, line, "types", key)
-----------------------------------------------------------------------------
TypeUnits(c, facts, owner) ==
    IF IsLocal(owner.origin) THEN <<facts.units[owner.origin.scope]>>
    ELSE HostUnits(c, owner.origin.host)

ResolveFromOrigin(c, facts, origin, key) ==
    Option(IF IsLocal(origin) THEN LocalIdentity(c, facts, "types", origin.scope, key)
           ELSE IF Len(origin.host) = 1
           THEN ModuleVisibleIdentity(c, origin.host[1], key, {}).found
           ELSE HostIdentity(c, "types", origin.host, key, {}))

RECURSIVE Enclosing(_, _)
Enclosing(facts, scope) ==
    IF scope = 0 THEN {} ELSE {scope} \cup Enclosing(facts, facts.units[scope].parent)

\* A submodule of a module is inside it.
RequesterIsOwner(facts, line, origin) ==
    \/ IsLocal(origin)
    \/ \E inner \in ActiveUnit(facts, line) : \E scope \in Enclosing(facts, inner) :
        LET unit == facts.units[scope] IN
        \/ unit.project_host = origin.host
        \/ /\ Len(origin.host) = 1 /\ unit.semantic_host # <<>>
           /\ unit.semantic_host[1] = origin.host[1]

MemberAccessible(facts, line, unit, owner, key) ==
    \/ owner.name \notin DOMAIN unit.member_access
    \/ IsPublic(unit.member_access[owner.name], key)
    \/ RequesterIsOwner(facts, line, owner.origin)

\* member_spelling_from_unit looks into three tables, component_type_from_unit into one.
TablesFor(asked) ==
    IF asked = "type" THEN <<"components">> ELSE <<"components", "bound", "generic">>

Holding(unit, owner, key, asked) ==
    SelectSeq(TablesFor(asked), LAMBDA table : HasMember(unit[table], owner.name, key))

\* The answer of the unit whose type has the member itself.
OwnMember(c, facts, line, unit, owner, key, asked) ==
    LET table == Head(Holding(unit, owner, key, asked)) IN
    IF ~MemberAccessible(facts, line, unit, owner, key) THEN {}
    ELSE IF asked = "spelling" THEN GetMember(unit[table], owner.name, key)
    ELSE UNION {ResolveFromOrigin(c, facts, owner.origin, type) :
                    type \in Get(unit.type_graph.components, <<owner.name, key>>)}

\* The type a definition extends.
Parents(c, facts, unit, owner) ==
    UNION {ResolveFromOrigin(c, facts, owner.origin, p) :
               p \in Get(unit.type_graph.parents, owner.name)}

EntryFor(found) == IF found = {} THEN Absent ELSE Known(CHOOSE f \in found : TRUE)

RECURSIVE FromType(_, _, _, _, _, _, _), FromUnit(_, _, _, _, _, _, _, _),
          FromParent(_, _, _, _, _, _, _)

FromParent(c, facts, line, parents, key, asked, seen) ==
    IF parents = {} THEN [found |-> Absent, seen |-> seen]
    ELSE FromType(c, facts, line, CHOOSE p \in parents : TRUE, key, asked, seen)

\* member_spelling_from_unit, component_type_from_unit
FromUnit(c, facts, line, unit, owner, key, asked, seen) ==
    IF Holding(unit, owner, key, asked) # <<>>
    THEN [found |-> EntryFor(OwnMember(c, facts, line, unit, owner, key, asked)), seen |-> seen]
    ELSE FromParent(c, facts, line, Parents(c, facts, unit, owner), key, asked, seen)

\* What contradicts itself is answered as if nothing were said.
Answered(so) == [so EXCEPT !.found = EntryFor(Option(@))]

\* member_spelling_from_type, component_type_from_type: every definition of the type.
\* Mutant: the first definition speaks for all.
FromType_First(c, facts, line, owner, key, asked, seen) ==
    LET units == TypeUnits(c, facts, owner) IN
    IF owner \in seen \/ units = <<>> THEN [found |-> Absent, seen |-> seen]
    ELSE FromUnit(c, facts, line, units[1], owner, key, asked, seen \cup {owner})

FromType(c, facts, line, owner, key, asked, seen) ==
    IF owner \in seen THEN [found |-> Absent, seen |-> seen]
    ELSE Answered(FoldLeft(
            LAMBDA so, unit :
                Heard(so, FromUnit(c, facts, line, unit, owner, key, asked, so.seen)),
            [found |-> Absent, seen |-> seen \cup {owner}], TypeUnits(c, facts, owner)))

VisibleMemberSpelling(c, local, line, owner, key) ==
    Option(FromType(c, Expanded(c, local), line, owner, key, "spelling", {}).found)

VisibleComponentType(c, local, line, owner, key) ==
    Option(FromType(c, Expanded(c, local), line, owner, key, "type", {}).found)
-----------------------------------------------------------------------------
(* scoped_case.rs: what becomes of a name in a file *)
Replace(spelling) == <<"replace", spelling>>
KeepBase == <<"keep">>
Restore  == <<"restore">>

ReplaceOr(spellings, otherwise) ==
    IF spellings = {} THEN otherwise ELSE Replace(CHOOSE s \in spellings : TRUE)

\* resolve_component_owner: the type at the end of root%link%...
ComponentOwner(c, local, line, owners, links) ==
    FoldLeft(LAMBDA held, link : UNION {VisibleComponentType(c, local, line, o, link) : o \in held},
             owners, links)

\* exact_member_owner, insert_association: the type at the end of a chain whose root
\* is an alias of a known type, or else a variable.
DesignatorType(c, local, line, aliased, chain) ==
    ComponentOwner(c, local, line,
                   IF aliased # {} THEN aliased
                   ELSE VisibleVariableType(c, local, line, Head(chain)), Tail(chain))

\* What the root of a chain is an alias of: nothing, the selector of ASSOCIATE, the
\* type of a TYPE IS guard.  Only an alias that is written with its selector has a
\* spelling of its own; a type is none or one.
NoAlias == [spelled |-> FALSE, type |-> {}]
Associated(c, local, line, selector) ==
    [spelled |-> TRUE, type |-> DesignatorType(c, local, line, {}, selector)]
Guarded(c, local, line, type) ==
    [spelled |-> FALSE, type |-> VisibleType(c, local, line, type)]

\* Mutant: a member is taken from the variable the alias hides.
MemberEvidence_Variable(c, local, line, alias, lower, chain) ==
    [kind |-> "member", resolved |-> DesignatorType(c, local, line, {}, chain), chain |-> chain]

\* record_member_evidence, reconcile_occurrence_evidence.  An alias is known by its
\* lower-case name, and its type found only if the root is written so.
MemberEvidence(c, local, line, alias, lower, chain) ==
    LET resolved == DesignatorType(c, local, line, IF lower THEN alias.type ELSE {}, chain) IN
    IF resolved = {} /\ alias.spelled THEN [kind |-> "keep"]
    ELSE [kind |-> "member", resolved |-> resolved,
          chain |-> IF resolved = {} THEN chain ELSE <<>>]

\* scoped_member_spelling
MemberSpelling(c, local, line, evidence, key) ==
    IF evidence.resolved = {} /\ evidence.chain = <<>> THEN KeepBase
    ELSE LET owners == IF evidence.resolved # {} THEN evidence.resolved
                       ELSE DesignatorType(c, local, line, {}, evidence.chain) IN
         ReplaceOr(UNION {VisibleMemberSpelling(c, local, line, o, key) : o \in owners}, Restore)

\* scoped_spelling
ScopedSpelling(c, local, line, evidence, key) ==
    CASE evidence.kind = "keep"   -> KeepBase
      [] evidence.kind = "alias"  -> Replace(evidence.spelling)
      [] evidence.kind = "remote" -> ReplaceOr(VisibleUseSpelling(c, evidence.module, key), Restore)
      [] evidence.kind = "type"   -> ReplaceOr(VisibleSpelling(c, local, line, "types", key), Restore)
      [] evidence.kind = "member" -> MemberSpelling(c, local, line, evidence, key)
      [] OTHER ->
          LET visible == VisibleSpelling(c, local, line, "symbols", key) IN
          ReplaceOr(IF visible = {} /\ evidence.external THEN ExternalSpelling(c, key) ELSE visible,
                    Restore)
=============================================================================
