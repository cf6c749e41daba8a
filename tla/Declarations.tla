----------------------------- MODULE Declarations -----------------------------
(***************************************************************************)
(* From the statements of a file to its scopes and its facts               *)
(* (src/src/analysis/scope.rs, declarations/extract.rs).                   *)
(*                                                                         *)
(* A file is a sequence of groups, one to a line, and a group a sequence   *)
(* of statements.  A statement keeps what the extractor takes from it: its *)
(* kind, the names it spells, and the fields of Bare.                      *)
(***************************************************************************)
EXTENDS ProjectFacts

Bare == [kind |-> "other", names |-> <<>>, type |-> "", parent |-> "", access |-> "none",
         module |-> "", host |-> "", prefixed |-> FALSE, intrinsic |-> FALSE, only |-> FALSE,
         items |-> <<>>, mode |-> "all", path |-> <<>>]

ProgramUnits == {"Module", "Submodule", "Program", "Procedure"}
Procedures   == {"Program", "Procedure"}
OwnsDeclarations(kind) == kind \in ProgramUnits \cup {"File", "Construct"}

OpeningKind(kind, parent) ==
    CASE kind = "module"     -> "Module"
      [] kind = "submodule"  -> "Submodule"
      [] kind = "program"    -> "Program"
      [] kind = "subroutine" -> "Procedure"
      [] kind = "interface"  -> "Interface"
      [] kind = "type"       -> "DerivedType"
      [] kind = "block"      -> "Construct"
      [] kind = "procedure" /\ parent \notin {"Interface", "DerivedType"} -> "Procedure"
      [] OTHER               -> "none"

NewScope(kind, names, parent, lines) ==
    [kind |-> kind, names |-> names, parent |-> parent, lines |-> lines, contains |-> 0]

ScopeStatement(tree, statement, line, end) ==
    LET top   == Last(tree.stack)
        index == Len(tree.scopes) + 1
        kind  == OpeningKind(statement.kind, tree.scopes[top].kind) IN
    IF kind # "none"
    THEN [tree EXCEPT !.scopes = Append(@, NewScope(kind, statement.names, top, <<line, end>>)),
                      !.stack = Append(@, index), !.opened = index]
    ELSE IF statement.kind = "contains"
    THEN [tree EXCEPT !.scopes[top].contains = IF @ = 0 THEN line ELSE @]
    ELSE IF statement.kind = "end" /\ Len(tree.stack) > 1
    THEN [tree EXCEPT !.scopes[top].lines[2] = line + 1, !.stack = Front(@)]
    ELSE tree

\* A line belongs to the scope it opens, else to the scope before it.
ScopeGroup(tree, group, line, end) ==
    LET after == FoldLeft(LAMBDA t, s : ScopeStatement(t, s, line, end),
                          [tree EXCEPT !.opened = 0], group) IN
    [after EXCEPT !.owners = Append(@, IF after.opened = 0 THEN Last(tree.stack)
                                       ELSE after.opened)]

ScopeTree(groups) ==
    LET end  == Len(groups) + 1
        file == [scopes |-> <<NewScope("File", <<>>, 0, <<1, end>>)>>,
                 owners |-> <<>>, stack |-> <<FileScope>>, opened |-> 0] IN
    FoldLeft(LAMBDA tree, line : ScopeGroup(tree, groups[line], line, end),
             file, [line \in 1..Len(groups) |-> line])

RECURSIVE Ancestors(_, _)
Ancestors(tree, scope) ==
    IF scope = 0 THEN <<>> ELSE <<scope>> \o Ancestors(tree, tree.scopes[scope].parent)

\* The nearest of these ancestors of one of these kinds, if any.
Nearest(tree, ancestors, kinds) ==
    LET at == {i \in 1..Len(ancestors) : tree.scopes[ancestors[i]].kind \in kinds} IN
    {ancestors[i] : i \in {j \in at : \A k \in at : j <= k}}

IsSpecification(scope, line) == scope.contains = 0 \/ line < scope.contains
-----------------------------------------------------------------------------
OwnerKinds == {"File", "Construct"} \cup ProgramUnits

InitializeUnits(tree) ==
    LET Unit(index) ==
            LET scope  == tree.scopes[index]
                above  == Nearest(tree, Ancestors(tree, scope.parent), OwnerKinds)
                unit   == NewUnit(index, scope.kind,
                                  IF scope.names = <<>> THEN "" ELSE Key(scope.names[1]),
                                  IF above = {} THEN 0 ELSE CHOOSE p \in above : TRUE,
                                  scope.lines)
                body   == scope.kind = "Procedure" /\ tree.scopes[scope.parent].kind = "Interface"
            IN  IF body THEN [unit EXCEPT !.host_access = NoneByDefault] ELSE unit
        Owning(index) == OwnsDeclarations(tree.scopes[index].kind) IN
    FoldLeft(LAMBDA facts, index : [facts EXCEPT !.units = (index :> Unit(index)) @@ @],
             NoFacts, SelectSeq([i \in 1..Len(tree.scopes) |-> i], Owning))

\* scope_names: what the header of a scope names, and where.
ScopeName(tree, facts, index) ==
    LET scope == tree.scopes[index]
        name  == scope.names[1]
        above == CHOOSE p \in Nearest(tree, Ancestors(tree, scope.parent), OwnerKinds) : TRUE
        named == [facts EXCEPT !.cases.symbols = InsertName(@, name),
                               !.files = InsertName(@, name)] IN
    IF scope.names = <<>> \/ scope.kind \in {"File", "Interface", "Construct"} THEN facts
    ELSE IF scope.kind \in {"Module", "Submodule"}
    THEN [facts EXCEPT !.cases.modules = InsertName(@, name)]
    ELSE IF scope.kind = "Program" THEN named
    ELSE IF scope.kind = "Procedure"
    THEN [named EXCEPT !.units[above].symbols = InsertName(@, name),
                       !.externals = IF named.units[above].kind = "File"
                                     THEN InsertName(@, name) ELSE @]
    ELSE [named EXCEPT !.cases.types = InsertName(@, name),
                       !.declared_types = InsertName(@, name),
                       !.units[above].types = InsertName(@, name),
                       !.units[above].symbols = InsertName(@, name)]

ScopeNames(tree, facts) ==
    FoldLeft(LAMBDA f, index : ScopeName(tree, f, index),
             facts, [i \in 1..Len(tree.scopes) |-> i])

\* What extract works out for a line before its statements.
PlaceOf(tree, line) ==
    LET chain == Ancestors(tree, tree.owners[line])
        unit  == CHOOSE s \in Nearest(tree, chain, OwnerKinds) : TRUE
        type  == Nearest(tree, chain, {"DerivedType"})
        procedure == Nearest(tree, chain, Procedures)
        specification == {s \in Nearest(tree, chain, {"Module", "Program"}) :
                             IsSpecification(tree.scopes[s], line)}
        NamesOf(scopes) == {Key(tree.scopes[s].names[1]) : s \in scopes} IN
    [line |-> line, unit |-> unit, owner |-> NamesOf(type), procedure |-> NamesOf(procedure),
     promoted |-> specification # {} /\ procedure \subseteq specification,
     body |-> \E s \in {unit} : /\ tree.scopes[s].kind = "Procedure"
                                /\ tree.scopes[tree.scopes[s].parent].kind = "Interface",
     module |-> NamesOf({s \in specification : tree.scopes[s].kind = "Module"})]

\* scope_header_semantics
HeaderSemantics(facts, s, place) ==
    IF s.kind = "submodule" /\ facts.units[place.unit].kind = "Submodule"
    THEN [facts EXCEPT
            !.units[place.unit].project_host = <<s.module, Key(s.names[1])>>,
            !.units[place.unit].semantic_host = IF s.host = "" THEN <<s.module>>
                                                ELSE <<s.module, s.host>>]
    ELSE IF s.kind = "subroutine" /\ s.prefixed /\ place.body
    THEN [facts EXCEPT !.units[place.unit].host_access = SetDefaultAll(@)]
    ELSE facts

ImportStatement(facts, s, place) ==
    LET keys == {Key(s.names[i]) : i \in 1..Len(s.names)} IN
    [facts EXCEPT !.units[place.unit].host_access =
        CASE s.mode = "none" -> ImportNone
          [] s.mode = "all"  -> ImportAll
          [] OTHER           -> ImportOnly(@, keys)]

\* access_statement and type_member_access_statement
MarkOrDefault(access, s) ==
    IF s.names = <<>> THEN SetDefault(access, s.access)
    ELSE Mark(access, {Key(s.names[i]) : i \in 1..Len(s.names)}, s.access)

AccessStatement(facts, s, place) ==
    IF facts.units[place.unit].kind \notin {"Module", "File"} THEN facts
    ELSE [facts EXCEPT !.units[place.unit].access = MarkOrDefault(@, s)]

MarkMember(unit, owner, marked) ==
    [unit EXCEPT !.member_access = (owner :> marked) @@ @]

TypeMemberAccess(facts, s, place) ==
    LET owner == CHOOSE o \in place.owner : TRUE
        unit  == facts.units[place.unit] IN
    [facts EXCEPT !.units[place.unit] =
        MarkMember(unit, owner, MarkOrDefault(MemberAccess(unit, owner), s))]

\* type_definition_access, type_definition_parent
TypeDefinition(facts, s, place) ==
    LET child  == Key(s.names[1])
        marks  == s.access # "none" /\ facts.units[place.unit].kind \in {"Module", "File"}
        Extended(types) == IF s.parent = "" THEN types
                           ELSE InsertType(types, "parents", child, s.parent) IN
    [facts EXCEPT
        !.units[place.unit].access = IF marks THEN Mark(@, {child}, s.access) ELSE @,
        !.units[place.unit].type_graph = Extended(@),
        !.types = Extended(@)]

\* use_statement
UseStatement(facts, s, place) ==
    LET spelled == FoldLeft(LAMBDA map, item : InsertName(InsertName(map, item.local), item.remote),
                            facts.cases.symbols, s.items)
        association == [module |-> s.module, intrinsic |-> s.intrinsic, only |-> s.only,
                        names |-> [i \in 1..Len(s.items) |->
                                      [local |-> s.items[i].local,
                                       remote |-> Key(s.items[i].remote)]]] IN
    [facts EXCEPT !.cases.symbols = spelled,
                  !.units[place.unit].imports = Append(@, association)]

\* auxiliary_declaration: ENTRY, COMMON, NAMELIST
AuxiliaryDeclaration(facts, s, place) ==
    [facts EXCEPT !.cases.symbols = FoldLeft(InsertName, @, s.names),
                  !.units[place.unit].symbols = FoldLeft(InsertName, @, s.names)]

BindProcedure(facts, name, s, place) ==
    LET owner == CHOOSE o \in place.owner : TRUE
        table == IF s.kind = "generic" THEN "generic" ELSE "bound"
        unit  == facts.units[place.unit]
        held  == [unit EXCEPT ![table] = InsertMember(@, owner, name)]
        seen  == IF s.access = "none" THEN held
                 ELSE MarkMember(held, owner,
                                 Mark(MemberAccess(held, owner), {Key(name)}, s.access)) IN
    IF s.kind = "generic"
    THEN [facts EXCEPT !.cases.procedures = InsertName(@, name),
                       !.generics = InsertName(@, name),
                       !.generic = InsertMember(@, owner, name),
                       !.units[place.unit] = seen]
    ELSE [facts EXCEPT !.cases.procedures = InsertName(@, name),
                       !.cases.bound = InsertMember(@, owner, name),
                       !.units[place.unit] = seen]

DeclareComponent(facts, name, s, place) ==
    LET owner == CHOOSE o \in place.owner : TRUE
        unit  == facts.units[place.unit]
        held  == [unit EXCEPT !.components = InsertMember(@, owner, name)]
        seen  == IF s.access = "none" THEN held
                 ELSE MarkMember(held, owner,
                                 Mark(MemberAccess(held, owner), {Key(name)}, s.access))
        Typed(types) == IF s.type = "" THEN types
                        ELSE InsertType(types, "components", <<owner, Key(name)>>, s.type) IN
    [facts EXCEPT !.cases.components = InsertMember(@, owner, name),
                  !.cases.symbols = InsertName(@, name),
                  !.units[place.unit] = [seen EXCEPT !.type_graph = Typed(@)],
                  !.files = IF place.promoted THEN InsertName(@, name) ELSE @,
                  !.types = Typed(@)]

DeclareVariable(facts, name, s, place) ==
    LET unit  == facts.units[place.unit]
        marks == s.access # "none" /\ unit.kind \in {"Module", "File"}
        typed == IF s.type = "" THEN {} ELSE {s.type}
        roots == {<<"procedure_locals", <<p, Key(name)>>>> : p \in place.procedure}
                 \cup (IF place.procedure = {} THEN {<<"variables", Key(name)>>} ELSE {})
                 \cup {<<"module_variables", <<m, Key(name)>>>> : m \in place.module} IN
    [facts EXCEPT
        !.cases.symbols = InsertName(@, name),
        !.units[place.unit] =
            [unit EXCEPT !.symbols = InsertName(@, name),
                         !.variable_types = IF typed = {} THEN @
                                            ELSE Insert(@, Key(name), s.type),
                         !.access = IF marks THEN Mark(@, {Key(name)}, s.access) ELSE @],
        !.files = IF place.promoted THEN InsertName(@, name) ELSE @,
        !.types = IF typed = {} THEN @
                  ELSE FoldLeft(LAMBDA types, root : InsertType(types, root[1], root[2], s.type),
                                @, SetToSeq(roots))]

\* entity_declaration
EntityDeclaration(facts, s, place) ==
    LET referred == IF s.type = "" THEN facts
                    ELSE [facts EXCEPT !.cases.types = InsertReference(@, s.type)] IN
    FoldLeft(LAMBDA f, name :
                IF s.kind \in {"binding", "generic"}
                THEN (IF place.owner = {} THEN f ELSE BindProcedure(f, name, s, place))
                ELSE IF place.owner # {} THEN DeclareComponent(f, name, s, place)
                ELSE DeclareVariable(f, name, s, place),
             referred, s.names)

IncludeStatement(facts, s, place) ==
    [facts EXCEPT !.includes = Append(@, [line |-> place.line, path |-> s.path])]

DefineName(facts, s) == [facts EXCEPT !.macros = FoldLeft(InsertName, @, s.names)]

\* The handlers extract calls on every statement, each for its own keywords.
ExtractStatement(facts, s, place) ==
    CASE s.kind \in {"submodule", "subroutine"} -> HeaderSemantics(facts, s, place)
      [] s.kind = "import"  -> ImportStatement(facts, s, place)
      [] s.kind = "include" -> IncludeStatement(facts, s, place)
      [] s.kind = "access" /\ place.owner # {} -> TypeMemberAccess(facts, s, place)
      [] s.kind = "access" /\ place.owner = {} -> AccessStatement(facts, s, place)
      [] s.kind = "type"    -> TypeDefinition(facts, s, place)
      [] s.kind = "use"     -> UseStatement(facts, s, place)
      [] s.kind \in {"entry", "common"} -> AuxiliaryDeclaration(facts, s, place)
      [] s.kind \in {"declare", "binding", "generic"} -> EntityDeclaration(facts, s, place)
      [] s.kind = "define"  -> DefineName(facts, s)
      [] OTHER              -> facts

Extract(groups) ==
    LET tree == ScopeTree(groups) IN
    FoldLeft(LAMBDA facts, line :
                FoldLeft(LAMBDA f, s : ExtractStatement(f, s, PlaceOf(tree, line)),
                         facts, groups[line]),
             ScopeNames(tree, InitializeUnits(tree)), [line \in 1..Len(groups) |-> line])
=============================================================================
