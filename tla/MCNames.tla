------------------------------- MODULE MCNames -------------------------------
(***************************************************************************)
(* The analysis of a project, for TLC: small projects whose modules use,   *)
(* rename, hide and include one another, absorbed in any order, one batch  *)
(* or several, while their files are edited.                               *)
(***************************************************************************)
EXTENDS TypeResolution

MCIntrinsics == {"x", "sum"}

(* statements *)
Lower(key) == <<key, "lower">>
Camel(key) == <<key, "camel">>
Upper(key) == <<key, "upper">>

Head1(kind, key)   == [Bare EXCEPT !.kind = kind, !.names = <<Lower(key)>>]
ModuleIs(key)      == Head1("module", key)
Sub(key)           == [Bare EXCEPT !.kind = "subroutine", !.names = <<Camel(key)>>]
TypeIs(key)        == [Bare EXCEPT !.kind = "type", !.names = <<Camel(key)>>]
Extends(key, base) == [TypeIs(key) EXCEPT !.parent = base]
End                == [Bare EXCEPT !.kind = "end"]
Holds              == [Bare EXCEPT !.kind = "contains"]
Interface          == [Bare EXCEPT !.kind = "interface"]
Block              == [Bare EXCEPT !.kind = "block"]
Program            == Head1("program", "main")
Use(module)        == [Bare EXCEPT !.kind = "use", !.module = module]
Only(module, items) == [Use(module) EXCEPT !.only = TRUE, !.items = items]
Renames(module, items) == [Use(module) EXCEPT !.items = items]
Plain(name)        == <<[local |-> name, remote |-> name]>>
As(local, remote)  == <<[local |-> local, remote |-> remote]>>
Var(name)          == [Bare EXCEPT !.kind = "declare", !.names = <<name>>]
Typed(name, type)  == [Var(name) EXCEPT !.type = type]
Private(s)         == [s EXCEPT !.access = "private"]
Bound(name)        == [Bare EXCEPT !.kind = "binding", !.names = <<name>>]
Access(to, names)  == [Bare EXCEPT !.kind = "access", !.access = to, !.names = names]
Include(path)      == [Bare EXCEPT !.kind = "include", !.path = path]
Import(mode, names) == [Bare EXCEPT !.kind = "import", !.mode = mode, !.names = names]
Submodule(key, of, host) ==
    [Head1("submodule", key) EXCEPT !.module = of, !.host = host]
MacroIs(name)      == [Bare EXCEPT !.kind = "define", !.names = <<name>>]

\* One statement to a line.
Lines(statements) == [i \in 1..Len(statements) |-> <<statements[i]>>]
Named(key, body)  == Lines(<<ModuleIs(key)>> \o body \o <<End>>)

P(name) == <<"/", name>>

Texts ==
    [ empty      |-> Lines(<<Var(Lower("z"))>>),
      \* modules that declare x
      ax         |-> Named("a", <<Var(Camel("x")), Var(Lower("y"))>>),
      axUpper    |-> Named("a", <<Var(Upper("x"))>>),
      axPrivate  |-> Named("a", <<Access("private", <<>>), Var(Camel("x")),
                                  Access("public", <<Lower("y")>>), Var(Lower("y"))>>),
      cx         |-> Named("c", <<Var(Upper("x"))>>),
      \* facades
      bUsesA     |-> Named("b", <<Use("a")>>),
      bHidesA    |-> Named("b", <<Use("a"), Access("private", <<Lower("a")>>)>>),
      bPrivate   |-> Named("b", <<Use("a"), Access("private", <<>>),
                                  Access("public", <<Lower("x")>>)>>),
      bOnlyFoo   |-> Named("b", <<Only("a", As(Camel("foo"), Lower("x")))>>),
      bFoo       |-> Named("b", <<Renames("a", As(Camel("foo"), Lower("x")))>>),
      cFoo       |-> Named("c", <<Only("a", As(Upper("foo"), Lower("x")))>>),
      aUsesB     |-> Named("a", <<Use("b"), Var(Camel("x"))>>),
      bUsesBoth  |-> Named("b", <<Use("a"), Use("c")>>),
      \* two copies of one facade: copies may disagree
      bCopy      |-> Named("b", <<Only("a", As(Upper("foo"), Lower("x")))>>),
      \* programs
      useA       |-> Lines(<<Program, Use("a"), Var(Lower("z")), End>>),
      useB       |-> Lines(<<Program, Use("b"), Holds, Sub("s"), Var(Camel("y")), End, End>>),
      useBC      |-> Lines(<<Program, Use("b"), Use("c"), Block, Var(Camel("x")), End, End>>),
      importing  |-> Lines(<<Program, Use("a"), Interface, Sub("s"),
                             Import("only", <<Lower("x")>>), End, Sub("t"), End, End, End>>),
      \* a submodule of a, and one of that
      subA       |-> Lines(<<Submodule("p", "a", ""), Var(Lower("w")), Holds, Sub("s"), End, End>>),
      subP       |-> Lines(<<Submodule("q", "a", "p"), Import("none", <<>>), End>>),
      \* fragments
      frag       |-> Lines(<<Var(Camel("x"))>>),
      fragUpper  |-> Lines(<<Var(Upper("x"))>>),
      fragNested |-> Lines(<<Var(Camel("y")), Include(<<"g">>)>>),
      fragCycle  |-> Lines(<<Include(<<"f">>), Var(Camel("y"))>>),
      fragModule |-> Named("a", <<Var(Camel("x"))>>),
      fragMacro  |-> Lines(<<MacroIs(Upper("x"))>>),
      broken     |-> Lines(<<Var(Camel("x"))>>),
      useF       |-> Lines(<<Program, Include(<<"f">>), Var(Lower("z")), End>>),
      useF2      |-> Lines(<<Program, Include(<<".", "f">>), Var(Camel("z")), End>>),
      moduleF    |-> Named("b", <<Include(<<"f">>), Access("private", <<Lower("y")>>)>>),
      \* types
      aTypes     |-> Named("a", <<TypeIs("t"), Var(Camel("n")), Bound(Camel("run")), End,
                                  Extends("u", "t"), Private(Var(Camel("k"))),
                                  Typed(Lower("next"), "t"), End,
                                  Typed(Camel("x"), "u")>>),
      aTypesCopy |-> Named("a", <<TypeIs("t"), Var(Upper("n")), End,
                                  Extends("u", "t"), Var(Camel("k")), End,
                                  Typed(Camel("x"), "u")>>),
      cTypes     |-> Named("c", <<TypeIs("t"), Var(Upper("n")), Var(Upper("k")), End,
                                  Typed(Lower("y"), "t")>>),
      loopTypes  |-> Named("a", <<Extends("t", "u"), Var(Lower("n")), End,
                                  Extends("u", "t"), End, Typed(Camel("x"), "u")>>),
      useTypes   |-> Lines(<<Program, Use("a"), TypeIs("v"), Var(Upper("n")), End,
                             Typed(Lower("z"), "v"), Typed(Lower("w"), "t"), End>>),
      useBothTypes |-> Lines(<<Program, Use("a"), Use("c"), Typed(Lower("w"), "t"), End>>),
      subTypes   |-> Lines(<<Submodule("p", "a", ""), Typed(Lower("w"), "u"), End>>)
    ]

\* Every text has a twin that differs in nothing an extractor takes from it.
Twin(text) == text \o "'"
MCContents == Texts @@ [text \in {Twin(t) : t \in DOMAIN Texts} |->
                           Texts[CHOOSE t \in DOMAIN Texts : Twin(t) = text]]
MCUnreadable == {"broken", Twin("broken")}

Orders(paths) == {order \in [1..Cardinality(paths) -> paths] :
                     \A i, j \in DOMAIN order : i # j => order[i] # order[j]}

Nothing == [disk |-> EmptyMap, batches |-> {}, resources |-> EmptyMap, added |-> {},
            absorbs |-> 0, defines |-> {}, edits |-> EmptyMap]

At(texts) == [p \in {P(name) : name \in DOMAIN texts} |->
                 texts[CHOOSE name \in DOMAIN texts : P(name) = p]]

\* All the files of a project in one batch, in every order.
Batch(texts) ==
    [Nothing EXCEPT !.disk = At(texts), !.batches = Orders(DOMAIN At(texts))]

\* Files added one by one, twice over.
Adding(texts, defines) ==
    [Nothing EXCEPT !.disk = At(texts), !.added = DOMAIN At(texts), !.defines = defines,
                    !.absorbs = Cardinality(DOMAIN texts) + 1]

\* Files that include fragments, which somebody may edit.
Including(texts, fragments, edits) ==
    [Nothing EXCEPT !.disk = At(texts @@ fragments), !.batches = Orders(DOMAIN At(texts)),
                    !.edits = At(edits)]

MCProjects ==
    \* private names, facades, cycles
    {Batch([a |-> a, b |-> b, main |-> "useB"]) :
        a \in {"ax", "axPrivate"}, b \in {"bUsesA", "bHidesA", "bPrivate", "bFoo", "bOnlyFoo"}}
    \cup {Batch([a |-> "aUsesB", b |-> "bUsesA", main |-> main]) : main \in {"useA", "useB"}}
    \cup {Batch([a |-> "ax", b |-> "bUsesBoth", c |-> "cx"]),
          Batch([a |-> "ax", b |-> "bUsesA", c |-> "cx", main |-> "useBC"]),
          Batch([a |-> "ax", b |-> "bFoo", c |-> "cFoo", main |-> "useBC"])}
    \* two copies of a module, alike or not
    \cup {Batch([a |-> "ax", copy |-> copy, main |-> "useA"]) :
             copy \in {"ax", "axUpper", "axPrivate", "aUsesB"}}
    \cup {Batch([a |-> "ax", b |-> "bOnlyFoo", copy |-> copy, main |-> "useB"]) :
             copy \in {"bCopy", "bFoo"}}
    \* hosts
    \cup {Batch([a |-> a, p |-> "subA", q |-> "subP", main |-> "importing"]) :
             a \in {"ax", "axPrivate"}}
    \* sources one at a time, and again
    \cup {Adding([a |-> "ax", b |-> "aTypes", main |-> "useA"], {Upper("x")}),
          Adding([a |-> "cTypes", b |-> "axUpper"], {Lower("z"), Upper("z")}),
          Adding([a |-> "fragMacro", b |-> "useF", f |-> "frag"], {Lower("x")})}
    \* fragments: nested, missing, broken, including themselves, edited
    \cup {Including([main |-> "useF", b |-> b], [f |-> f, g |-> "frag"], [g |-> "fragUpper"]) :
             b \in {"useF2", "moduleF"}, f \in {"fragNested", "fragModule", "broken"}}
    \cup {Including([main |-> "useF", b |-> "useF2"], [f |-> "frag"],
                    [f |-> "fragUpper", main |-> "useF'"]),
          Including([main |-> "useF", f |-> "fragCycle"], [g |-> "empty"], [f |-> "frag"]),
          Including([main |-> "useF"], [g |-> "empty"], EmptyMap),
          [Including([main |-> "useF", b |-> "moduleF"], [f |-> "frag"], [f |-> "fragUpper"])
              EXCEPT !.resources = [p \in {P("f"), P("g")} |-> "fragNested"]]}
    \* derived types
    \cup {Batch([a |-> a, main |-> main]) : a \in {"aTypes", "loopTypes"},
             main \in {"useTypes", "subTypes"}}
    \cup {Batch([a |-> "aTypes", copy |-> "aTypesCopy", main |-> main]) :
             main \in {"useTypes", "subTypes"}}
    \cup {Batch([a |-> "aTypes", c |-> "cTypes", main |-> "useBothTypes"])}
-----------------------------------------------------------------------------
Keys   == {"x", "y", "foo", "z", "t"}
Spaces == {"symbols", "types"}

Settled == batch.roots = <<>> /\ context.sources # <<>>

\* The files as they are on disk, each the buffer of a query.
Buffers == UNION {Load(disk, p) : p \in DOMAIN disk}

LinesOf(local) == 1..(local.units[FileScope].lines[2] - 1)

\* What a set of answers comes to, whatever their order.
Agreed(entries) ==
    LET known == {e \in entries : e[1] = "known"} IN
    IF Ambiguous \in entries \/ Cardinality(known) > 1 THEN Ambiguous
    ELSE IF known # {} THEN CHOOSE e \in known : TRUE
    ELSE IF Reference \in entries THEN Reference ELSE Absent

\* A module hands on what it uses if the name is public; a name not spoken of goes
\* by the module it comes from, and that by the default.
HandsOn(unit, key, use) ==
    LET modules == {unit.imports[i].module : i \in 1..Len(unit.imports)}
        spoken  == IF key \in (unit.access.private \cup unit.access.public) \ modules
                   THEN key ELSE use.module IN
    IF spoken \in unit.access.private \cup unit.access.public
    THEN spoken \in unit.access.public ELSE unit.access.default = "public"

Through(unit, key, exporting, exports) ==
    UNION {LET use == unit.imports[i]  targets == Targets(use, key) IN
           IF exporting /\ ~HandsOn(unit, key, use) THEN {}
           ELSE {Renamed(EntryOf(exports, <<use.module, targets[t].remote>>), targets[t].alias) :
                    t \in 1..Len(targets)}
           : i \in {j \in 1..Len(unit.imports) : ~unit.imports[j].intrinsic}}

Definitions(module) == Range(HostUnits(context, <<module>>))

ModulesKnown == {host[1] : host \in {h \in DOMAIN context.hosts : Len(h) = 1}}

\* The least solution of: a module exports what its definitions declare or hand on.
RECURSIVE Solve(_, _)
Solve(space, exports) ==
    LET Of(unit, key) ==
            IF Has(unit[space], key)
            THEN (IF EntityIsPublic(unit, key) THEN {unit[space][key]} ELSE {})
            ELSE Through(unit, key, TRUE, exports)
        next == [p \in ModulesKnown \X Keys |->
                    Agreed(UNION {Of(unit, p[2]) : unit \in Definitions(p[1])})] IN
    IF next = exports THEN exports ELSE Solve(space, next)

\* The same routes, with the names they had.
WithoutAliases(imports) ==
    [i \in 1..Len(imports) |->
        [imports[i] EXCEPT !.names = [j \in 1..Len(@) |-> [local |-> Canonical(Key(@[j].local)),
                                                          remote |-> @[j].remote]]]]

Exports(space) == Solve(space, [p \in ModulesKnown \X Keys |-> Absent])

\* Every unit that may use a module: those of the project, and those of the buffers.
UsingUnits == UNION {Range(context.hosts[h]) : h \in DOMAIN context.hosts}
              \cup UNION {Range(Expanded(context, b).units) : b \in Buffers}

\* Two renames of one local key agree in its spelling, unless they belong to two
\* definitions of one module.
RenamesAgree ==
    LET renames == UNION {UNION {{[unit |-> u, local |-> u.imports[i].names[j].local] :
                                     j \in 1..Len(u.imports[i].names)} :
                                 i \in 1..Len(u.imports)} : u \in UsingUnits} IN
    \A r, s \in renames :
        \/ Key(r.local) = Key(s.local) => r.local = s.local
        \/ r.unit # s.unit /\ r.unit.project_host = s.unit.project_host
           /\ r.unit.project_host # <<>>

NamesAgree(space) ==
    LET exports == Exports(space) IN
    /\ \A p \in ModulesKnown \X Keys :
        ModuleExport(context, space, p[1], p[2], {}).found = exports[p]
    /\ \A unit \in UsingUnits, key \in Keys :
        Imported(context, space, unit.imports, key, {}, {}).found
            = Agreed(Through(unit, key, FALSE, exports))

(* What a module exports and what a unit imports is the agreement of every *)
(* route to the name, in whatever order the routes, the definitions and    *)
(* the cycles between modules are walked: a spelling is never that of the  *)
(* first route when another says otherwise.                                *)
NamesAreNeverGuessed == Settled /\ RenamesAgree => \A space \in Spaces : NamesAgree(space)

RenamesNeverGuessed == Settled => \A space \in Spaces : NamesAgree(space)

(* The identity of a type is that of every route to its name; a member is  *)
(* spelled as the type it was reached through, or one it extends, declares *)
(* it, when no definition of that type says otherwise; and a private one   *)
(* only in the module of the type.                                         *)
RECURSIVE SolveOwners(_)
SolveOwners(exports) ==
    LET Of(module, unit, key) ==
            IF Has(unit.types, key)
            THEN (IF EntityIsPublic(unit, key) THEN {DefinedHere(unit, Module(module), key)} ELSE {})
            ELSE Through([unit EXCEPT !.imports = WithoutAliases(@)], key, TRUE, exports)
        next == [p \in ModulesKnown \X Keys |->
                    Agreed(UNION {Of(p[1], unit, p[2]) : unit \in Definitions(p[1])})] IN
    IF next = exports THEN exports ELSE SolveOwners(next)

Roots   == {"x", "y", "z", "w"}
Chains  == {<<root>> : root \in Roots} \cup {<<"x", "next">>, <<"w", "next">>}
Guards  == {"t", "u", "v"}
Members == {"n", "k", "run"}

\* A type and those it extends, in every definition.
RECURSIVE Lineage(_, _)
Lineage(facts, owners) ==
    LET more == owners \cup UNION {UNION {UNION {
            ResolveFromOrigin(context, facts, o.origin, p) : p \in Get(u.type_graph.parents, o.name)}
            : u \in Range(TypeUnits(context, facts, o))} : o \in owners} IN
    IF more = owners THEN owners ELSE Lineage(facts, more)

\* Inside the module that defines a type, or a submodule of it.
Inside(facts, line, origin) ==
    \E scope \in DOMAIN facts.units :
        LET unit == facts.units[scope] IN
        /\ unit.lines[1] <= line /\ line < unit.lines[2] /\ unit.project_host # <<>>
        /\ unit.project_host[1] = origin.host[1]

\* What one definition of a type says of a member to a reader at this line.
SaysOf(facts, line, unit, owner, key) ==
    LET said == {unit[t][<<owner.name, key>>] :
                    t \in {u \in MemberTables : HasMember(unit[u], owner.name, key)}}
        hidden == owner.name \in DOMAIN unit.member_access
                  /\ ~IsPublic(unit.member_access[owner.name], key)
    IN  IF hidden /\ ~IsLocal(owner.origin) /\ ~Inside(facts, line, owner.origin) THEN {} ELSE said

SaysAny(facts, line, owners, key) ==
    UNION {UNION {SaysOf(facts, line, u, o, key) : u \in Range(TypeUnits(context, facts, o))}
           : o \in owners}

SpelledAs(facts, line, owners, key, spelling) ==
    /\ Known(spelling) \in SaysAny(facts, line, Lineage(facts, owners), key)
    /\ SaysAny(facts, line, owners, key) \subseteq {Known(spelling)}

\* The aliases of known type a root may be: of a selector, or of the variable itself
\* in the guard of a type that extends its own.
Narrows(local, line, root, alias) ==
    Lineage(Expanded(context, local), alias.type)
        \cap VisibleVariableType(context, local, line, root) # {}

AliasesOf(local, line, root) ==
    LET guards == {Guarded(context, local, line, t) : t \in Guards} IN
    {a \in {Associated(context, local, line, s) : s \in Chains} : a.type # {}}
    \cup {g \in guards : Narrows(local, line, root, g)}
    \cup {[g EXCEPT !.spelled = TRUE] : g \in {h \in guards : h.type # {}}}

\* What the root stands for, at the end of the chain.
OwnersOf(local, line, alias, chain) ==
    ComponentOwner(context, local, line,
                   IF alias = NoAlias THEN VisibleVariableType(context, local, line, Head(chain))
                   ELSE alias.type, Tail(chain))

AnswerFor(local, line, alias, chain, key) ==
    ScopedSpelling(context, local, line,
                   MemberEvidence(context, local, line, alias, TRUE, chain), key)

FollowsType(local, line, alias, chain, key) ==
    LET answer == AnswerFor(local, line, alias, chain, key) IN
    answer[1] = "replace" =>
        SpelledAs(Expanded(context, local), line, OwnersOf(local, line, alias, chain), key,
                  answer[2])

MembersFollowTheirType ==
    Settled =>
        /\ LET exports == SolveOwners([p \in ModulesKnown \X Keys |-> Absent]) IN
           \A p \in ModulesKnown \X Keys :
               ExportedIdentity(context, "types", p[1], p[2], {}).found = exports[p]
        /\ \A local \in Buffers : \A line \in LinesOf(local), chain \in Chains, key \in Members :
               \A alias \in {NoAlias} \cup AliasesOf(local, line, Head(chain)) :
                   FollowsType(local, line, alias, chain, key)

(* The tables, the type graph and the modules of a context are what its    *)
(* sources agree on, in whatever order and however often they came.        *)
AgreedMap(maps, key) == Agreed({EntryOf(map, key) : map \in maps})

SameAs(map, maps) ==
    /\ DOMAIN map = UNION {DOMAIN m : m \in maps}
    /\ \A key \in DOMAIN map : map[key] = AgreedMap(maps, key)

ProjectSpellingsAgree ==
    /\ \A t \in TableNames :
        SameAs(context.cases[t], {a.facts.cases[t] : a \in absorbed}
            \cup IF t \in {"components", "bound"} THEN {a.expanded.cases[t] : a \in absorbed}
                 ELSE {})
    /\ SameAs(context.files, {a.facts.files : a \in absorbed})
    /\ SameAs(context.externals, {a.facts.externals : a \in absorbed})
    /\ SameAs(context.generics, {a.facts.generics : a \in absorbed})
    /\ SameAs(context.declared_types, {a.facts.declared_types : a \in absorbed})
    /\ \A t \in DOMAIN NoTypes :
        SameAs(context.types[t], {a.facts.types[t] : a \in absorbed}
            \cup IF t \in NonRootTypes THEN {a.expanded.types[t] : a \in absorbed} ELSE {})
    /\ \A host \in DOMAIN context.hosts :
        /\ IsInjective(context.hosts[host])
        /\ Range(context.hosts[host]) =
             {u \in UNION {Range(a.expanded.units) \cup Range(a.expanded.included) : a \in absorbed} :
                 u.project_host = host}

(* A name is given a case only by a macro of that name, or else by the     *)
(* declarations of the file if they agree, or by those of the project if   *)
(* the file has none, or by the table of intrinsics if nothing has it: and *)
(* never against a declaration that counts.  (`identifier` gives a macro   *)
(* defined in two cases that of the intrinsic: the passes of the program   *)
(* look at the macros before they ask.)                                    *)
Occurs(key) ==
    \E a \in absorbed :
        \/ \E space \in Spaces : Has(a.facts.cases[space], key)
        \/ NamesMember(a.facts.cases.components, key)

Undisputed(own, project_wide, key, spelling) ==
    \/ own = Known(spelling)
    \/ own \in {Absent, Reference} /\ project_wide = Known(spelling)
    \/ spelling = Canonical(key) /\ ~Occurs(key)

IdentifiersAreDeclared ==
    \A a \in absorbed, key \in Keys \cup Intrinsics :
        LET own == EntryOf(a.facts.cases.symbols, key)
            all == Agreed({EntryOf(b.facts.cases.symbols, key) : b \in absorbed})
        IN \A s \in Identifier(ResolverFor(context, a.facts), key) :
               \/ s \in Get(context.macros, key)
               \/ EntryOf(context.macros, key) = Ambiguous /\ s = Canonical(key)
               \/ ~Has(context.macros, key) /\ Undisputed(own, all, key, s)

\* names.rs:1-16, for all a context holds.
CasingNeverGuesses == ProjectSpellingsAgree /\ IdentifiersAreDeclared

(* Within one batch every source sees one and the same text of a fragment, *)
(* though it is edited between two of them: the expansions are those of    *)
(* one moment's disk, or of one that never was.                            *)
Snapshots ==
    LET edited == DOMAIN project.edits IN
    {[p \in DOMAIN disk |-> IF p \in changed THEN project.edits[p] ELSE project.disk[p]] :
        changed \in SUBSET edited}

BatchReadsOnce ==
    project.absorbs = 0 =>
        \E snapshot \in Snapshots : \A a \in absorbed :
            a.expanded = ExpandIncludes(a.path, a.facts, project.resources @@ snapshot)

(* A buffer that differs from the absorbed file in nothing but its text    *)
(* reads every name as the file does, as long as the fragments it includes *)
(* are those on disk.                                                      *)
ReadAlike(clean, now) ==
    \A line \in LinesOf(clean), key \in Keys :
        /\ \A space \in Spaces : VisibleSpelling(context, clean, line, space, key)
                                 = VisibleSpelling(context, now, line, space, key)
        /\ VisibleVariableType(context, clean, line, key)
           = VisibleVariableType(context, now, line, key)

ReadsTheSame(path) ==
    \A clean \in Load(disk, path), dirty \in AnalyzeFileAt(path, Twin(disk[path])) :
        ReadAlike(clean, ExpandUncached(context, path, dirty, disk))

DirtyBufferReadsTheSame ==
    Settled /\ disk = project.disk /\ project.resources = EmptyMap =>
        \A path \in DOMAIN context.expanded : ReadsTheSame(path)

\* A fragment that several sources include is one text to all of them.
FragmentsReadAlike == BatchReadsOnce /\ DirtyBufferReadsTheSame
=============================================================================
