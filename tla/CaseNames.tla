------------------------------ MODULE CaseNames ------------------------------
(***************************************************************************)
(* What is known of the spelling of names (src/src/analysis/names.rs).     *)
(*                                                                         *)
(* A spelling is <<key, style>>: names that differ only in case share the  *)
(* key.  A map gives a key an entry, and a lookup answers with a set of at *)
(* most one spelling.  The same entries hold the agreed types of           *)
(* declarations/types.rs, whose tombstones are ambiguous entries.          *)
(***************************************************************************)
EXTENDS Naturals, Sequences, FiniteSets, SequencesExt

CONSTANT Intrinsics  \* the keys of intrinsics and standard words

Key(spelling)  == spelling[1]
Canonical(key) == <<key, "lower">>

Known(value) == <<"known", value>>
Ambiguous    == <<"ambiguous">>
Reference    == <<"reference">>
Absent       == <<"absent">>

EmptyMap == <<>>
EntryOf(map, key) == IF key \in DOMAIN map THEN map[key] ELSE Absent
Option(entry)     == IF entry[1] = "known" THEN {entry[2]} ELSE {}

\* CaseMap::insert, and the insertions into the agreed maps of types.
Insert(map, key, value) ==
    LET old == EntryOf(map, key) IN
    IF old \in {Absent, Reference} THEN (key :> Known(value)) @@ map
    ELSE IF old \in {Known(value), Ambiguous} THEN map
    ELSE (key :> Ambiguous) @@ map

InsertName(map, spelling) == Insert(map, Key(spelling), spelling)

InsertReference(map, key) == map @@ (key :> Reference)

Get(map, key)      == Option(EntryOf(map, key))
Has(map, key) == key \in DOMAIN map
Declares(map, key) == EntryOf(map, key) \notin {Absent, Reference}

\* Mutant: a reference is taken for a contradiction.
Join_ReferenceCounts(mine, theirs) ==
    IF mine = Absent THEN theirs
    ELSE IF theirs \in {Absent, mine} THEN mine
    ELSE Ambiguous

Join(mine, theirs) ==
    IF mine \in {Absent, theirs} THEN theirs
    ELSE IF mine = Ambiguous \/ theirs \in {Absent, Reference} THEN mine
    ELSE IF mine = Reference THEN theirs
    ELSE Ambiguous

Merge(mine, theirs) ==
    [key \in DOMAIN mine \cup DOMAIN theirs |-> Join(EntryOf(mine, key), EntryOf(theirs, key))]

\* ComponentCaseMap: keys are <<owner, name>>.
InsertMember(map, owner, spelling) == Insert(map, <<owner, Key(spelling)>>, spelling)
GetMember(map, owner, name)        == Get(map, <<owner, name>>)
HasMember(map, owner, name)        == Has(map, <<owner, name>>)
NamesMember(map, name)            == \E key \in DOMAIN map : key[2] = name
MergeMembers(mine, theirs)         == Merge(mine, theirs)

\* CaseTables
NoTables == [modules |-> EmptyMap, symbols |-> EmptyMap, types |-> EmptyMap,
             components |-> EmptyMap, procedures |-> EmptyMap, bound |-> EmptyMap]
TableNames == DOMAIN NoTables

MergeTables(mine, theirs) == [t \in TableNames |-> Merge(mine[t], theirs[t])]
-----------------------------------------------------------------------------
(* CaseResolver: [local, project, macros] *)

\* NameSpace::select
SelectSpace(space) == IF space = "components" THEN {} ELSE {space}

Resolve(local, project, key) ==
    IF Declares(local, key) THEN Get(local, key) ELSE Get(project, key)

SpellingIn(resolver, space, key) ==
    IF Declares(resolver.macros, key) THEN Get(resolver.macros, key)
    ELSE UNION {Resolve(resolver.local[s], resolver.project[s], key) : s \in SelectSpace(space)}

\* component_spelling: a member of a known type.
ComponentSpelling(resolver, owner, name) ==
    LET local == resolver.local.components IN
    IF Declares(resolver.macros, name) THEN Get(resolver.macros, name)
    ELSE IF HasMember(local, owner, name) THEN GetMember(local, owner, name)
    ELSE GetMember(resolver.project.components, owner, name)

TypeProcedureSpelling(resolver, owner, name) ==
    LET local == resolver.local.bound IN
    IF Declares(resolver.macros, name) THEN Get(resolver.macros, name)
    ELSE IF HasMember(local, owner, name) THEN GetMember(local, owner, name)
    ELSE GetMember(resolver.project.bound, owner, name)

\* Mutant: only the file itself is asked.
DeclaredFilewide_File(resolver, key) ==
    \/ \E space \in {"symbols", "types"} : Has(resolver.local[space], key)
    \/ NamesMember(resolver.local.components, key)

DeclaredFilewide(resolver, key) ==
    \E tables \in {resolver.local, resolver.project} :
        \/ \E space \in {"symbols", "types"} : Has(tables[space], key)
        \/ NamesMember(tables.components, key)

Identifier(resolver, key) ==
    LET declared == SpellingIn(resolver, "symbols", key) IN
    IF declared # {} THEN declared
    ELSE IF DeclaredFilewide(resolver, key) \/ key \notin Intrinsics THEN {}
    ELSE {Canonical(key)}
=============================================================================
