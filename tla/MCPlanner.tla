----------------------------- MODULE MCPlanner -----------------------------
(***************************************************************************)
(* Small documents for Planner: the statements and groups a document is    *)
(* drawn from.  Each cfg picks families of them.                           *)
(***************************************************************************)
EXTENDS Planner

CONSTANTS na, nb, l1, l2

Plain == [kind |-> "Unknown", class |-> "Neutral", name |-> None,
          label |-> None, doLabel |-> None, unframed |-> None, end_kind |-> None]

Def(kind, name) == [Plain EXCEPT !.kind = kind, !.class = "Definition", !.name = name]
Exec(kind)      == [Plain EXCEPT !.kind = kind, !.class = "Executable"]
DoLabelled(lab) == [Exec("Do") EXCEPT !.doLabel = lab]
End             == [Plain EXCEPT !.class = "EndDefinition"]
EndUnit(kind)   == [End EXCEPT !.end_kind = kind]
EndProc         == [End EXCEPT !.kind = "EndProcedure"]
Heading(kind)   == [Plain EXCEPT !.unframed = kind]
Labelled(i, lab) == [i EXCEPT !.label = lab]

Code(statements) ==
    [line0 |-> "Code", event |-> "None", statements |-> statements,
     one_line |-> TRUE, authored |-> 2]
Lines(infos) == {Code(<<i>>) : i \in infos}
Directive(event) == [Code(<<>>) EXCEPT !.line0 = "Preprocessor", !.event = event]
Other(line0) == [Code(<<>>) EXCEPT !.line0 = line0]

\* Nested definitions and constructs, each closed by its own END or by another's.
NestingGroups ==
    Lines({Def("Module", na), Def("Subroutine", nb), Def("AbstractInterface", None),
           Def("Procedure", nb), Exec("If"), Exec("Else"), Exec("EndIf"), Plain,
           Exec("Contains"), Exec("Entry"), Exec("Include"), End, EndProc,
           EndUnit("Subroutine"), Heading("Subroutine")})
    \cup {Code(<<EndUnit("Subroutine"), End>>),
          [Code(<<EndUnit("Subroutine")>>) EXCEPT !.one_line = FALSE]}

\* Labelled loops, several to a label, with other frames between them.
LoopGroups ==
    Lines({DoLabelled(l1), DoLabelled(l2), Exec("Do"), Exec("If"), Exec("EndDo"),
           Exec("EndIf"), Labelled(Exec("LabelContinue"), l1),
           Labelled(Exec("LabelContinue"), l2), Labelled(Exec("EndDo"), l1),
           Labelled(Plain, l1), Labelled(DoLabelled(l2), l1),
           Def("Subroutine", na), End})
    \cup {Code(<<DoLabelled(l1), DoLabelled(l2)>>)}

\* Conditional compilation around code, comments and OpenMP sentinels.
ConditionalGroups ==
    {Directive(e) : e \in Events}
    \cup {Other(k) : k \in {"Omp", "OmpComment", "Comment", "Blank", "Code"}}
    \cup Lines({Def("Subroutine", na), End, DoLabelled(l1),
                Labelled(Exec("LabelContinue"), l1), Plain})
    \cup {[Code(<<Plain>>) EXCEPT !.line0 = "Omp"],
          [Code(<<Plain>>) EXCEPT !.authored = 0]}

Amounts == [k \in FrameKinds |-> IF k \in {"Module", "AbstractInterface"} THEN 1 ELSE 2]

Base == [start_indent |-> 0, auto_start_indent |-> FALSE, max_indent |-> 0,
         indent |-> 2, amount |-> Amounts, case_indent |-> 1, entry_indent |-> 2,
         contains_indent |-> 1, contains_restart |-> FALSE, include_left |-> FALSE,
         openmp |-> TRUE, refactor_end |-> FALSE]

NestingConfigs ==
    {[Base EXCEPT !.refactor_end = TRUE, !.start_indent = 1],
     [Base EXCEPT !.contains_restart = TRUE, !.max_indent = 3, !.include_left = TRUE]}
LoopConfigs == {Base, [Base EXCEPT !.max_indent = 3]}
ConditionalConfigs ==
    {[Base EXCEPT !.auto_start_indent = TRUE],
     [Base EXCEPT !.openmp = FALSE, !.auto_start_indent = TRUE, !.max_indent = 3]}

\* The three families of documents, each planned under its own configurations.
AllConfigs == NestingConfigs \cup LoopConfigs \cup ConditionalConfigs
AllGroups == [c \in AllConfigs |-> IF c \in NestingConfigs THEN NestingGroups
                                   ELSE IF c \in LoopConfigs THEN LoopGroups
                                   ELSE ConditionalGroups]
AllDepths == [c \in AllConfigs |-> IF c \in ConditionalConfigs THEN 2 ELSE 3]
=============================================================================
