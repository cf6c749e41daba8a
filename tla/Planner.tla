------------------------------ MODULE Planner ------------------------------
(***************************************************************************)
(* Structural planning (src/src/format/planner.rs): where each logical     *)
(* group of a document goes.  The planner walks the groups in order and    *)
(* carries an indent stack, the stack of open preprocessor conditionals    *)
(* with the snapshot each one restores, and whether a significant          *)
(* statement has been seen.                                                *)
(*                                                                         *)
(* The document is the environment: any group of `Groups` may come next.   *)
(* Planner::plan is split at the points where its loops turn: one step     *)
(* starts a group, one step closes one labelled loop (close_label), one    *)
(* step makes the transition of one statement.  The code is sequential, so *)
(* the split adds no behaviour; it replaces the two loops.                 *)
(***************************************************************************)
EXTENDS IndentStack

CONSTANTS Configs,         \* the configurations to plan under
          Groups,          \* the logical groups a document is made of, for each
                           \* configuration it is planned under
          MaxDepth,        \* bound: open frames, for each configuration
          MaxColumn,       \* bound: the column a frame may open at
          MaxConditionals  \* bound: open preprocessor conditionals

(***************************************************************************)
(* What the classifier says of a statement (StatementInfo).  `label` is    *)
(* the statement label, `doLabel` the label a DO refers to, `unframed` a   *)
(* comma-prefixed procedure heading that opens no frame, `end_kind` the    *)
(* explicit target of END FUNCTION / END SUBROUTINE.                       *)
(***************************************************************************)
EndOf == [EndIf |-> "If", EndDo |-> "Do", EndSelect |-> "Select",
          EndWhere |-> "Where", EndForall |-> "Forall",
          EndAssociate |-> "Associate", EndBlock |-> "Block",
          EndCritical |-> "Critical", EndTeam |-> "ChangeTeam",
          EndEnum |-> "Enum", EndProcedure |-> "Procedure",
          EndStructure |-> "Structure", EndUnion |-> "Union", EndMap |-> "Map"]

StatementKinds ==
    FrameKinds \cup DOMAIN EndOf \cup
    {"Else", "ElseIf", "ElseWhere", "Case", "Entry", "Contains", "Include",
     "LabelContinue", "Unknown"}

\* An END counted as the end of a definition is END PROCEDURE or one the
\* classifier gives no kind of its own.
StatementInfo ==
    {info \in [kind : StatementKinds,
               class : {"Definition", "Executable", "EndDefinition", "Neutral"},
               name : Names \cup {None}, label : Labels \cup {None},
               doLabel : Labels \cup {None},
               unframed : ProcedureKinds \cup {None},
               end_kind : ProcedureKinds \cup {None}] :
        info.class = "EndDefinition" => info.kind \in {"EndProcedure", "Unknown"}}

\* What a group looks like to `plan`: the kind of its first line, the
\* directive event, its statements, whether it spans one physical line, and
\* the column its first line was authored at (guess_start_indent).
\* "OmpComment" is an OpenMP sentinel with nothing but a comment behind it.
LineKinds == {"Preprocessor", "Omp", "OmpComment", "Comment", "Blank", "Code"}
Events == {"None", "If", "Elif", "Else", "EndIf"}

Group == [line0 : LineKinds, event : Events, statements : Seq(StatementInfo),
          one_line : BOOLEAN, authored : Nat]

Config == [start_indent : Nat, auto_start_indent : BOOLEAN, max_indent : Nat,
           indent : Nat, amount : [FrameKinds -> Nat], case_indent : Nat,
           entry_indent : Nat, contains_indent : Nat,
           contains_restart : BOOLEAN, include_left : BOOLEAN,
           openmp : BOOLEAN, refactor_end : BOOLEAN]

\* The END text --refactor-end writes: a target (None: a bare END) and a name.
NamedEnds == DefinitionKinds \ {"AbstractInterface", "Structure", "Union", "Map"}
Replacement == [target : NamedEnds \cup {None}, name : Names \cup {None}]

Plan == [first_indent : Nat, directive_indent : Nat,
         replacement : Replacement \cup {None},
         last_indent : Nat \cup {None}, usable : BOOLEAN]

ASSUME PlannerAssumption ==
    /\ Configs \subseteq Config
    /\ Groups \in [Configs -> SUBSET Group]
    /\ MaxDepth \in [Configs -> Nat] /\ MaxColumn \in Nat /\ MaxConditionals \in Nat
    \* A directive group carries no statements.
    /\ \A c \in Configs : \A g \in Groups[c] : g.line0 = "Preprocessor" => g.statements = <<>>

VARIABLES
    config,            \* fixed for the run
    stack,             \* Planner::stack
    preprocessor,      \* PreprocessorState::stack: <<snapshot, seen else>> pairs
    significant_seen,  \* Planner::significant_seen
    group,             \* the group being planned
    position,          \* statements of the group already planned
    plan,              \* the GroupPlan being built, then the last one
    wellformed         \* history: every END so far closed the innermost frame

vars == <<config, stack, preprocessor, significant_seen, group, position,
          plan, wellformed>>

BlankGroup == [line0 |-> "Blank", event |-> "None", statements |-> <<>>,
               one_line |-> TRUE, authored |-> 0]

UniformPlan(indent) ==
    [first_indent |-> indent, directive_indent |-> indent,
     replacement |-> None, last_indent |-> None, usable |-> FALSE]

Init ==
    /\ config \in Configs
    /\ stack = NewStack(config.start_indent)
    /\ preprocessor = <<>>
    /\ significant_seen = FALSE
    /\ group = BlankGroup
    /\ position = 0
    /\ plan = UniformPlan(0)
    /\ wellformed = TRUE

GroupDone == position = Len(group.statements)
Info == group.statements[position + 1]

\* Mutant: the base is guessed again for every group.
StackAt_Always(g) ==
    IF config.auto_start_indent /\ g.statements # <<>>
    THEN SetBase(stack, g.authored)
    ELSE stack

\* The stack a group starts from: the base is guessed from the text until a
\* significant statement is seen.
StackAt(g) ==
    IF config.auto_start_indent /\ ~significant_seen /\ g.statements # <<>>
    THEN SetBase(stack, g.authored)
    ELSE stack

\* PreprocessorState::apply.
Conditionals(event) ==
    CASE event = "If" -> Append(preprocessor, [state |-> stack, seen |-> FALSE])
      [] event = "Else" /\ preprocessor # <<>> ->
             WithLast(preprocessor, [Last(preprocessor) EXCEPT !.seen = TRUE])
      [] event = "EndIf" /\ preprocessor # <<>> -> Front(preprocessor)
      [] OTHER -> preprocessor

Restored(event) ==
    IF event \in {"Elif", "Else"} /\ preprocessor # <<>>
    THEN Last(preprocessor).state
    ELSE stack

\* A CPP directive group: placed at the column in force before its event.
PlanDirective(g) ==
    /\ GroupDone
    /\ g.line0 = "Preprocessor"
    /\ g.event = "If" => Len(preprocessor) < MaxConditionals
    /\ group' = g /\ position' = 0
    /\ preprocessor' = Conditionals(g.event)
    /\ stack' = Restored(g.event)
    /\ plan' = [UniformPlan(Current(stack)) EXCEPT !.last_indent = Current(stack)]
    /\ UNCHANGED <<config, significant_seen, wellformed>>

\* A group without a statement to plan: a comment keeps the depth around it,
\* a blank line goes to column 0, an OpenMP directive is uniform while OpenMP
\* indentation is off, whatever it holds.
SkipsStatements(g) == g.line0 \in {"Omp", "OmpComment"} /\ ~config.openmp

PlanUniform(g) ==
    /\ GroupDone
    /\ g.line0 # "Preprocessor"
    /\ SkipsStatements(g) \/ g.statements = <<>>
    /\ group' = [g EXCEPT !.statements = <<>>] /\ position' = 0
    /\ stack' = StackAt(g)
    /\ plan' = UniformPlan(IF SkipsStatements(g) \/ g.line0 \in {"Comment", "OmpComment"}
                           THEN Current(StackAt(g)) ELSE 0)
    /\ UNCHANGED <<config, preprocessor, significant_seen, wellformed>>

\* The statements of a group that may open a frame: the bounds stop only these.
Opens(g) == {i \in 1..Len(g.statements) : g.statements[i].kind \in FrameKinds}

StartCode(g) ==
    /\ GroupDone
    /\ g.line0 # "Preprocessor" /\ ~SkipsStatements(g) /\ g.statements # <<>>
    /\ Opens(g) # {} => /\ Len(stack.frames) + Cardinality(Opens(g)) <= MaxDepth[config]
                        /\ RawCurrent(stack) <= MaxColumn
    /\ group' = g /\ position' = 0
    /\ stack' = StackAt(g)
    /\ plan' = UniformPlan(Current(StackAt(g)))
    /\ UNCHANGED <<config, preprocessor, significant_seen, wellformed>>

-----------------------------------------------------------------------------
(* One statement.  Its label closes loops first, unless it is an END DO.   *)

LoopsToClose ==
    IF Info.kind = "EndDo" \/ Info.label = None
    THEN {} ELSE LoopsEndingAt(stack, Info.label)

CloseLabel ==
    /\ ~GroupDone
    /\ LoopsToClose # {}
    /\ stack' = CloseInnermostLoop(stack, Info.label)
    /\ wellformed' = (wellformed /\ Innermost(LoopsToClose) = Len(stack.frames))
    /\ UNCHANGED <<config, preprocessor, significant_seen, group, position, plan>>

\* --refactor-end completes a one-line END from the active frame, as it is
\* before the transition.
EndText(frame) ==
    [target |-> IF frame.kind \in NamedEnds THEN frame.kind ELSE None,
     name |-> frame.name]

\* Mutant: any END statement of the group may replace its first line.
RefactorEnd_AnyStatement ==
    IF /\ config.refactor_end /\ Info.class = "EndDefinition"
       /\ HasTop(stack) /\ Top(stack).kind # "AbstractInterface"
    THEN EndText(Top(stack))
    ELSE plan.replacement

RefactorEnd ==
    IF /\ position = 0
       /\ config.refactor_end /\ Info.class = "EndDefinition"
       /\ group.one_line /\ Len(group.statements) = 1
       /\ HasTop(stack) /\ Top(stack).kind # "AbstractInterface"
    THEN EndText(Top(stack))
    ELSE plan.replacement

Significant(info) == info.class # "Neutral" \/ info.kind # "Unknown"

\* The common part of every transition: the statement leaves the stack `st`
\* and its line, if it comes first on it, is placed at `column`.
Place(column, st, legal) ==
    /\ stack' = st
    /\ position' = position + 1
    /\ significant_seen' = (significant_seen \/ Significant(Info))
    /\ LET first == IF position = 0 THEN column ELSE plan.first_indent IN
       plan' = [first_indent |-> first,
                directive_indent |-> Current(st),
                replacement |-> RefactorEnd,
                last_indent |-> Clamp(first, config.max_indent),
                usable |-> plan.usable \/ Significant(Info)]
    /\ wellformed' = (wellformed /\ legal)
    /\ UNCHANGED <<config, preprocessor, group>>

\* A MODULE PROCEDURE inside an interface or a type is a member of it.
IsMember(info) ==
    info.kind = "Procedure" /\ TopIs(stack, {"Interface", "AbstractInterface", "Type"})

Member ==
    /\ IsMember(Info)
    /\ Place(RawCurrent(stack), stack, TRUE)

OpenFrame ==
    /\ Info.kind \in FrameKinds /\ ~IsMember(Info)
    /\ LET pushed == Push(stack, Info.kind, config.amount[Info.kind],
                          IF Info.kind \in DefinitionKinds THEN Info.name ELSE None,
                          config.max_indent)
           opened == IF Info.kind = "Do" /\ Info.doLabel # None
                     THEN LabelDo(pushed, Info.doLabel) ELSE pushed
       IN  Place(RawCurrent(stack), opened, TRUE)

\* ELSE, CASE, ENTRY and their kin step back for their own line only.
StepBack(info) ==
    CASE info.kind \in {"Else", "ElseIf"} -> config.amount["If"]
      [] info.kind = "ElseWhere"          -> config.amount["Where"]
      [] info.kind = "Case"               -> config.case_indent
      [] info.kind = "Entry"              -> config.entry_indent
      [] info.kind = "Contains"           -> config.contains_indent

BranchLine ==
    /\ \/ Info.kind \in {"Else", "ElseIf", "ElseWhere", "Case", "Entry"}
       \/ Info.kind = "Contains" /\ ~config.contains_restart
    /\ Place(SaturatingSub(RawCurrent(stack), StepBack(Info)), stack, TRUE)

ContainsRestart ==
    /\ Info.kind = "Contains" /\ config.contains_restart
    /\ Place(stack.base, RestartAtBase(stack, config.max_indent), TRUE)

\* Mutant: the END is placed before its frame is closed.
EndConstruct_BeforePop ==
    /\ Info.kind \in DOMAIN EndOf
    /\ LET matches == TopIs(stack, {EndOf[Info.kind]})
           st == IF matches THEN Pop(stack) ELSE stack
       IN  Place(RawCurrent(stack), st, matches)

\* END IF and the like close the top frame only if it is theirs.
EndConstruct ==
    /\ Info.kind \in DOMAIN EndOf
    /\ LET matches == TopIs(stack, {EndOf[Info.kind]})
           st == IF matches THEN Pop(stack) ELSE stack
       IN  Place(RawCurrent(st), st, matches)

IsEndDefinition == Info.kind = "Unknown" /\ Info.class = "EndDefinition"

\* END of a program unit, whatever it names, closes a definition on top.
EndDefinition ==
    /\ IsEndDefinition
    /\ TopIs(stack, DefinitionKinds)
    /\ LET st == Pop(stack)
           named == Info.end_kind = None \/ Info.end_kind = Top(stack).kind
       IN  Place(RawCurrent(st), st, named)

\* The recovery chain for an END with no definition on top: an unframed
\* heading, then the innermost definition under the open constructs, then one
\* level of the active column.
IsOrphanEnd == Info.end_kind # None /\ stack.orphan_procedure = Info.end_kind

RecoverEnd ==
    /\ IsEndDefinition
    /\ ~TopIs(stack, DefinitionKinds)
    /\ LET st == IF IsOrphanEnd
                 THEN PopOrphanProcedure(stack, config.indent, config.max_indent)
                 ELSE IF DefinitionFrames(stack) # {}
                 THEN RecoverDefinitionEnd(stack, config.indent, config.max_indent)
                 ELSE IF HasTop(stack)
                 THEN Branch(stack, config.indent)
                 ELSE stack
       IN  Place(RawCurrent(st), st, FALSE)

Include ==
    /\ Info.kind = "Include"
    /\ Place(IF config.include_left THEN stack.base ELSE RawCurrent(stack),
             stack, TRUE)

\* CONTINUE (its label has closed its loops already) and every statement that
\* is not structural; a comma-prefixed heading is remembered.
Ordinary ==
    /\ Info.kind \in {"LabelContinue", "Unknown"} /\ ~IsEndDefinition
    /\ LET marks == Info.kind = "Unknown" /\ Info.unframed # None
           st == IF marks THEN [stack EXCEPT !.orphan_procedure = Info.unframed]
                 ELSE stack
       IN  Place(RawCurrent(stack), st, ~marks)

Transition ==
    /\ ~GroupDone
    /\ LoopsToClose = {}
    /\ \/ Member
       \/ OpenFrame
       \/ BranchLine
       \/ ContainsRestart
       \/ EndConstruct
       \/ EndDefinition
       \/ RecoverEnd
       \/ Include
       \/ Ordinary

Next ==
    \/ \E g \in Groups[config] : PlanDirective(g)
    \/ \E g \in Groups[config] : PlanUniform(g)
    \/ \E g \in Groups[config] : StartCode(g)
    \/ CloseLabel
    \/ Transition

Spec == Init /\ [][Next]_vars


-----------------------------------------------------------------------------
(* Properties. *)

\* Type invariant of the planner's state.
TypeOK ==
    /\ config \in Configs
    /\ stack \in Stack
    /\ preprocessor \in Seq([state : Stack, seen : BOOLEAN])
    /\ significant_seen \in BOOLEAN
    /\ group \in Group
    /\ position \in 0..Len(group.statements)
    /\ plan \in Plan
    /\ wellformed \in BOOLEAN

\* Every stack the planner holds: the active one and the snapshots that #elif
\* and #else bring back.
Stacks == {stack} \cup {preprocessor[i].state : i \in 1..Len(preprocessor)}

\* The vectors of a stack stay in step: one column below the frames and one
\* per frame.  `remove(index + 1)` in close_label and recover_definition_end
\* would panic otherwise, and `pop` would close one frame and keep its column.
Shape(st) ==
    /\ Len(st.values) = Len(st.frames) + 1
    /\ Len(st.raw_values) = Len(st.frames) + 1

StackShape == \A st \in Stacks : Shape(st)

\* The labelled-DO vector names exactly the open loops that wait for a label,
\* at their present position in the frame vector, however many frames were
\* taken out below them: a stale index makes CONTINUE close another frame.
LabelsNameLoops(st) ==
    /\ \A d \in st.labeled_do :
          d.index \in 1..Len(st.frames) /\ st.frames[d.index].doLabel = d.label
    /\ \A i \in 1..Len(st.frames) :
          st.frames[i].doLabel # None =>
            /\ st.frames[i].kind = "Do"
            /\ [label |-> st.frames[i].doLabel, index |-> i] \in st.labeled_do

LabelsExact == \A st \in Stacks : LabelsNameLoops(st)

\* Reported columns (clamped to max_indent) and structural columns never tell
\* two stories: the visible column of a level is its raw column, clamped.
VisibleAgrees(st) ==
    \A i \in 1..Len(st.raw_values) :
        Clamp(st.values[i], config.max_indent) = Clamp(st.raw_values[i], config.max_indent)

VisibleAgreesWithRaw == \A st \in Stacks : VisibleAgrees(st)

\* While the document is well formed, the column a frame's END will be given is
\* the column its opening statement was given, for every open frame, and the
\* document is back at the base column when nothing is open.  (CONTAINS
\* restarts, loops closed by label, #else branches and bases guessed late
\* included.)
ColumnsKept == wellformed =>
    /\ \A i \in 1..Len(stack.frames) : stack.frames[i].opened = stack.raw_values[i]
    /\ stack.frames = <<>> => stack.raw_values = <<stack.base>>

\* An END that closes the innermost frame is placed where that frame's opening
\* statement was placed.
EndAligns ==
    /\ wellformed' /\ position = 0 /\ position' = 1
    /\ Info.kind \in DOMAIN EndOf \/ IsEndDefinition
    => HasTop(stack) /\ plan'.first_indent = Top(stack).opened

EndAlignsWithOpener == [][EndAligns /\ ColumnsKept']_vars

\* --refactor-end rewrites a line only when the rewritten END is the whole
\* line, and (the document being well formed) closes the frame whose kind and
\* name it was completed with.
RefactorIsSound ==
    (plan'.replacement # None /\ ~GroupDone /\ position' = position + 1)
    => /\ Len(group.statements) = 1 /\ group.one_line
       /\ wellformed' =>
            /\ stack'.frames = Front(stack.frames)
            /\ plan'.replacement.name = Top(stack).name
            /\ plan'.replacement.target \in {Top(stack).kind, None}

RefactoredEndNamesItsFrame == [][RefactorIsSound]_vars
=============================================================================
