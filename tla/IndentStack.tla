---------------------------- MODULE IndentStack ----------------------------
(***************************************************************************)
(* The indent stack of the layout engine (src/src/format/stack.rs): three  *)
(* parallel vectors that grow and shrink together, and the list of open    *)
(* labelled DO loops, whose entries are indices into the frame vector.     *)
(*                                                                         *)
(* A stack is a record with the fields of the Rust struct.  Vectors are    *)
(* sequences, so the Rust index i is i + 1 here and values[i + 1] (the     *)
(* body column of frames[i]) is values[i + 1] of a 1-based frame i.  The   *)
(* labelled-DO vector is a set: no operation depends on its order.         *)
(*                                                                         *)
(* Two fields of a frame are history, read by properties only: `opened` is *)
(* the column its opening statement was given, `doLabel` the label of a    *)
(* labelled DO.  The code's own Frame::indent is never read and left out.  *)
(***************************************************************************)
EXTENDS Integers, Sequences, SequencesExt

CONSTANTS Names,    \* entity names a definition may carry
          Labels,   \* numeric statement labels
          None      \* the absent option

ASSUME NoneIsFresh == None \notin Names \cup Labels

(***************************************************************************)
(* Statement kinds, as in src/src/classify/statement.rs.                   *)
(***************************************************************************)
\* The kinds `pop_definition` and `recover_definition_end` may close.
DefinitionKinds ==
    {"Program", "Module", "Submodule", "Subroutine", "Function", "BlockData",
     "Interface", "AbstractInterface", "Type", "Procedure", "Structure",
     "Union", "Map"}

ConstructKinds ==
    {"If", "Do", "Select", "Where", "Forall", "Associate", "Block",
     "Critical", "ChangeTeam", "Enum"}

FrameKinds == DefinitionKinds \cup ConstructKinds

ProcedureKinds == {"Function", "Subroutine"}

Frame == [kind : FrameKinds, name : Names \cup {None},
          opened : Nat, doLabel : Labels \cup {None}]

Stack == [base : Nat, values : Seq(Nat), raw_values : Seq(Nat),
          frames : Seq(Frame),
          labeled_do : SUBSET [label : Labels, index : Nat],
          orphan_procedure : ProcedureKinds \cup {None}]

-----------------------------------------------------------------------------
(* Arithmetic on columns. *)

\* Mutant: plain subtraction.
SaturatingSub_Plain(m, n) == m - n

SaturatingSub(m, n) == IF m >= n THEN m - n ELSE 0

\* max = 0 means no limit.
Clamp(n, max) == IF max = 0 \/ n <= max THEN n ELSE max

-----------------------------------------------------------------------------
(* Queries and operations. *)

NewStack(base) ==
    [base |-> base, values |-> <<base>>, raw_values |-> <<base>>,
     frames |-> <<>>, labeled_do |-> {}, orphan_procedure |-> None]

Current(st)    == IF st.values = <<>> THEN st.base ELSE Last(st.values)
RawCurrent(st) == IF st.raw_values = <<>> THEN st.base ELSE Last(st.raw_values)

HasTop(st)  == st.frames # <<>>
Top(st)     == Last(st.frames)
TopIs(st, kinds) == HasTop(st) /\ Top(st).kind \in kinds

\* The vector with its first / last entry replaced, if it has one.
WithFirst(s, x) == IF s = <<>> THEN s ELSE [s EXCEPT ![1] = x]
WithLast(s, x)  == IF s = <<>> THEN s ELSE [s EXCEPT ![Len(s)] = x]

SetBase(st, base) ==
    [st EXCEPT !.base = base,
               !.values = WithFirst(@, base),
               !.raw_values = WithFirst(@, base)]

Push(st, kind, amount, name, max) ==
    LET raw == RawCurrent(st) + amount IN
    [st EXCEPT !.raw_values = Append(@, raw),
               !.values = Append(@, Clamp(raw, max)),
               !.frames = Append(@, [kind |-> kind, name |-> name,
                                     opened |-> RawCurrent(st),
                                     doLabel |-> None])]

\* label_do: remember that the frame just pushed ends at `label`.
LabelDo(st, label) ==
    [st EXCEPT !.labeled_do = @ \cup {[label |-> label, index |-> Len(st.frames)]},
               !.frames = WithLast(@, [Top(st) EXCEPT !.doLabel = label])]

\* Mutants: the closed loop's label stays listed; the last level is kept.
Pop_KeepsLabels(st) ==
    [st EXCEPT !.values = IF Len(@) > 1 THEN Front(@) ELSE @,
               !.raw_values = IF Len(@) > 1 THEN Front(@) ELSE @,
               !.frames = IF HasTop(st) THEN Front(@) ELSE @]
Pop(st) ==
    [st EXCEPT !.values = IF Len(@) > 1 THEN Front(@) ELSE @,
               !.raw_values = IF Len(@) > 1 THEN Front(@) ELSE @,
               !.frames = IF HasTop(st) THEN Front(@) ELSE @,
               !.labeled_do = IF HasTop(st)
                              THEN {d \in @ : d.index # Len(st.frames)}
                              ELSE @]

\* Mutants: the visible column removed is the one below the frame; the raw
\* column of the frame stays.
RemoveFrame_ValueBelow(st, i) ==
    [st EXCEPT !.frames = RemoveAt(@, i),
               !.values = RemoveAt(@, i),
               !.raw_values = RemoveAt(@, i + 1)]
RemoveFrame_KeepsRaw(st, i) ==
    [st EXCEPT !.frames = RemoveAt(@, i),
               !.values = RemoveAt(@, i + 1)]

\* Take frame i out of the middle and renumber the labelled loops above it.
RemoveFrame(st, i) ==
    [st EXCEPT !.frames = RemoveAt(@, i),
               !.values = RemoveAt(@, i + 1),
               !.raw_values = RemoveAt(@, i + 1),
               !.labeled_do = {IF d.index > i THEN [d EXCEPT !.index = @ - 1] ELSE d
                                 : d \in @}]

\* Overwrite the active column, keeping the frames.
SetActive(st, raw, visible) ==
    [st EXCEPT !.raw_values = WithLast(@, raw),
               !.values = WithLast(@, visible)]

\* branch: the visible column is not clamped here.
Branch(st, amount) ==
    LET raw == SaturatingSub(RawCurrent(st), amount) IN SetActive(st, raw, raw)

RestartAtBase(st, max) == SetActive(st, st.base, Clamp(st.base, max))

\* The parts of recover_definition_end and pop_orphan_procedure that back the
\* active column out by one default level.
BackOut(st, amount, max) ==
    LET raw == SaturatingSub(RawCurrent(st), amount)
    IN  SetActive(st, raw, Clamp(raw, max))

PopOrphanProcedure(st, amount, max) ==
    BackOut([st EXCEPT !.orphan_procedure = None], amount, max)

\* The frames recover_definition_end may remove: it takes the innermost.
DefinitionFrames(st) ==
    {i \in 1..Len(st.frames) : st.frames[i].kind \in DefinitionKinds}

Innermost(S) == CHOOSE i \in S : \A j \in S : j <= i

RecoverDefinitionEnd(st, amount, max) ==
    BackOut(RemoveFrame(st, Innermost(DefinitionFrames(st))), amount, max)

\* The loops a statement labelled `label` ends, and close_label's loop body:
\* remove the highest of them.  close_label repeats it until none is left.
LoopsEndingAt(st, label) == {d.index : d \in {e \in st.labeled_do : e.label = label}}

CloseInnermostLoop(st, label) ==
    LET i == Innermost(LoopsEndingAt(st, label))
        unlisted == [st EXCEPT !.labeled_do = @ \ {[label |-> label, index |-> i]}]
    IN  IF i \in 1..Len(st.frames) THEN RemoveFrame(unlisted, i) ELSE unlisted
=============================================================================
