----------------------------- MODULE FixedPoint -----------------------------
(***************************************************************************)
(* fixed_point_progress (src/src/format/full/reflow/rounds.rs): what the   *)
(* result of one round says, given the states seen before it, and the      *)
(* history its two callers keep of the new ones.                           *)
(***************************************************************************)
EXTENDS Sequences, SequencesExt

\* Mutants: any repetition is stability; the last state is not told from the
\* older ones.
Progress_AnyRepeat(history, candidate) ==
    IF Contains(history, candidate) THEN "Stable" ELSE "New"
Progress_CycleFirst(history, candidate) ==
    IF Contains(history, candidate) /\ Len(history) > 1 THEN "Cycle"
    ELSE IF history # <<>> /\ Last(history) = candidate THEN "Stable"
    ELSE "New"

Progress(history, candidate) ==
    IF history # <<>> /\ Last(history) = candidate THEN "Stable"
    ELSE IF Contains(history, candidate) THEN "Cycle"
    ELSE "New"

\* Mutant: only the last state is remembered.
Remember_Last(history, state) == <<state>>

Remember(history, state) == Append(history, state)
=============================================================================
