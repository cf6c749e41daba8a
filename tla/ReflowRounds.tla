---------------------------- MODULE ReflowRounds ----------------------------
(***************************************************************************)
(* The rounds of the wrapper (ReflowScope::reflow in                       *)
(* src/src/format/full/reflow/rounds.rs).  A round lays out the lines of   *)
(* the last one, flags the wrappable groups that overrun the line length,  *)
(* for good, and emits every group again.                                  *)
(*                                                                         *)
(* What a layout measures and what the groups emit are functions of the    *)
(* lines, the groups' spans and the flags.  They are arbitrary here: an    *)
(* answer is chosen when it is asked for first and kept, so that every     *)
(* pair of functions is covered.  (A set holds the answer: none, or one.)  *)
(* A layout stands for lines with spans.                                   *)
(***************************************************************************)
EXTENDS FixedPoint

CONSTANTS Layouts,    \* the lines a document may have, with its groups' spans
          Groups,     \* its logical groups
          Wrappable   \* the groups the rounds may flag

ASSUME ReflowRoundsAssumption == Wrappable \subseteq Groups

VARIABLES
    overruns,      \* answers: the groups with a line too long, per layout
    emission,      \* answers: the layout emitted, per layout and flags
    measured,      \* the layout the next round measures
    needs_reflow,  \* the groups flagged so far
    round_history, \* the layouts emitted since a group was flagged last
    outcome        \* "running", "ok", "cycle" or "error"

vars == <<overruns, emission, measured, needs_reflow, round_history, outcome>>

Init ==
    /\ overruns = [l \in Layouts |-> {}]
    /\ emission = [l \in Layouts |-> [flags \in SUBSET Groups |-> {}]]
    /\ measured \in Layouts
    /\ needs_reflow = {}
    /\ round_history = <<>>
    /\ outcome = "running"

\* The answer given before, or any.
Answers(known, all) == IF known = {} THEN all ELSE known

Flags(over) == needs_reflow \cup (over \cap Wrappable)

\* Mutant: the history survives a new flag.
Comparable_Always(flags) == round_history

\* States from before a new flag are no longer comparable.
Comparable(flags) == IF flags = needs_reflow THEN round_history ELSE <<>>

\* What the progress of a round makes of the loop.
Verdict == [Stable |-> "ok", Cycle |-> "cycle", New |-> "running"]

Round ==
    /\ outcome = "running"
    /\ \E over \in Answers(overruns[measured], SUBSET Groups) :
       \E out \in Answers(emission[measured][Flags(over)], Layouts) :
          LET history == Comparable(Flags(over))
              progress == Progress(history, out)
          IN  /\ overruns' = [overruns EXCEPT ![measured] = {over}]
              /\ emission' = [emission EXCEPT ![measured][Flags(over)] = {out}]
              /\ needs_reflow' = Flags(over)
              /\ round_history' = IF progress = "New" THEN Remember(history, out) ELSE history
              /\ measured' = IF progress = "New" THEN out ELSE measured
              /\ outcome' = Verdict[progress]

\* layout::measure may fail (its `?`): a layout too large to be analyzed.  One that
\* was measured before is not.
MeasureFails ==
    /\ outcome = "running" /\ overruns[measured] = {}
    /\ outcome' = "error"
    /\ UNCHANGED <<overruns, emission, measured, needs_reflow, round_history>>

Next == Round \/ MeasureFails

\* The loop runs until it returns.
Spec == Init /\ [][Next]_vars /\ WF_vars(Next)

-----------------------------------------------------------------------------
(* Properties. *)

TypeOK ==
    /\ overruns \in [Layouts -> SUBSET SUBSET Groups]
    /\ emission \in [Layouts -> [SUBSET Groups -> SUBSET Layouts]]
    /\ measured \in Layouts
    /\ needs_reflow \subseteq Wrappable
    /\ round_history \in Seq(Layouts)
    /\ outcome \in {"running", "ok", "cycle", "error"}

\* Another round from layout l would flag nothing and emit `out`.
Repeats(l, out) ==
    /\ \E over \in SUBSET Groups : overruns[l] = {over} /\ Flags(over) = needs_reflow
    /\ emission[l][needs_reflow] = {out}

\* The lines returned are a true fixed point: laid out again they overrun
\* nowhere that is not flagged already, and are emitted as they are.
\* (rounds.rs:97: "an adjacent repeat is the fixed point".)
OkIsFixedPoint == outcome = "ok" => Repeats(measured, measured)

\* "wrapping entered a cycle" is reported only if it is true: the rounds would
\* go through the same layouts for ever, none of which is a fixed point.
CycleIsGenuine ==
    outcome = "cycle" =>
        \E k \in 1..Len(round_history) - 1 :
            \A i \in k..Len(round_history) :
                Repeats(round_history[i],
                        round_history[IF i = Len(round_history) THEN k ELSE i + 1])

\* The rounds end, whatever the layouts measure and the groups emit: flags only
\* grow, and between two of them no layout comes twice.
RoundsEnd == <>(outcome # "running")
=============================================================================
