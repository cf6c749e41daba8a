-------------------------- MODULE RewrapSettlement --------------------------
(***************************************************************************)
(* The wrapping path of full mode (format_wrapped in                       *)
(* src/src/format/full/reflow/mod.rs, settle_rewrap in rounds.rs).  A      *)
(* normalized document is reflowed and laid out.  Under --rewrap the       *)
(* output is prepared again, its own continuation seams joined, and the    *)
(* result reflowed and laid out, until preparing changes nothing or gives  *)
(* the input the output came from.                                         *)
(*                                                                         *)
(* Preparation and reflow_and_lay_out are arbitrary functions of the       *)
(* document that may fail: answers are chosen when asked for first.        *)
(***************************************************************************)
EXTENDS FixedPoint, Integers

CONSTANTS Documents,
          Rewraps,   \* whether --rewrap may be given
          None,      \* no document
          Failure    \* an error instead of one

ASSUME RewrapSettlementAssumption ==
    /\ None \notin Documents /\ Failure \notin Documents /\ None # Failure
    /\ Rewraps \subseteq BOOLEAN

VARIABLES
    rewrap,             \* the option
    prepared,           \* answers: prepare_rewrap_settlement
    reflowed,           \* answers: reflow_and_lay_out
    candidate,          \* the document to reflow next
    output,             \* the last one laid out
    settlement_inputs,  \* the documents that were reflowed
    pc                  \* "reflow", "settle", or the outcome

settlementVars == <<rewrap, prepared, reflowed, candidate, output, settlement_inputs, pc>>

SettlementInit ==
    /\ rewrap \in Rewraps
    /\ prepared = [d \in Documents |-> None]
    /\ reflowed = [d \in Documents |-> None]
    /\ candidate \in Documents
    /\ output = None
    /\ settlement_inputs = IF rewrap THEN <<candidate>> ELSE <<>>
    /\ pc = "reflow"

AnswerOf(known) == IF known = None THEN Documents \cup {Failure} ELSE {known}

ReflowAndLayOut ==
    /\ pc = "reflow"
    /\ \E out \in AnswerOf(reflowed[candidate]) :
          /\ reflowed' = [reflowed EXCEPT ![candidate] = out]
          /\ output' = out
          /\ pc' = IF out = Failure THEN "failed"
                   ELSE IF rewrap THEN "settle" ELSE "ok"
    /\ UNCHANGED <<rewrap, prepared, candidate, settlement_inputs>>

\* Mutant: the output is compared with the last input.
Settles_OfOutput(p) ==
    IF p = output THEN "Stable" ELSE Progress(settlement_inputs, output)

\* What preparing the output to `p` means.
Settles(p) ==
    IF p = output THEN "Stable" ELSE Progress(settlement_inputs, p)

Outcome == [Stable |-> "ok", Cycle |-> "cycle", New |-> "reflow"]

Settle ==
    /\ pc = "settle"
    /\ \E p \in AnswerOf(prepared[output]) :
          /\ prepared' = [prepared EXCEPT ![output] = p]
          /\ IF p = Failure
             THEN pc' = "failed" /\ UNCHANGED <<settlement_inputs, candidate>>
             ELSE /\ pc' = Outcome[Settles(p)]
                  /\ settlement_inputs' = IF Settles(p) = "New"
                                          THEN Remember(settlement_inputs, p)
                                          ELSE settlement_inputs
                  /\ candidate' = IF Settles(p) = "New" THEN p ELSE candidate
    /\ UNCHANGED <<rewrap, reflowed, output>>

SettlementNext == ReflowAndLayOut \/ Settle

SettlementSpec ==
    SettlementInit /\ [][SettlementNext]_settlementVars /\ WF_settlementVars(SettlementNext)

-----------------------------------------------------------------------------
(* Properties. *)

\* What --rewrap returns is settled: preparing it changes nothing, or gives a
\* document that is reflowed and laid out to the very same output.
OutputSettled ==
    pc = "ok" /\ rewrap =>
        LET p == prepared[output] IN p = output \/ reflowed[p] = output

\* The input and output of one pass of the settlement, and the next input.
Pass(input, next) ==
    /\ reflowed[input] \in Documents
    /\ prepared[reflowed[input]] = next
    /\ next # reflowed[input]

\* "rewrap settlement entered a cycle" is true: the passes would go round for
\* ever and none of their outputs is settled.
SettlementCycleIsGenuine ==
    pc = "cycle" =>
        \E k \in 1..Len(settlement_inputs) - 1 :
            \A i \in k..Len(settlement_inputs) :
                Pass(settlement_inputs[i],
                     settlement_inputs[IF i = Len(settlement_inputs) THEN k ELSE i + 1])

\* The verdict of settle_rewrap is right: the output --rewrap returns is settled,
\* and "rewrap settlement entered a cycle" is reported only if it did.
SettlementIsRight == OutputSettled /\ SettlementCycleIsGenuine

\* The settlement ends, whatever the passes do.
SettlementEnds == <>(pc \in {"ok", "failed", "cycle"})
=============================================================================
