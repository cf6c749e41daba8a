--------------------------- MODULE MCConvergence ---------------------------
(***************************************************************************)
(* Both fixed-point loops of full mode, for TLC.  They run one inside the  *)
(* other, but each takes what the other does as an arbitrary function, so  *)
(* a behaviour here is one of the first or one of the second.              *)
(***************************************************************************)
EXTENDS ReflowRounds, RewrapSettlement

VARIABLE loop  \* the loop this behaviour runs: fixed

allVars == <<loop, vars, settlementVars>>

Untouched == measured = CHOOSE l \in Layouts : TRUE
SettlementUntouched == ~rewrap /\ candidate = CHOOSE d \in Documents : TRUE

MCInit ==
    /\ Init /\ SettlementInit
    /\ \/ loop = "rounds" /\ SettlementUntouched
       \/ loop = "settlement" /\ Untouched

MCNext ==
    \/ loop = "rounds" /\ Next /\ UNCHANGED <<loop, settlementVars>>
    \/ loop = "settlement" /\ SettlementNext /\ UNCHANGED <<loop, vars>>

MCSpec == MCInit /\ [][MCNext]_allVars /\ WF_allVars(MCNext)

\* Neither loop has a limit in the code, and both end.
LoopsEnd == /\ loop = "rounds" => RoundsEnd
            /\ loop = "settlement" => SettlementEnds
=============================================================================
