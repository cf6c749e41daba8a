----------------------------- MODULE FormatAll -----------------------------
(***************************************************************************)
(* What format_targets (src/src/io/context.rs) promises its caller: one    *)
(* answer for the whole batch, the one a loop over the targets in order    *)
(* would give.  All results in target order if every target formats; the   *)
(* failure of the first target that does not, otherwise; a panic exactly   *)
(* when formatting some target panics or a thread cannot be started.       *)
(***************************************************************************)
EXTENDS Integers

CONSTANTS N,           \* the number of targets
          SpawnFails,  \* whether starting a thread may fail
          None         \* no answer yet

Indices == 1..N
Outcomes == {"formatted", "failed", "panics"}

Ok == [class |-> "ok", index |-> 0]
Failure(i) == [class |-> "failed", index |-> i]
Panic == [class |-> "panic", index |-> 0]

VARIABLES outcome,  \* what formatting each target does
          answer

Having(what) == {i \in Indices : outcome[i] = what}
FirstFailure(i) == i \in Having("failed") /\ \A j \in Having("failed") : i <= j

Init == outcome \in [Indices -> Outcomes] /\ answer = None

Answer ==
    /\ answer = None
    /\ \/ Having("panics") = {} /\ Having("failed") = {} /\ answer' = Ok
       \/ /\ Having("panics") = {}
          /\ \E i \in Indices : FirstFailure(i) /\ answer' = Failure(i)
       \/ (Having("panics") # {} \/ SpawnFails) /\ answer' = Panic
    /\ UNCHANGED outcome

Safety == Init /\ [][Answer]_<<outcome, answer>>
Spec == Safety /\ WF_<<outcome, answer>>(Answer)
=============================================================================
