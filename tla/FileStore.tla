----------------------------- MODULE FileStore -----------------------------
(***************************************************************************)
(* What in-place formatting promises about the files of a project: a file  *)
(* holds one whole text at every instant.  It changes when its owner saves *)
(* or removes it, or when it is replaced, in one step, by the formatted    *)
(* form of a text it held at some time.  (Not the latest: a run formats    *)
(* what it read, and an edit made meanwhile is lost.)                      *)
(***************************************************************************)
EXTENDS Integers

CONSTANTS Files,    \* the files of the project
          MaxEdits, \* bound: edits by the owner
          None      \* an absent file

Versions == 0..MaxEdits
Text == [of : Files, version : Versions, formatted : BOOLEAN]

VARIABLES text,    \* what each file holds
          latest   \* the number of edits so far

Init == /\ text = [f \in Files |-> [of |-> f, version |-> 0, formatted |-> FALSE]]
        /\ latest = 0

Save(f) ==
    /\ latest < MaxEdits
    /\ latest' = latest + 1
    /\ text' = [text EXCEPT ![f] = [of |-> f, version |-> latest', formatted |-> FALSE]]

Delete(f) ==
    /\ latest < MaxEdits
    /\ latest' = latest + 1
    /\ text' = [text EXCEPT ![f] = None]

Replace(f) ==
    /\ \E v \in 0..latest :
          text' = [text EXCEPT ![f] = [of |-> f, version |-> v, formatted |-> TRUE]]
    /\ UNCHANGED latest

Next == \E f \in Files : Save(f) \/ Delete(f) \/ Replace(f)

Spec == Init /\ [][Next]_<<text, latest>>
=============================================================================
