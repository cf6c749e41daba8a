---------------------------- MODULE MCTransform ----------------------------
(***************************************************************************)
(* Line edits and the normalization pipeline, for TLC.  A rule's edits are *)
(* over before the pass that asked for them is: a behaviour here is one of *)
(* the edits of one line or one of a whole file.                           *)
(***************************************************************************)
EXTENDS Normalize, EditBuffer

VARIABLE machine  \* what this behaviour runs: fixed

\* Files of up to three lines.  The last lines cover what may become of a tail.
L(text, newline) == [text |-> text, newline |-> newline]

MCTexts == {"", " ", ";", "; ", "x", "x ", "x;", "x&", "a&", "&b", "return"}

One   == {<<L(t, n)>> : t \in MCTexts, n \in Newlines}
Two   == {<<L(t, n), L(u, m)>> : t, u \in MCTexts, n \in {"Lf", "CrLf"}, m \in Newlines}
Three == {<<L(t, n), L(u, m), L(v, o)>> :
            t \in {"x&", "a&", "return", ";", ""}, n, m \in {"Lf", "CrLf"},
            u \in {"x", "x;", "&b", "return", ";", " "},
            v \in {"", " ", ";", "; ", "x "}, o \in Newlines}

MCFiles == {file \in {<<>>} \cup One \cup Two \cup Three : IsFile(file)}

MCOptionSets == {{}, Options, Options \ {"normalize_semicolons", "continuation_markers"}}

MCLines   == {<<>>, <<"a">>, <<"a", "b", "c">>}
MCInserts == {<<>>, <<"b">>, <<"X">>}

allVars == <<machine, vars, editVars>>

MCInit ==
    /\ Init /\ EInit
    /\ \/ machine = "pipeline" /\ line = <<>>
       \/ /\ machine = "edits"
          /\ mode = "Full" /\ options = {} /\ source = <<>>

MCNext ==
    \/ machine = "pipeline" /\ Next /\ UNCHANGED <<machine, editVars>>
    \/ machine = "edits" /\ ENext /\ UNCHANGED <<machine, vars>>

MCSpec == MCInit /\ [][MCNext]_allVars
=============================================================================
