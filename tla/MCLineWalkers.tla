--------------------------- MODULE MCLineWalkers ---------------------------
(***************************************************************************)
(* The lines of a small document, for TLC: bodies that open, resume and    *)
(* close a literal, Hollerith constants, comments, with and without        *)
(* sentinels, and the lines a continued statement steps over.              *)
(***************************************************************************)
EXTENDS LineWalkers

\* Bodies that do not resume anything.
Openers == {
    <<"x">>, <<"x", "&">>, <<"x", "&", " ">>,
    <<"'", "x", "&">>,             \* opens a literal
    <<"'", "'", "'", " ", "&">>,   \* a doubled delimiter inside an open one
    <<"1H", " ">>, <<"1H", "&">>,  \* payloads: a blank, no continuation,
    <<"1H">>,                      \* and one cut off by the end of the line
    <<"x", "!", "'">>}             \* a quote in a comment

\* Bodies that open with the continuation marker.
Resumers == {
    <<"&", "x", "'", " ">>,        \* closes it
    <<"&", "'", "!", "x">>,        \* closes it before a comment
    <<"&", "!", " ", "&">>,        \* a bang, in the literal or not
    <<"&", "1H", " ">>, <<"&", "x", " ">>}

Bodies == Openers \cup Resumers \cup {<<>>, <<"x", "'", "!", "x">>}

Sentinel == <<"!", "$", " ">>
Compact  == <<"!", "$">>

Directives == {<<"#", "'">>, <<"#", "'", "&">>, <<"#", "\\">>, <<"??", "&">>}

Comments == {<<"!", "'">>, <<" ", "!", "findentfix:", "x">>}

MCLines == Bodies \cup {Sentinel \o b : b \in Bodies}
                  \cup {Compact \o b : b \in Resumers}
                  \cup Directives \cup Comments
=============================================================================
