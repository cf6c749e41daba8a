----------------------------- MODULE MCFileRun -----------------------------
(***************************************************************************)
(* Small projects for FileRun: two files a and b, a symbolic link to a,    *)
(* a fixed-form file c; up to three runs over them.                        *)
(***************************************************************************)
EXTENDS FileRun, TLC

CONSTANTS a, b, c, link, r1, r2, r3

ResolveLink == (a :> a) @@ (b :> b) @@ (c :> c) @@ (link :> a)

ByRun(first, second, third) == (r1 :> first) @@ (r2 :> second) @@ (r3 :> third)

\* Two in-place runs that share a file, each under a number of its own.
Concurrent ==
    [targets |-> ByRun(<<c, a, b>>, <<link, c>>, <<>>), explicit |-> {},
     delivery |-> ByRun("InPlace", "InPlace", "InPlace"), pid |-> ByRun(1, 2, 3),
     refused |-> {}, faults |-> {"Delete", "Pipe"}]

\* One run after another under the same number (a reused process number), and every
\* fault of the machine.
Faulty ==
    [Concurrent EXCEPT !.explicit = {r1}, !.pid = ByRun(1, 1, 1),
                       !.faults = {"Io", "Unlink", "Kill", "Power", "Delete"}]

\* One in-place run next to a --check and a --diff of the same targets, and an edit
\* that the formatter refuses.
Reporting ==
    [targets |-> ByRun(<<a, c, b>>, <<b, a>>, <<c, b, link>>), explicit |-> {r1, r2},
     delivery |-> ByRun("InPlace", "Check", "Diff"), pid |-> ByRun(1, 2, 3),
     refused |-> {1}, faults |-> {"Pipe"}]

\* One run over one file.
Alone ==
    [Concurrent EXCEPT !.targets = ByRun(<<a>>, <<>>, <<>>), !.explicit = {r1},
                       !.faults = {"Pipe"}]

MCSettings == {Concurrent, Faulty, Reporting}
OneSetting == {Alone}
=============================================================================
