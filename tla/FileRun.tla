------------------------------ MODULE FileRun ------------------------------
(***************************************************************************)
(* Invocations that format named files (src/src/io/mod.rs, the route       *)
(* through format_files; src/src/io/write.rs, atomic_replace) next to an   *)
(* owner who edits the files.  A run reads every target, formats all of    *)
(* them, then delivers the results in target order: nothing (--check), a   *)
(* diff, or an in-place replacement, in the steps atomic_replace takes.    *)
(*                                                                         *)
(* A system call is a step and may fail.  A run may be killed between any  *)
(* two, its standard output may be closed, and power may go: then every    *)
(* run is gone and what was not synced may be damaged.                     *)
(*                                                                         *)
(* Directory entries name inodes: a run writes to the inode it opened,     *)
(* whatever happens to the name of its temporary meanwhile.                *)
(***************************************************************************)
EXTENDS Integers, Sequences, SequencesExt, Functions

CONSTANTS Runs, Files, Paths, None,
          Resolve,       \* canonicalize: the file a path names (symlinks)
          Fixed,         \* files detected as fixed-form source
          MaxEdits,      \* bound: saves and removals by the owner
          Settings       \* what a behaviour may be about: see FileRunAssumption

FaultKinds == {"Io", "Unlink", "Kill", "Power", "Pipe", "Delete"}

ASSUME FileRunAssumption ==
    /\ Resolve \in [Paths -> Files]
    /\ Fixed \subseteq Files
    /\ MaxEdits \in Nat
    /\ None \notin Files \cup (Runs \X Paths) /\ Files \cap (Runs \X Paths) = {}
    /\ None \notin [of : Files, version : 0..MaxEdits, formatted : BOOLEAN, whole : BOOLEAN]
    /\ \A s \in Settings :
        /\ s.targets \in [Runs -> Seq(Paths)]           \* of each run, in order
        /\ \A p \in Runs : IsInjective(s.targets[p])    \* deduplicate_paths
        /\ s.explicit \subseteq Runs                    \* their targets are named one by one
        /\ s.delivery \in [Runs -> {"InPlace", "Check", "Diff"}]
        /\ DOMAIN s.pid = Runs                          \* process numbers
        /\ \A p \in Runs : \A f \in Files, n \in 0..Len(s.targets[p]) - 1 :
              <<f, s.pid[p], n>> \notin Files            \* no temporary is a target
        /\ s.refused \subseteq 0..MaxEdits              \* versions the formatter fails on
        /\ s.faults \subseteq FaultKinds                \* the faults that may happen

VARIABLE setting  \* the runs of this behaviour, and what may go wrong

Targets  == setting.targets
Explicit == setting.explicit
Delivery == setting.delivery
Pid      == setting.pid
Refused  == setting.refused
Faults   == setting.faults

Versions == 0..MaxEdits
\* A text: the file and the version it comes from, and what became of it.
Text == [of : Files, version : Versions, formatted : BOOLEAN, whole : BOOLEAN]
Saved(f, v) == [of |-> f, version |-> v, formatted |-> FALSE, whole |-> TRUE]
Partial(text) == [text EXCEPT !.whole = FALSE]

\* A temporary is named after its file, the process and TEMP_COUNTER.
Temps == UNION {{<<f, Pid[p], n>> : f \in Files, n \in 0..Len(Targets[p]) - 1} : p \in Runs}
Names == Files \cup Temps
\* The first inode of each file, and one for each temporary a run opens.
Inodes == Files \cup (Runs \X Paths)
Inode == [text : Text, synced : BOOLEAN, mode : {"original", "default"}]

VARIABLES
    inode,      \* the contents of each inode
    entry,      \* the directory: the inode each name refers to
    edits,      \* saves and removals so far: the latest version
    pc,         \* where each run is
    position,   \* the target it is at
    sources,    \* Loaded: what it read of each path
    formatted,  \* the results of format_targets not delivered yet
    number,     \* its TEMP_COUNTER
    changed,    \* the paths it found to differ
    replaced,   \* history: the paths it renamed a temporary over
    printed,    \* what it listed on standard output
    stray,      \* history: temporaries that could not be removed
    open,       \* its standard output has a reader
    status      \* how it ended

vars == <<setting, inode, entry, edits, pc, position, sources, formatted, number,
          changed, replaced, printed, stray, open, status>>
disk == <<inode, entry, edits>>
results == <<sources, formatted, changed>>

Idle == {"idle", "done", "killed"}
Steps == {"read", "format", "deliver", "resolve", "create", "chmod", "write",
          "sync", "rename", "cleanup", "list"}
Statuses == {"none", "ok", "differs", "usage", "io", "format", "pipe", "panic"}

Init ==
    /\ setting \in Settings
    /\ inode = [i \in Inodes |->
                  IF i \in Files
                  THEN [text |-> Saved(i, 0), synced |-> TRUE, mode |-> "original"]
                  ELSE [text |-> Partial(Saved(Resolve[i[2]], 0)),
                        synced |-> FALSE, mode |-> "default"]]
    /\ entry = [n \in Names |-> IF n \in Files THEN n ELSE None]
    /\ edits = 0
    /\ pc = [p \in Runs |-> "idle"]
    /\ position = [p \in Runs |-> 1]
    /\ sources = [p \in Runs |-> [q \in Paths |-> None]]
    /\ formatted = [p \in Runs |-> <<>>]
    /\ number = [p \in Runs |-> 0]
    /\ changed = [p \in Runs |-> <<>>]
    /\ replaced = [p \in Runs |-> {}]
    /\ printed = [p \in Runs |-> <<>>]
    /\ stray = {}
    /\ open = [p \in Runs |-> TRUE]
    /\ status = [p \in Runs |-> "none"]

-----------------------------------------------------------------------------
(* The files' owner, and the machine. *)

Save(f) ==
    /\ edits < MaxEdits /\ entry[f] # None
    /\ edits' = edits + 1
    /\ inode' = [inode EXCEPT ![entry[f]].text = Saved(f, edits'),
                              ![entry[f]].synced = TRUE]
    /\ UNCHANGED <<entry, pc, position, results, number, replaced, printed, stray, open, status>>

Delete(f) ==
    /\ "Delete" \in Faults
    /\ edits < MaxEdits /\ entry[f] # None
    /\ edits' = edits + 1
    /\ entry' = [entry EXCEPT ![f] = None]
    /\ UNCHANGED <<inode, pc, position, results, number, replaced, printed, stray, open, status>>

ClosePipe(p) ==
    /\ "Pipe" \in Faults /\ open[p] /\ pc[p] \notin Idle
    /\ open' = [open EXCEPT ![p] = FALSE]
    /\ UNCHANGED <<disk, pc, position, results, number, replaced, printed, stray, status>>

Kill(p) ==
    /\ "Kill" \in Faults /\ pc[p] \notin Idle
    /\ pc' = [pc EXCEPT ![p] = "killed"]
    /\ UNCHANGED <<disk, position, results, number, replaced, printed, stray, open, status>>

PowerLoss ==
    /\ "Power" \in Faults
    /\ \E p \in Runs : pc[p] \notin Idle
    /\ pc' = [p \in Runs |-> IF pc[p] \in Idle THEN pc[p] ELSE "killed"]
    /\ \E lost \in SUBSET {i \in Range(entry) \ {None} : ~inode[i].synced} :
          inode' = [i \in Inodes |-> IF i \in lost
                                     THEN [inode[i] EXCEPT !.text.whole = FALSE]
                                     ELSE inode[i]]
    /\ UNCHANGED <<entry, edits, position, results, number, replaced, printed, stray, open, status>>

-----------------------------------------------------------------------------
(* One run. *)

At(p, step) == pc[p] = step
Goto(p, step) == pc' = [pc EXCEPT ![p] = step]
Exit(p, how) == Goto(p, "done") /\ status' = [status EXCEPT ![p] = how]
Path(p) == Targets[p][position[p]]
More(p) == position[p] <= Len(Targets[p])
Advance(p) == position' = [position EXCEPT ![p] = @ + 1]

\* Mutant: the process number is not part of the name.
Temp_NoPid(p) == <<Resolve[Path(p)], 1, number[p] - 1>>

Temp(p) == <<Resolve[Path(p)], Pid[p], number[p] - 1>>

\* Mutant: the target itself is opened and written.
Own_Target(p) == entry[Resolve[Path(p)]]

\* The inode of the temporary p opened.
Own(p) == <<p, Path(p)>>

\* Two live processes have different numbers.
Start(p) ==
    /\ At(p, "idle") /\ Targets[p] # <<>>
    /\ \A q \in Runs : pc[q] \notin Idle => Pid[q] # Pid[p]
    /\ Goto(p, "read")
    /\ UNCHANGED <<disk, position, results, number, replaced, printed, stray, open, status>>

\* Loaded::read, one path at a time.  A path that is gone is an error only
\* when it was named on the command line.
Read(p) ==
    /\ At(p, "read")
    /\ UNCHANGED <<disk, formatted, changed, number, replaced, printed, stray, open>>
    /\ \/ /\ ~More(p)
          /\ Goto(p, "format")
          /\ position' = [position EXCEPT ![p] = 1]
          /\ UNCHANGED <<sources, status>>
       \/ /\ More(p) /\ entry[Resolve[Path(p)]] # None
          /\ sources' = [sources EXCEPT ![p][Path(p)] = inode[entry[Resolve[Path(p)]]].text]
          /\ Advance(p)
          /\ UNCHANGED <<pc, status>>
       \/ /\ More(p) /\ entry[Resolve[Path(p)]] = None /\ p \notin Explicit
          /\ Advance(p)
          /\ UNCHANGED <<pc, sources, status>>
       \/ /\ More(p) /\ entry[Resolve[Path(p)]] = None /\ p \in Explicit
          /\ Exit(p, "usage")
          /\ UNCHANGED <<position, sources>>
       \/ /\ More(p) /\ "Io" \in Faults
          /\ Exit(p, "io")
          /\ UNCHANGED <<position, sources>>

\* A target with a result: loaded, and free-form.
FreeForm(p, q) == sources[p][q] # None /\ Resolve[q] \notin Fixed

\* format_targets: one result per free-form target in target order, None for
\* a text that stays as it is; or a failure, if any target fails.
Output(text) == [text EXCEPT !.formatted = TRUE]
ResultOf(text) == IF Output(text) = text THEN None ELSE Output(text)
Fails(p, q) == sources[p][q].version \in Refused

AddResult(p) ==
    /\ formatted' = [formatted EXCEPT ![p] = Append(@, ResultOf(sources[p][Path(p)]))]
    /\ Advance(p)

Format(p) ==
    /\ At(p, "format")
    /\ UNCHANGED <<disk, sources, changed, number, replaced, printed, stray, open>>
    /\ \/ /\ ~More(p)
          /\ Goto(p, "deliver")
          /\ position' = [position EXCEPT ![p] = 1]
          /\ UNCHANGED <<formatted, status>>
       \/ /\ More(p) /\ ~FreeForm(p, Path(p))
          /\ Advance(p)
          /\ UNCHANGED <<pc, formatted, status>>
       \/ /\ More(p) /\ FreeForm(p, Path(p)) /\ ~Fails(p, Path(p))
          /\ AddResult(p)
          /\ UNCHANGED <<pc, status>>
       \/ /\ More(p) /\ FreeForm(p, Path(p)) /\ Fails(p, Path(p))
          /\ Exit(p, "format")
          /\ UNCHANGED <<position, formatted>>

\* The target at hand takes the next result.
TakesResult(p) == FreeForm(p, Path(p))
Result(p) == Head(formatted[p])

NextTarget(p) ==
    /\ Advance(p)
    /\ formatted' = IF TakesResult(p) THEN [formatted EXCEPT ![p] = Tail(@)]
                    ELSE formatted

Deliver(p) ==
    /\ At(p, "deliver")
    /\ UNCHANGED <<disk, sources, number, replaced, printed, stray, open>>
    /\ \/ /\ ~More(p)
          /\ Goto(p, "list")
          /\ UNCHANGED <<position, formatted, changed, status>>
       \/ /\ More(p) /\ (FreeForm(p, Path(p)) => Result(p) = None)
          /\ NextTarget(p)
          /\ UNCHANGED <<pc, changed, status>>
       \/ /\ More(p) /\ FreeForm(p, Path(p)) /\ Result(p) # None
          /\ changed' = [changed EXCEPT ![p] = Append(@, Path(p))]
          /\ CASE Delivery[p] = "InPlace" ->
                    Goto(p, "resolve") /\ UNCHANGED <<position, formatted, status>>
               [] Delivery[p] = "Diff" /\ ~open[p] ->
                    Exit(p, "pipe") /\ UNCHANGED <<position, formatted>>
               [] OTHER ->
                    NextTarget(p) /\ UNCHANGED <<pc, status>>

\* atomic_replace.  What fails before the temporary is opened just returns.
ResolveTarget(p) ==
    /\ At(p, "resolve")
    /\ \/ /\ entry[Resolve[Path(p)]] # None
          /\ number' = [number EXCEPT ![p] = @ + 1]
          /\ Goto(p, "create")
          /\ UNCHANGED status
       \/ /\ entry[Resolve[Path(p)]] = None
          /\ Exit(p, "io")
          /\ UNCHANGED number
       \/ /\ "Io" \in Faults
          /\ Exit(p, "io")
          /\ UNCHANGED number
    /\ UNCHANGED <<disk, position, results, replaced, printed, stray, open>>

\* A system call on the temporary: it succeeds and `next` follows, or it
\* fails and the cleanup follows.
Call(p, step, next) ==
    /\ At(p, step) /\ Goto(p, next)
    /\ UNCHANGED <<edits, position, results, number, replaced, printed, stray, open, status>>

CallFails(p, step) ==
    /\ "Io" \in Faults
    /\ Call(p, step, "cleanup")
    /\ UNCHANGED <<inode, entry>>

\* create_new: the name must be free.
CreateTemp(p) ==
    /\ At(p, "create")
    /\ \/ /\ entry[Temp(p)] = None
          /\ Call(p, "create", "chmod")
          /\ entry' = [entry EXCEPT ![Temp(p)] = Own(p)]
          /\ inode' = [inode EXCEPT ![Own(p)] = [text |-> Partial(Result(p)),
                                                 synced |-> FALSE, mode |-> "default"]]
       \/ /\ entry[Temp(p)] # None
          /\ Call(p, "create", "cleanup")
          /\ UNCHANGED <<inode, entry>>
       \/ CallFails(p, "create")

\* The mode bits read when the target was resolved.
SetMode(p) ==
    \/ /\ Call(p, "chmod", "write")
       /\ inode' = [inode EXCEPT ![Own(p)].mode = "original"]
       /\ UNCHANGED entry
    \/ CallFails(p, "chmod")

WriteTemp(p) ==
    \/ /\ Call(p, "write", "sync")
       /\ inode' = [inode EXCEPT ![Own(p)].text = Result(p)]
       /\ UNCHANGED entry
    \/ CallFails(p, "write")

\* Mutant: no sync.
SyncTemp_None(p) == Call(p, "sync", "rename") /\ UNCHANGED <<inode, entry>>

SyncTemp(p) ==
    \/ /\ Call(p, "sync", "rename")
       /\ inode' = [inode EXCEPT ![Own(p)].synced = TRUE]
       /\ UNCHANGED entry
    \/ CallFails(p, "sync")

\* rename takes whatever the name refers to by now.
Rename(p) ==
    /\ At(p, "rename")
    /\ \/ /\ entry[Temp(p)] # None
          /\ entry' = [entry EXCEPT ![Resolve[Path(p)]] = entry[Temp(p)],
                                    ![Temp(p)] = None]
          /\ replaced' = [replaced EXCEPT ![p] = @ \cup {Path(p)}]
          /\ NextTarget(p) /\ Goto(p, "deliver")
          /\ UNCHANGED <<inode, edits, sources, changed, number, printed, stray, open, status>>
       \/ /\ entry[Temp(p)] = None
          /\ Call(p, "rename", "cleanup")
          /\ UNCHANGED <<inode, entry>>
       \/ CallFails(p, "rename")

\* Mutants: the temporary stays; the run goes on to the next target.
Cleanup_KeepsTemp(p) ==
    /\ At(p, "cleanup") /\ Exit(p, "io")
    /\ UNCHANGED <<disk, position, results, number, replaced, printed, stray, open>>
Cleanup_GoesOn(p) ==
    /\ At(p, "cleanup") /\ Goto(p, "deliver") /\ NextTarget(p)
    /\ entry' = [entry EXCEPT ![Temp(p)] = None]
    /\ UNCHANGED <<inode, edits, sources, changed, number, replaced, printed, stray, open, status>>

\* The name is removed whether or not this run created it; whether that
\* succeeds is not looked at.
Cleanup(p) ==
    /\ At(p, "cleanup")
    /\ \/ entry' = [entry EXCEPT ![Temp(p)] = None] /\ stray' = stray \ {Temp(p)}
       \/ /\ "Unlink" \in Faults /\ entry[Temp(p)] # None
          /\ stray' = stray \cup {Temp(p)}
          /\ UNCHANGED entry
    /\ Exit(p, "io")
    /\ UNCHANGED <<inode, edits, position, results, number, replaced, printed, open>>

\* println! of the changed paths panics on a closed pipe.
List(p) ==
    /\ At(p, "list")
    /\ IF Delivery[p] = "Diff" \/ changed[p] = <<>>
       THEN /\ Exit(p, IF changed[p] = <<>> THEN "ok" ELSE "differs")
            /\ UNCHANGED printed
       ELSE IF open[p]
       THEN /\ printed' = [printed EXCEPT ![p] = changed[p]]
            /\ Exit(p, IF Delivery[p] = "InPlace" THEN "ok" ELSE "differs")
       ELSE Exit(p, "panic") /\ UNCHANGED printed
    /\ UNCHANGED <<disk, position, results, number, replaced, stray, open>>

\* Mutant: a failure is reported when the target's turn to be delivered comes.
Step_FailsLate(p) ==
    \/ /\ At(p, "format") /\ More(p) /\ FreeForm(p, Path(p))
       /\ AddResult(p)
       /\ UNCHANGED <<disk, pc, sources, changed, number, replaced, printed, stray, open, status>>
    \/ (More(p) => ~FreeForm(p, Path(p))) /\ Format(p)
    \/ /\ At(p, "deliver") /\ More(p) /\ FreeForm(p, Path(p)) /\ Fails(p, Path(p))
       /\ Exit(p, "format")
       /\ UNCHANGED <<disk, position, results, number, replaced, printed, stray, open>>
    \/ (More(p) /\ FreeForm(p, Path(p)) => ~Fails(p, Path(p))) /\ Deliver(p)
    \/ Read(p) \/ ResolveTarget(p) \/ CreateTemp(p) \/ SetMode(p) \/ WriteTemp(p)
    \/ SyncTemp(p) \/ Rename(p) \/ Cleanup(p) \/ List(p)

Step(p) ==
    \/ Read(p) \/ Format(p) \/ Deliver(p) \/ ResolveTarget(p) \/ CreateTemp(p)
    \/ SetMode(p) \/ WriteTemp(p) \/ SyncTemp(p) \/ Rename(p) \/ Cleanup(p)
    \/ List(p)

Next ==
    /\ UNCHANGED setting
    /\ \/ \E p \in Runs : Start(p) \/ Step(p) \/ Kill(p) \/ ClosePipe(p)
       \/ \E f \in Files : Save(f) \/ Delete(f)
       \/ PowerLoss

Spec == Init /\ [][Next]_vars

-----------------------------------------------------------------------------
(* Properties. *)

Present(f) == entry[f] # None
Held(f) == inode[entry[f]]

\* At every instant, through any fault, a file of the project holds one whole
\* text under the mode bits it always had: write.rs:19, "Replace a file
\* atomically", and the reason for its sync.
TargetsWhole == \A f \in Files : Present(f) =>
    Held(f).text.whole /\ Held(f).mode = "original"

\* A run that ended by itself leaves no temporary behind, its own or one a
\* namesake left: only a run killed on the way does, or a failed unlink.
NoStrayTemps ==
    (\A p \in Runs : pc[p] \in {"idle", "done"}) =>
        \A t \in Temps : entry[t] # None => t \in stray

\* docs/file-workflow.md: "a formatting failure leaves the tree untouched":
\* no target was replaced, the ones before the failing one included.  What is
\* listed is what was replaced (in place), or what would be (--check); and the
\* exit status agrees: a run that ends ok has listed all it replaced, --check
\* and --diff end ok only if no target differs.
Differs(p, q) == FreeForm(p, q) /\ ResultOf(sources[p][q]) # None
\* The targets in Q, in target order.
Lists(s, p, Q) ==
    /\ ToSet(s) = Q
    /\ \A i, j \in DOMAIN s : i < j =>
          \E k, l \in DOMAIN Targets[p] : k < l /\ Targets[p][k] = s[i] /\ Targets[p][l] = s[j]
Truthful(p) ==
    /\ status[p] = "format" => replaced[p] = {}
    /\ printed[p] # <<>> => Lists(printed[p], p, {q \in ToSet(Targets[p]) : Differs(p, q)})
    /\ status[p] = "ok" =>
          IF Delivery[p] = "InPlace"
          THEN replaced[p] = ToSet(printed[p])
          ELSE \A q \in ToSet(Targets[p]) : ~Differs(p, q)
ReportsAreTruthful == \A p \in Runs : Truthful(p)

\* While nobody edits, a run that ends ok leaves each of its free-form
\* targets formatted, whatever other runs did to them in between.
SuccessMeansFormatted ==
    edits = 0 =>
        \A p \in Runs : status[p] = "ok" /\ Delivery[p] = "InPlace" =>
            \A q \in ToSet(Targets[p]) : Resolve[q] \notin Fixed =>
                Held(Resolve[q]).text = Output(Saved(Resolve[q], 0))

\* Two runs over the same files do not make each other fail: unless somebody
\* edits, a call fails or a killed run left its temporary, none ends in an
\* I/O error.
RunsDoNotDisturb ==
    edits = 0 /\ "Io" \notin Faults /\ (\A p \in Runs : pc[p] # "killed") =>
        \A p \in Runs : status[p] # "io"

\* main.rs turns a broken pipe into status 0, and a test of io/mod.rs says
\* "a closed pipe still has to exit 0 rather than report a formatting error".
ClosedPipeExitsZero == \A p \in Runs : status[p] # "panic"

\* The files follow FileStore: seen from outside, atomic_replace is one step.
Seen(text) == [of |-> text.of, version |-> text.version, formatted |-> text.formatted]
Shown == [f \in Files |-> IF ~Present(f) THEN None
                          ELSE IF Held(f).text.whole THEN Seen(Held(f).text)
                          ELSE Held(f).text]
Store == INSTANCE FileStore WITH text <- Shown, latest <- edits
ImplementsFileStore == Store!Spec
=============================================================================
