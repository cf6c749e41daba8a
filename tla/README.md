# Verification of forformat

`forformat` formats free-form Fortran. It reads a file or a whole checkout,
rewrites the text of its statements (full mode), lays its lines out by their
structure, wraps what is too long, and delivers the result to standard output,
as a diff, as a check, or in place. This directory holds

- TLA+ models of the parts of the program whose correctness depends on order,
  on state carried from line to line, or on what other threads, processes and
  faults do meanwhile;
- TLC configurations that check them on small instances;
- theorems about them that TLAPS checks for every instance.

Everything is written from the sources under `src/src`; paths below are relative
to that directory unless they begin with `docs/`. `PROJECT.json` names, for each
definition, the lines it stands for, and for each property a plausible bug in
one of these definitions that the property catches.

Check one model with `tlc -config <Run>.cfg <Module>.tla`, one set of proofs with
`tlapm <Module>Proofs.tla`.

## 1. The system

A run of the program goes through the components in this order:

    command line -> selection -> [project analysis] -> worker pool
        -> per file: detection -> normalization -> wrapping <-> layout -> output
    -> reports, in-place delivery

| component | state it keeps | operations | what is hard | what makes it correct | here |
|---|---|---|---|---|---|
| command line, configuration (`cli`, `config`) | a draft: input selection, actions, settings; the layer of a configuration file | read words, select, validate, merge | options in any order; two layers of settings, some of which write many fields | the order of options does not matter; the specific and the later setting wins; contradictions are refused | `Arguments`, `Settings` |
| selection, reports (`io/select`, `sources`, `exclude`, `report`, `diff`) | target list, exclusion patterns, texts read | walk, deduplicate, read once, report | files that come and go meanwhile; seven routes with guards of their own | fixed form passes through untouched, the context is bounded as asked, only a named file may be missed | `Selection`, `Exclude` |
| project analysis (`analysis`) | facts of each file, merged tables, expansions of INCLUDE, a fingerprint of each text | extract, expand, absorb, look a name up | cycles of INCLUDE and USE, copies that contradict each other, files edited meanwhile | a spelling is what every route to it agrees on, in whatever order files came | `CaseNames`, `ProjectFacts`, `Declarations`, `Project`, `Visibility`, `TypeResolution` |
| worker pool (`io/context.rs`) | a shared counter, a channel, result slots | claim, format, send, receive, collect | threads, panics, a channel that closes when its last sender goes | the answer of a sequential loop, always given | `FormatTargets`, `FormatAll` |
| fixed-form detection (`source/format_detect.rs`) | open conditionals, two tracks of evidence | read a line, a directive, decide | conditions that nobody evaluates | a file that is one form in every configuration is not taken for the other | `FormatDetect` |
| source buffer, regions, logical statements (`source`) | per stream (ordinary, `!$ `): open literal, Hollerith debt, continuation | classify a line, mark literals and comments, join lines to statements | two interleaved streams; several readers of the same rules | all readers agree on what is code | `LineLexer`, `SourceLines`, `LineWalkers` |
| statement classification (`classify`) | none | recognise by prefix | Fortran has no reserved words | - | input of `Planner` |
| normalization pipeline, views (`transform/pipeline.rs`, `format/full`) | the document, a cached analysis of it | fifteen passes in order | a view that outlives the text it describes | no pass acts on a stale view; one run settles | `Normalize` |
| documents, edit lists (`transform/document.rs`, `edit.rs`) | lines, terminators; requests on one line | read, render, reshape; replace, finish | mixed terminators, empty tails; overlapping requests | bytes no rule named survive | `Document`, `EditBuffer` |
| rewriting passes (`transform/passes`) | state carried over lines and scopes | rewrite lines, join, remove | continuation, literals, sentinels, scopes | literals untouched, idempotent | in part: `LineWalkers`, `Normalize`, `TypeResolution` |
| planner, indent stack (`format/planner.rs`, `stack.rs`, `preprocessor.rs`) | frames, two column vectors, labelled loops, snapshots per `#if`, the base column | plan one group | ENDs that do not match, loops closed by label in the middle of the stack, `#else` going back in time | an END lands in its opener's column; a document ends where it began | `IndentStack`, `Planner` |
| emitter, continuation layout (`format/emitter.rs`, `continuation.rs`, `engine.rs`) | open parentheses, passthrough regions | emit a group at its columns | alignment across continued lines, labels, sentinels | written twice, it is the same | `Emission` |
| alignment, spacing, layout rounds (`layout_post`, `format/full/layout.rs`) | the lines, a flag that widths changed, a count of rounds | align `::` and comments, space units, cap blanks, lay out again | each pass moves what another has measured; loops inside rounds | two rounds reach what the next run would write; padding never breaks the budget | `PostLayout` |
| statement wrapping (`format/wrapping.rs`) | none across groups | find break points, split | literals, labels, comments, columns that the emitter writes later | same tokens, lines fit or it declines | `Reflow` |
| wrapping rounds, rewrap settlement (`format/full/reflow`) | flags, histories of layouts and of inputs | lay out, flag, emit; prepare, reflow | two nested loops without a limit | they end, in a fixed point or with a true report of a cycle | `ReflowRounds`, `RewrapSettlement` |
| file runs, in-place delivery (`io/mod.rs`, `io/write.rs`) | texts read, results, a temporary file | read all, format all, deliver | other runs, the owner, kills, power loss, closed pipes | a file always holds one whole text; a failure writes nothing | `FileRun`, `FileStore` |
| vocabularies (`transform/vocab*.rs`) | none | look up | - | - | constants |
| wrapper, tools, fuzzing, benches | - | - | - | - | outside the program |

How they interact: the pool calls the pipeline once per file and shares only the
counter, the channel and read-only project facts. The pipeline owns one
`Document` and hands passes a view (`Analysis`, `ScopeTree`) of it. The planner
and the source buffer are called by the layout engine, by the rewrap pass and by
`canonical_end`, always from the first line on, so their state never outlives a
walk over one text. The wrapper calls the layout as a function. Delivery works
on the results of the whole batch.

## 2. Modules

Read them in this order; each header says what the module stands for.

**Planning.** `IndentStack` has the operations of `stack.rs` on a record with the
fields of the Rust struct: frames, visible and raw columns, labelled DO loops as
indices into the frames, the remembered comma-prefixed heading. `Planner` is
`Planner::plan`: a document is any sequence of groups from `Groups`; one step
starts a group (`PlanDirective`, `PlanUniform`, `StartCode`), closes one loop
that ends at the statement's label (`CloseLabel`), or makes the transition of
one statement (`Member`, `OpenFrame`, `BranchLine`, ..., `RecoverEnd`,
`Ordinary`). The code is sequential; the steps replace its loops and add no
behaviour. `opened` and `doLabel` of a frame and `wellformed` are history for
properties. What a statement may say of itself is what the classifier can tell:
only an `end procedure` or an unrecognised statement is an END of a definition
without being that END (`StatementInfo`). `MCPlanner` holds the documents,
`PlannerProofs` the proofs.

**Delivery.** `FileRun` is `format_files` with `atomic_replace`, one system call
a step: read every target, format one after the other, then per target nothing, a
diff or resolve / create / chmod / write / sync / rename, and the listing at the
end. Of a batch the pool reports the first target in order that fails, and so does
`Format`. `FileRunAssumption` says what the rest of the program sees to: targets
of a run are deduplicated, and the name of a temporary is the name of no target.
Several runs, the owner (`Save`, `Delete`), `Kill`, `PowerLoss` and `ClosePipe`
interleave. Directory entries name inodes, as on a Unix file system. `FileStore`
is what it promises: files change only by whole texts. `FileRun` implements it
under the mapping `Store` (what each name refers to), which `FileRunProofs` proves.

**Pool.** `FormatTargets` is `format_targets`: the main thread starts workers,
drops its sender, receives, joins and collects; workers claim by `fetch_add`,
format, send. `FormatAll` is the promise: one answer for the batch, the one of a
loop over the targets in order. The channel is a set, since nothing depends on
its order.

**Convergence.** `FixedPoint` is `fixed_point_progress`. `ReflowRounds` is the
loop of `ReflowScope::reflow`, `RewrapSettlement` that of `format_wrapped` and
`settle_rewrap`. What is laid out, emitted, prepared and reflowed are arbitrary
functions: an answer is chosen when it is asked for first and kept. So every
pair of functions over the given domain is covered. `MCConvergence` runs both,
`ConvergenceProofs` proves about both.

**Reading source.** `LineLexer` is the lexer of `source/regions.rs` over a small
alphabet of bytes: literal state, Hollerith payload, comments, continuation,
`!$ ` and `!$&` sentinels. `SourceLines` is `SourceBuffer` and
`LogicalGroup::visit`: any line of `Lines` comes next. `LineWalkers` adds the
three passes that walk the same lines with a state of their own: the trimmer,
the wrapper's comment search, the continuation pass. One step is one line
through all of them. Parameterising by the lines rather than by tokens keeps the
carried state exact: every byte of a line is lexed by the rules of the code.
`MCLineWalkers` runs all three, `LineProofs` proves about them.

**Normalization.** `Document` has the operations of `document.rs` on the lines
and terminators of a file. `Normalize` is `pipeline::normalize` with
`PassContextCache` and the delivery of the three modes (`driver.rs`, `lay_out`,
`output_whitespace`). A pass is one action; what it rewrites in a line is
nondeterministic, what it does to lines, tails and views is not. A view records
the lines it was built from and what it has become wrong about. `EditBuffer` is
`edit.rs`, one request or one splice a step; the new line is a sequence of parts
that say where they come from, so that no property has to compare bytes.
`MCTransform` runs `Normalize` and `EditBuffer`; `TransformProofs` proves about
both.

**Intake.** What happens before any file is formatted; each part hands the next
a value. `FormatDetect` is `source/format_detect.rs`: a line is what its first
columns, column six, its field and its ending show; conditionals are a stack of
frames, each with what is known of its condition, and evidence is collected on
two tracks, one for lines that are certainly compiled and one for lines that may
be. Beside the code's state it carries what Fortran says: whether the file could
be legal free and legal fixed form for *every* outcome of its conditions.
`Arguments` reads a command line word by word into a draft (`draft.rs`,
`parse/*.rs`). `Settings` layers the settings of the command line over those of
the configuration file (`settings.rs`, `config/file.rs`). `Exclude` is
`exclude.rs`, the glob matcher included. `Selection` is `io::run` from the
dispatch over the invocation to delivery, one question to git or the file system
a step: `select_paths`, `Loaded::read`, `build_context`, the shortcuts of standard
input and the queries; `Edit` changes or removes files meanwhile. `IntakeProofs`
proves about all five.

**Line output.** `Emission` is `emit_group` with `emit_line_to_with_lex` and
`ParenAlignmentState`: a line is a sequence of cells, one per column, so columns
are exact. The written group is written once more (`EmitAgain`), as `lay_out`
does. `Reflow` extends it: the author's statement is laid out, measured, joined
or broken (`wrapping.rs`, `reflow/mod.rs`, `sentinel.rs`), and what the wrapper
made is laid out by the same emitter. That composition is the point: the wrapper
only predicts columns, the emitter writes them. `PostLayout` is `lay_out` over a
whole document: the engine, then `post_layout` (the columns of `::` and of trailing
comments, blank lines between units, the cap on blank lines, the blank tail), and
both once more when a width changed. A line is the widths its columns depend on; a
line that hangs begins in the column of the parenthesis above it, which is what the
engine must do again after alignment has moved that parenthesis. One sweep of an
alignment loop is a step, and what was delivered is formatted once more.
`MCLayout` runs all three; `ReflowProofs` proves about `Reflow`, and the walks over
the cells and tokens of a line are recursive functions for its sake.

**Names.** `CaseNames` is the lattice of `names.rs`: a name is absent, a
reference, known by one spelling or ambiguous, and maps of these are joined.
`ProjectFacts` and `Declarations` extract the scopes, units, types and imports of
a file from its statements (`declarations/*.rs`, `scope.rs`). `Project` is
`project/context.rs` and `includes.rs`: fragments are expanded into the file that
includes them, files are absorbed into merged tables, in a batch or one by one,
while somebody edits them. `Visibility` and `TypeResolution` are the queries:
the spelling of a name along USE and host association, the type of a variable and
the owner of a member, whose root may be an alias of ASSOCIATE or SELECT TYPE
(`MemberEvidence`). A query has one such alias, chosen by `MCNames`; how the frames
of nested constructs shadow one another is not modelled. The expansion of the
fragments of one file is one step. Recursive searches of the code are RECURSIVE operators
here, with the visited sets of the code, since the visited sets are what could be
wrong; these modules are for TLC only.

## 3. What the runs check

| run | module | states | asks |
|---|---|---|---|
| `PlannerDocuments` | `MCPlanner` | 940,000 | does the layout state stay consistent over any document? |
| `FileRun` | `MCFileRun` | 935,000 | do runs and an owner see only whole files, whatever fails, and is what a run reports true? |
| `FormatTargetsPool` | `FormatTargets` | 40,000 | is the pool a sequential loop, and does it end? |
| `Convergence` | `MCConvergence` | 46,000 | do the wrapping loops end, and is what they report true? |
| `LineWalkersAgree` | `MCLineWalkers` | 51,000 | do all readers of a line agree on what is code? |
| `TransformDocuments` | `MCTransform` | 762,000 | is any pass shown a stale view; what becomes of lines, terminators and edits? |
| `Intake` | `MCIntake` | 1,124,000 | is a run told, given and shown what was asked for? |
| `Layout` | `MCLayout` | 1,041,000 | do wrapped and aligned lines fit, read as written, and stay put? |
| `Names` | `MCNames` | 2,000 | is a spelling ever a guess? |
| `FileRunClosedPipe`, `LineWalkersStreams`, `NamesRenames` | | | counterexamples to what the repository says; see "Findings" |

Several properties are conjunctions of named parts: the part that fails is named
in the module, and each part has its comment there.

### PlannerDocuments

Three families of documents, each under two configurations that differ in
`max_indent`, `contains_restart`, `include_left`, `refactor_end`, OpenMP
indentation and the inferred base:

- *nesting*: modules, subroutines, abstract interfaces, module procedures, IF
  blocks, CONTAINS, ENTRY, INCLUDE, and ENDs that match, do not match, stand two
  on a line or span lines; up to three open frames;
- *loops*: two labels, DO loops that share one, closed by CONTINUE, by END DO or
  by any labelled statement, with other frames between; up to three frames;
- *conditionals*: `#if` / `#elif` / `#else` / `#endif`, one level, around
  definitions, loops, comments and OpenMP sentinels; up to two frames.

Three frames are what it takes to remove one from the middle and have one on
both sides; two labels what it takes to have a stale index name the wrong loop;
`MaxColumn` (4) exceeds the clamp (3), so clamped and unclamped columns differ.
Snapshots restored by `#else` are full stacks, so a deeper `#if` repeats them.

`StackShape` and `LabelsExact` keep the parallel vectors and the indices of
labelled loops right, in the active stack and in every snapshot;
`VisibleAgreesWithRaw` relates the two column vectors; `EndAlignsWithOpener` says
that an END comes to the column of its opener and (`ColumnsKept`) a well formed
document back to its base; `RefactoredEndNamesItsFrame` that `--refactor-end`
completes an END with the kind and name of the frame it closes. `wellformed`
restricts the column properties to documents whose ENDs matched so far; the shape
properties hold for all.

The run checks deadlock: the planner accepts every document.

### FileRun

Two files, a symbolic link to the first, and a fixed-form file; one edit by the
owner. One of three settings is chosen at the start. *Concurrent*: two in-place
runs with different process numbers whose targets overlap, one of them through
the link. *Faults*: the same runs one after the other under one process number
(numbers are reused after a kill), with every fault. *Reports*: an in-place, a
`--check` and a `--diff` run side by side, the first version refused by the
formatter. Two targets that differ and one that does not are enough for every
order of unchanged, skipped and changed results, and for a target that fails to
format behind one that does not; one edit separates what was read from what is
there.

The kinds of faults are split over the settings because their product is large
and the promises differ: `RunsDoNotDisturb` is about runs where no call fails.
`ImplementsFileStore` is the refinement; `TargetsWhole` and `NoStrayTemps` are
about the disk, `SuccessMeansFormatted` and `ReportsAreTruthful` about what a run
says of it.

What the model allows, because the code does: an edit made between a run's read
and its rename is lost (the owner's text is replaced by the formatted form of an
older one); a killed run leaves its temporary, and a later run under the same
process number then fails once, on that file, and removes it. Power loss damages
contents that were not synced; that a rename itself may be lost with its
directory is not modelled.

### FormatTargetsPool

Two threads, four targets, every assignment of `formatted`, `failed` and
`panics` to the targets, with threads that may fail to start. Four targets let
one thread overtake the other twice. `ImplementsFormatAll` includes liveness:
the answer is given, so no receiver waits for a sender that is never dropped.

### Convergence

Three layouts, three groups (two wrappable), four documents. Each run of the
rounds keeps one history of layouts since the last flag, so three layouts give
cycles of length two and three, with and without a tail; two wrappable groups
give histories that are cut twice; four documents give a settlement that cycles
after a tail. All functions over these domains are covered, failures included.
`OkIsFixedPoint` says that the rounds return a fixed point, `CycleIsGenuine` that
a reported cycle is one; `SettlementIsRight` says both of `--rewrap`; `LoopsEnd`
that loops without a limit in the code end. A layout that is too large to be analyzed
ends the rounds with an error (`MeasureFails`), which it can only do the first time
it is measured.

### LineWalkersAgree

Every document of up to four lines out of 43, chosen so that each rule of the
lexer has a line that triggers it: literals opened, doubled, resumed with and
without `&` and closed, Hollerith payloads (a blank, an `&`, cut off), comments
with quotes, directives with open literals, both sentinels with each of these
bodies. Four lines hold a statement that is opened, stepped over by the other
stream or by a comment, resumed and closed. States repeat after that: a stream
keeps one lexical state and one flag.

`StatementsLexAsOne`: a literal continued over lines reads as one literal, and the
joined statement has the same protected bytes. `TrimmingIsHarmless`: the trimmer
drops no protected byte, and what it leaves reads the same and is trimmed no
further. `WalkersAgree`: the comment search and the continuation pass, which scan
the same lines with states of their own, never take a protected byte for code.

The readers do not agree everywhere. The shapes on which they part are named in
`Shapes` and `OddShapes`, and each property excludes only those it must: a
literal resumed without `&`, statements that interleave both streams, a compact
`!$&` line (left to the ordinary stream by the trimmer, which has no statement
context), a directive that opens a literal, and a blank `!$ ` line, whose
sentinel ends in the blank that is trimmed.

### TransformDocuments

Eleven kinds of lines: empty, blank, separators alone and behind a statement,
trailing blanks, the halves of a split token and of a continued statement, a
RETURN. All files of up to two lines over them with every terminator (LF, CRLF,
none at the end), and three-line files in which the middle or the tail can go;
three modes; all, none and a mixture of the switches. The passes only look at
neighbouring lines and at the tail, so three lines give each of them something
in front and something behind. For edits: lines of up to three bytes, ranges out
of range included, three inserts, up to three requests: two that overlap and one
that does not.

`ViewCurrent` is what the comments of `pipeline.rs` promise: every pass reads a
view that is right about what it takes from it. `TerminatorsRight` is the promise
of `--canonicalize-only` to keep every terminator and that of the other modes to
unify them, `ShapeSettled` that the delivered text is delivered as it is when
formatted again. `SurvivorsKept`, `TextsInPlace` and `AgreeingApplied` say what
`EditBuffer` does to bytes nobody named, to texts, and to rules that do not
disagree.

### Intake

Five parts run beside one another, one to a behaviour.

*Detection*: files of up to five lines out of 29: each gutter, each mark of column
six and each ending, and every conditional with a true, false or unknown
condition. Five lines hold an `#if`, an `#elif` or `#else`, and a nested one with
a line in it. `FormIsRecognised`: the activity the code computes is exact with
respect to the outcomes of the conditions, a file that is free form for every
outcome shows no fixed evidence, and one that is fixed form for every outcome no
free evidence. Excluded is a statement continued over a directive (section 5). A
line with a comma or a digit in column six is legal free form only if its field
does not then begin with a comma, which no statement does.

*Arguments*: up to four words out of 26. Every rule of the draft concerns at most
two options and a word, so four words show each of them in any order and repeated.
`OrderDoesNotMatter` gives the answer (refused or run, with which input, actions
and isolation) as a function of how often each option was given, which mentions no
order at all.

*Settings*: up to three settings over both layers and the keys of two enclosing
directories. `SettingsAreRight`: each field has the value of the last specific
setting of the highest layer that speaks of it, and a command line refused before
the file is read could not have been mended by it.

*Exclusion*: all patterns over `a b ? * /` and all paths over `a b /` of up to
four characters. `ExclusionIsExact` compares the two-way search with the
denotation of a pattern (a way to cut the path into pieces its tokens stand for).

*Selection*: eight paths, one for each reason to be treated specially (an alias, a
fixed-form file, one outside the directory, in a submodule, excluded, untracked,
not a source), all kinds of invocations, one edit or removal at any moment.
`SelectionIsRight`: on no route is a fixed-form text rewritten; a text brought in
as context is one of a path that was not excluded, is tracked, lies in a directory
asked for and in a submodule only if these are, and an isolated run has none; no
route hits an `expect`; and only a named file can be missed.

### Layout

Statements of a head (assignment, pointer assignment, declaration, call) and up to two pieces out of
seven, plain, labelled, under `!$` and `!$omp`, with seams and comments, on lines
of fifteen columns; five configurations. With a head and two pieces every kind of
break competes with every other and loses for lack of room in some statement.
Groups of up to three lines under eight plans show alignment carried over lines
and over lines that are no code.

Documents to align, of which a behaviour lays out one: three declarations out of
five with any of five gaps between them (nothing, one or two blanks, a comment, a
statement), so that blocks merge across blanks, lose their widest member to the
budget, or break at a line that cannot reach the column; four lines with comments;
continued lines that hang on a parenthesis behind a `::`; units, interfaces, types
and directives, continued ones too, with blank lines between and without. Four styles:
a budget that binds and one that does not, each pass on and off, caps of none, one and
two blanks, and no cap (`preserve`).

`WrappedLinesFit`: the columns the layout writes, and those that aligning a `::`
may add, never pass the limit. `LinesReadAsWritten`: the statement is the same
token for token (a literal may be split at `//`). `LayoutSettles`: a group written
again, and a document delivered and laid out again, come out as they went in
(`EmissionSettles`, `PageSettles`); a padded line fits, and every gap wider than
one blank is held open by a line of the same column that has one (`PaddingIsHeld`).
`PageSettles` leaves out documents in which a
line that hangs has a `::` of its own (section 5).

### Names

Forty-three projects of up to four files: each has what it takes for one question
(a facade, a renaming, a cycle of USE, two copies of a module, a submodule and its
parent, an extended type, a fragment that is nested, missing, broken, shared, or
edited meanwhile), absorbed in every order. The state space is small because a
state is a whole project; the properties ask every name from every line of every
file. `NamesAreNeverGuessed`, `MembersFollowTheirType` and `CasingNeverGuesses`
compare the searches, which follow one route at a time and stop early, with least
solutions that know no order. A member is asked for from every root by itself, and
from every alias of known type it could be: of the selectors `ASSOCIATE` can name
there, and of the types that can narrow it in `TYPE IS`. `FragmentsReadAlike`: a
batch sees one text of a fragment (the expansion of a file being one step, the
property admits any mixture of old and new texts that is the same for all of them), and a buffer that differs from what was absorbed reads as it would had
it been absorbed.

### Deadlock and fairness

`CHECK_DEADLOCK FALSE` stands in the runs whose system ends: runs of the program
are over, loops return, documents have a bounded number of lines.

Fairness is assumed in two places. `FormatTargets`: weak fairness of the main
thread and of each worker; the operating system runs threads that can run, and
`join` and `recv` return once their condition holds. `Convergence`: weak
fairness of the step; a sequential loop goes on until it returns. `FileRun` and
the documents promise no progress and assume none.

## 4. What is proved

For all values of the constants, under the assumptions named `...Assumption` in
the modules (types and disjointness of constants, and the few facts about them
that other parts of the program establish; TLC evaluates them in every run):

| module | theorem | says |
|---|---|---|
| `PlannerProofs` | `TypeCorrect`, `ShapeCorrect`, `LabelsCorrect` | types; vectors in step; labelled loops named exactly, for every set of groups, every depth |
| `PlannerProofs` | `VisibleCorrect`, `EndsAlign`, `RefactorCorrect` | the two column vectors agree up to the clamp; an END comes to its opener's column; a rewritten END is the whole line and names its frame |
| `FileRunProofs` | `TargetsAlwaysWhole`, `FileRunImplementsFileStore` | a file holds one whole text under its mode, and each replacement is one step of `FileStore`, for any files, runs and faults |
| `FileRunProofs` | `NoStrayTempsEver`, `RunsNeverDisturb`, `SuccessIsFormatted`, `ReportsAlwaysTruthful` | what a run leaves behind, does to others, and says of itself |
| `FormatTargetsProofs` | `TypeCorrect`, `OnceCorrect`, `SlotsCorrect` | no target formatted twice, every slot filled, for any number of targets and threads |
| `FormatTargetsProofs` | `PoolRefinesLoop` | the pool implements the safety part of `FormatAll` |
| `ConvergenceProofs` | `OkCorrect`, `CycleCorrect`, `SettlementCorrect` | fixed points and cycles are genuine, of the rounds and of `--rewrap`, whatever is laid out, emitted, prepared and reflowed |
| `TransformProofs` | `EditTypeCorrect`, `SurvivorsCorrect`, `TextsCorrect`, `AgreeingCorrect` | edits keep the bytes nobody named, never replace one twice, and apply all that agree, for every line and list of requests |
| `TransformProofs` | `ViewCorrect`, `TerminatorsCorrect`, `SettledCorrect` | no pass reads a stale view; terminators are what the mode promises; what is delivered is delivered again, for files of any number of lines |
| `LineProofs` | `StatementsLexAsOneHolds` | a statement has the protected bytes of its lines, a stream reads as one text, and no line owes payload, for documents of any number of lines of any bytes |
| `LineProofs` | `TrimmingIsHarmlessHolds`, `WalkersAgreeHolds` | trimming drops no protected byte and leaves the same line; comment search and continuation pass read it as the buffer does |
| `IntakeProofs` | `FormRecognised` | activity is exact and no form is taken for the other, for files of any length and conditionals of any depth |
| `IntakeProofs` | `OrderCorrect`, `SettingsCorrect` | the order of options does not matter, for command lines of any length; each setting has the value of the last specific writer of the highest layer |
| `IntakeProofs` | `ExclusionCorrect`, `SelectionCorrect` | a pattern excludes what it denotes, for patterns and paths of any length; no fixed form is rewritten, the context is bounded, only named files are missed |
| `ReflowProofs` | `StatementReads` | wrapped lines read as the statement, for statements of any number of tokens of any length, any plan and any budget |
| `ReflowProofs` | `WrappingFits` | no line of a wrapped or joined statement or directive passes the limit where the layout puts it, nor when alignment widens its `::`, at any line length, label, sentinel, nesting and setting |

The arguments:

- *Planner.* `IInv` is `TypeOK` with `Good(st)` (types, shape, labels) for the
  active stack and every snapshot. It must speak of snapshots: `#else` brings
  one back. Each stack operation has a lemma that it preserves `Good`; the hard
  one is `RemoveFrameGood`, where three vectors lose an element at shifted
  places and the loops above are renumbered. The lemmas of the first section say
  what `RemoveAt`, `Front` and the updates of an end do to each element.
  Columns have an invariant of their own on top of it. `Clamped` says that the
  two vectors are equal under the limit; `Opened` that each frame's raw column is
  the one its opening statement was given. Each has one lemma per way the code
  changes a vector, then one per stack operation. `ColumnsInv` asks `Opened` of
  snapshots too, and needs that no frame is open before the first significant
  statement: the base guessed there would otherwise move columns under open
  frames.
- *File runs.* The invariant grows in layers, each on the one before. `MemoryInv`:
  where a run is determines what it holds, and its results are those of the
  targets it has walked (`PendingOf`). `DiskInv`: what a file holds is a text
  somebody wrote under its mode, an inode has one name, and a run between `create`
  and `rename` holds an inode that nobody else has a name for (`OwnTemp`); two live
  runs have different process numbers, and this is the step that needs it. From
  these, `TargetsWhole` and the refinement: `rename` of an owned whole text is a
  step of `FileStore`, every other step leaves `Shown` alone. `StrayInv`,
  `DisturbInv`, `SuccessInv` and `ReportInv` then say whose a temporary with a
  name is, that no two runs ever meet one, what a run that walks its targets has
  passed, and what it has listed.
- *Pool.* `IInv` adds to `FormattedOnce` that every claimed target is in exactly
  one of four places or its worker panicked (`Accounted`), that unborn threads
  hold nothing (`Threads`), and that outcomes are never altered (`Honest`). With
  all workers ended and the channel empty only the slot is left, which is
  `SlotsFilled`; the first slot that is not `formatted` is then the first
  failure, which is the step of `FormatAll`.
- *Rounds.* `IInv` adds `Path`: consecutive layouts of the history are linked by
  recorded answers, under the present flags. A repetition closes the path into a
  loop. Clearing the history when a flag is set is what keeps `Path` true. The
  settlement has the same argument one level up (`Passed`): its inputs are linked
  by passes, the last of them is the document at hand, and before it is settled
  its output is the one that was laid out.
- *Edits.* `EInv` carries `Kept(edits, out, applied, cursor)`: the parts written
  so far are the bytes below the cursor that no applied request covers, in
  order, and the texts of the applied requests, each between the bytes around
  its range. `CopyKeeps` and `InsertKeeps` are the two halves of a splice.
  `SpliceInv` adds which requests were looked at (`Seen`): of requests that agree
  none was left out, since the cursor is the end of an applied one, and texts
  stand in the order of the stable sort. At the end `Seen` is every request,
  because the order is a permutation.
- *Normalization.* `Sound` is what a document is before each pass: its lines do
  not end in an empty one without a terminator, its policy is that of the file,
  no separator is left behind once they were removed, and under
  `--canonicalize-only` its terminators are the file's, or all but that of a
  last line which had none (`EndingsOf`). `ViewOf` is what the cached view is:
  right about everything while the run of passes has changed nothing, about the
  lines where passes of one run still read it, and about offsets at the
  semicolons. `TerminatorsRight` follows from `Sound` and what rendering does
  to a line (`ToBytesFacts`). `ShapeSettled` needs that delivered bytes read back
  to the lines they were written from (`ReadBack`) and that the bytes of each
  mode are what the second run's policy would write (`FullAgain`,
  `NormalizedAgain`, `CanonicalizedAgain`). Passes that remove lines rest on
  `Without`, whose k-th line is the kept one with k - 1 kept ones in front;
  that this is a bijection is proved from the ranks of positions.
- *Lines.* The recursive walk of `Scan` is replaced by its run: the sequence of
  modes (code, a delimiter, payload, comment) before every byte, of which there is
  exactly one (`WalkIsRun`, `RunUnique`; by induction over positions). What a scan
  answers is read off the run (`ReadBy`, `LineReads`). Two runs entered in one mode
  stay equal over equal bytes (`RunsAgree`), except for a Hollerith head that a name
  ends before in one of them only (`SameHead`): every comparison of two readers is
  an instance of this. The invariant `WInv` says when each reader's state is the
  buffer's (`SearchOK`, `MarkOK`, `TrimOK`), what mode the text of a stream so far
  ends in (`ChainOK`), and that the joined statement reads as its lines did and ends
  in the mode its stream carries (`StatementOK`). The hard step is
  `FragmentReads`: the fragment between the markers starts in the mode the line was
  entered in, because only blanks and an `&` are in front of it; a blank is put in
  for the line break only if that mode is code; and its end has the mode of the
  marker, which is what the line leaves open. For the trimmer, a line cut behind the
  last protected byte has the same run up to the cut, and the same marker.
- *Detection.* The frames agree with the lists of all conditions (`Agree`:
  `taken` summarises the branches before the last, and the activity of each depth
  is exact); code that may be compiled has an answer to "is a statement continued
  here?" (`Answers`); where code is certainly compiled the detector's own answer,
  the last ending of the track, is that one (`ContinuationKnown`). With these, fixed
  evidence is impossible in a free-form file and free evidence never comes alone in
  a fixed-form one.
- *Command line.* While nothing is refused the draft is a function of the counts
  of the options (`DraftOf`, `KindFits` for the kind of a selection); a refusal has
  a reason that mentions only the counts (`Reason`), and a reason stays one as
  counts grow. Each handler has a lemma for both halves. An answer given at the
  end is therefore one of the counts.
- *Settings.* What a layer makes of a configuration is a function over the
  positions of its settings (`ApplyThose`). By induction over these, a field has
  what its last writer so far wrote, or what it had (`LoopValues`); `MergedIsLayered`
  puts the three layers on top of one another. For a refusal before the file is
  read: a switch that is not at its default was written by the command line, which
  comes last whatever the file says (`RefusedAnyway`).
- *Exclusion.* `DenotesFrom` cuts a text into the parts that the tokens of a glob
  stand for; the tokens are a least closed set, so that each unfolding of it
  (`StarsUnfold`, `StarUnfold`, `CharUnfold`) is a fact about the code's branches. The
  denotation is therefore a solution of the equation of the search (`SearchExists`),
  and, by induction over what is left of glob and text, the only one
  (`SearchDecides`). The same twice more: for the starts that are tried behind each
  separator (`CandidateDecides`), and for directories (`PatternDecides`).
- *Selection.* `RouteInv` says which invocation can be at which stage, which is
  what the later stages expect of the earlier ones' guards; `ContextInv` that every
  path of the context is allowed, whatever its text; `NamedAreRead` that a target
  the user named is still to be read or was.
- *Wrapping.* `ReadInv` says of a statement that is being broken that its lines so
  far and the tokens left, rejoined, are the statement rejoined (`LinesSoFar`). A
  break between two tokens moves the border only (`CutReads`). A break inside a
  literal puts a `//` between two literals, which `Rejoined` undoes whatever it has
  done before, because it looks back by two tokens and these are both new
  (`LiteralCutReads`). That no line begins with a marker is a fact about every way to
  choose a place (`GenericPlace`): the recursive walks that find the head of the
  statement, the depth of a token and the text in front of it are unfolded by
  induction over positions, and an operator that would put a marker first is not
  one of the places. `LiteralPlace` is the same for literals: the piece left behind
  is not empty, and both pieces are literals again.
- *Columns of the wrapper.* `FitInv` compares two walks over the same lines. The
  wrapper's is its history of scans: behind every line the alignment is that of the
  line before it, scanned from the column it was charged (`History`). The layout's is
  the state of the parentheses after each line it has written, which it found in other
  text: the label and its padding are in front, the sentinel is not, and columns are
  clamped. `Beside` is what survives: equal nesting, and each of the layout's columns,
  clamped and with the sentinel in front, no further out than the wrapper's (`Under`).
  `ScanBeside` keeps it over the cells of a line, `FirstScan` and `NextScan` over a
  whole line. The rest is arithmetic: where a line is emitted (`FirstLine`,
  `NextLine`) is no further out than it was charged, a break leaves two columns for
  the marker (`PlaceLeaves`, `LiteralCutEnds`), and the `::` of a line are among those
  the statement was charged for (`CutWidens`, `LiteralCutWidens`, `WidenedGrowth`).
  `Charges` and `Written` join the two: a line is as wide as its body, at most at its
  charge, and stays so when what was written is laid out again.

Proving found the following to be wrong with the models, which the runs had not
shown; all were corrected, and none was a fault of the program:

- `ProjectIsBounded` of `Selection` was weaker than it read: an implication took
  more to its left than was meant, so that an excluded path satisfied it.
- `FreeLegal` of `FormatDetect` admitted a field that begins with a comma behind a
  digit in column six, which no statement has.
- `Planner` admitted statements that its classifier cannot return: one that ends a
  definition and has the kind of some other statement (`StatementInfo`).
- Overlapping arms of CASE in `Arguments`, where the code has an order.
- The shape "split head" of `SourceLines` overlooked that a Hollerith head ends in
  a letter, and `LineLexer` took the colon of `findentfix:` for the end of a name.
- "both streams" of `LineWalkers` overlooked a stream that a fix line inside a
  literal has cut off: step 12 still waits for it, while the buffer does not
  continue it. The counterexample has five lines, one more than the run.
  `MarkersAreCode`, on the other hand, excluded two shapes that it need not.
- `Format` of `FileRun` judged all targets in one step; the order in which the
  targets fail was lost.
- `Reflow` counted the blanks that alignment adds around a `::` at the ends of a line
  as well, where alignment leaves it alone: `WrappedLinesFit` asked for more than the
  wrapper promises (`Widened` is what alignment does, `Growth` what is charged). It
  also admitted directives with seams and comments, which `sentinel.rs` has joined
  and stripped, and tokens without text.

Only model-checked:

- Liveness (`ImplementsFormatAll`'s second half, `LoopsEnd`), since the prover does
  not treat ENABLED and fairness.
- `LayoutSettles`, `FragmentsReadAlike` and the
  rest of Names: `PostLayout`, `Project`, `Visibility` and others use
  RECURSIVE operators, as their code does, and a module that reaches one cannot
  hold a theorem.

## 5. Findings

- **`FileRunClosedPipe`** (`io/mod.rs:626`). Changed paths are listed with
  `println!`, which panics on a closed pipe: status 101 after the files were
  replaced, where a test says "a closed pipe still has to exit 0".
- **`LineWalkersStreams`** (`format/full/reflow/mod.rs:790`). A continued
  ordinary line followed by a `!$ ` line makes one group that is eligible for
  reflow, and is rejoined under the sentinel of its first line.
- **`NamesRenames`** (`analysis/project/visibility.rs:367`). Two modules rename
  one entity to `Foo` and to `FOO`; a program that uses both spells it as the
  first does, since the search answers "absent" for the second route to an entity
  it has visited. `analysis/names.rs:1`: "project casing never guesses".
  `NamesAreNeverGuessed` excludes projects with such renames.

Other disagreements, met while modelling, which no run shows; properties that are
concerned exclude them:

- `#else` assigns the snapshot taken at `#if`, the base column included
  (`format/preprocessor.rs:66`): when the first significant statement stands inside
  the conditional, the inferred base is lost and never inferred again, where
  `format/planner.rs:485` reads "the indentation of the first significant statement".
- The comment search of the wrapper steps over a line that resumes a literal
  without `&` "exactly as `SourceBuffer` treats it" (`source/regions.rs:443`), which
  does so for conditional lines only: it cuts off a comment the wrapper then does
  not find.
- The compact `!$&` line is left to the ordinary stream by the trimmer
  (`source/regions.rs:425`): a blank that ends its Hollerith constant is dropped.
  Full mode rewrites such lines before, the other modes do not.
- The buffer does not know that a macro continues over a backslash
  (`source/buffer.rs:126`): the second line of the directive is lexed as code and
  may open a literal.
- A statement continued over a directive is not continued for
  `fixed_continuation_signature` (`source/format_detect.rs:374`): a character in
  column six of the next line then counts as fixed form.
- A narrow label on a line that has left the margin, or with several blanks
  behind it (`label_left = false`, `align_paren`): alignment counts the columns
  of the label as read, not as written (`format/continuation.rs`), so a second
  run moves the continuation.
- "The second post-layout pass is a fixed point of the first, so two rounds are
  sufficient" (`format/full/layout.rs:19`): with `--align-paren`, a continuation
  line that hangs on a parenthesis and has a `::` of its own (`[integer :: 1]`) moves
  in the second round, its block becomes narrower in the second alignment, and a
  line that hangs on a third is left where it was; the next run moves it.
- "An untyped inner alias shadows a typed outer alias with the same name instead of
  exposing the outer entity by accident" (`case_pass/associations.rs:23`), but
  `exact_member_owner` (`case_pass/members.rs:18`) asks for the variable of that name
  when an alias has no type: in `associate (x => f(1))`, `x%n` is spelled as the type
  of the variable `x` has it. The same function looks the root up as it is written,
  where aliases are kept in lower case: `X%n` is never a member of the alias `x`.
  `MembersFollowTheirType` asks about aliases of known type, written in lower case.
- Two spellings of one path (a symbolic link and its target) are read twice, where
  `io/select.rs:6` speaks of reading each path exactly once.
- An isolated named buffer that is also called `--stdin` is accepted or refused
  by the order of the options (`cli/draft.rs`); `OrderDoesNotMatter` excepts it.
- A buffer that differs from what was absorbed is expanded from disk and loses the
  INCLUDE resources the project was given in memory (`project/context.rs:99`).
- A declaration that contradicts itself in a type makes `member_spelling_from_type`
  answer absent, as if the type said nothing.

Seen on the way, and without effect on the properties: `EditBuffer::skipped`
promises the number of overlapping edits, which only `finish` counts, and
`finish` consumes the buffer; the comment on `replace` says it drops edits that
overlap an earlier one, where `finish` drops the one that starts later; an
insertion asked for after a replacement that starts at its offset is dropped;
`pipeline.rs:220` says that steps 12 and 13 read no view, while the continuation
pass reads line kinds and streams from it (steps 11 and 12 change neither);
`--refactor-end` ignores an explicit target of the END it rewrites; a `!findentfix:`
line inside a continued statement ends the group.

## 6. Not modelled

- Text rewriting of single tokens (spacing, keyword case, operators): no state
  beyond a line's lexical state, and volume rather than control. `classify` and
  `vocab` are tables of the same kind.
- Of the rewriting passes: redundant parentheses, named ENDs, and the case of names a file declares itself
  (`case_pass/declared.rs`, `associations.rs`, `declarations/index.rs`).
- Inside components that are modelled in part: full mode's reflow inside
  `Normalize` (it is `ReflowRounds` and `Reflow`); conditional continuations, which
  run before the first view; a bare CR at the end of a line; the Hollerith debt
  across lines, which is always zero; the lookahead of the continuation pass to
  the next line, which only keeps markers; tabs and terminators of an emitted line;
  alignment behind sentinels and inside continued literals, the cut of an overlong
  separator comment;
  implicit typing; the letters of short options and the TOML grammar; the text of
  diffs and reports.
- Packaging, tools, benches, fuzzing: outside the program.

## 7. Plan

Done: planning, delivery, pool, convergence, reading, normalization, edits, in
this order, the state most exposed to order and faults first; then intake, line
output and names; then theorems about every component that the prover can reach.

Next, theorems in the modules that exist: of `IndentStack`, that a document without
conditionals leaves as many frames open as were opened and not closed; of
`FormatTargets`, that threads which do not start change nothing but the number of
workers; of `Emission`, the part of `EmissionSettles` that concerns one line.

Next, models: the case of names declared in a file; state of the rewriting passes
(line rules across lines, redundant parentheses, named ENDs).
