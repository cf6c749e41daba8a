---------------------------- MODULE FormatDetect ----------------------------
(***************************************************************************)
(* Is a file fixed or free form?  (src/src/source/format_detect.rs)        *)
(*                                                                         *)
(* The detector reads the whole file and collects evidence.  Lines under a *)
(* preprocessor conditional count when the branch is known to be compiled, *)
(* never when it is known not to be, and tentatively otherwise.            *)
(*                                                                         *)
(* A line stands for what the detector asks of it: what its columns 1-5    *)
(* hold, its column 6, the field from column 7 on, and how its code ends.  *)
(***************************************************************************)
EXTENDS Naturals, Sequences, FiniteSets, SequencesExt

CONSTANTS SourceLines,   \* the lines a file may hold
          MaxSourceLines \* bound on their number

Gutters == {"blank",    \* blanks
            "digits",   \* blanks and digits
            "legacy",   \* `*`, or a C or D that opens a comment card
            "cname",    \* a C or D that may start a name
            "name",     \* a name, `_` or `%`
            "amp", "bang", "tab"}
Marks   == {"blank", "amp", "digit", "letter", "bang", "hash", "other"}
Fields  == {"none", "comma", "bang", "text"}
Endings == {"amp", "operator", "io star", "closed"}
Words   == {"if", "ifdef", "else", "elif", "elifdef", "endif", "include"}
Literal == {"true", "false", "unknown"}

\* label: the digits of a label reach column 6.  gap: column 7 is blank.
CodeLine == [kind : {"code"}, gutter : Gutters, mark : Marks, label : BOOLEAN,
             gap : BOOLEAN, field : Fields, ending : Endings]
DirectiveLine == [kind : {"cpp", "coco", "fypp"}, word : Words,
                  condition : Literal, continues : BOOLEAN]

ASSUME DetectAssumption ==
    SourceLines \subseteq CodeLine \cup DirectiveLine /\ MaxSourceLines \in Nat

VARIABLES
    count,      \* lines read
    evidence,   \* per track: strong_free, strong_fixed
    previous,   \* per track: how the last line of code ended
    directive,  \* a directive is continued on the next line
    stack,      \* CppFrames, one per open conditional
    (* history *)
    branches,   \* per open conditional: the conditions of its branches
    legal       \* forms the file may be in, see FreeForm below

detectVars == <<count, evidence, previous, directive, stack, branches, legal>>

Tracks == {"active", "tentative"}  \* the code names the latter's variables so
-----------------------------------------------------------------------------
(* Preprocessor conditionals: three-valued *)

FrameActivity(frame) ==
    LET branch == IF frame.taken = "true" \/ frame.condition = "false" THEN "Inactive"
                  ELSE IF frame.taken = "false" /\ frame.condition = "true" THEN "Active"
                  ELSE "Unknown"
    IN  IF "Inactive" \in {frame.parent, branch} THEN "Inactive"
        ELSE IF frame.parent = "Active" THEN branch ELSE "Unknown"

CppActivity(frames) == IF frames = <<>> THEN "Active" ELSE FrameActivity(Last(frames))

\* Mutant: a branch that may have been taken counts as not taken.
Advance_Forgets(frame, condition) ==
    [frame EXCEPT !.condition = condition,
                  !.taken = IF "true" \in {@, frame.condition} THEN "true" ELSE "false"]

Advance(frame, condition) ==
    [frame EXCEPT !.condition = condition,
                  !.taken = IF "true" \in {@, frame.condition} THEN "true"
                            ELSE IF @ = "false" /\ frame.condition = "false" THEN "false"
                            ELSE "unknown"]

\* literal_cpp_condition; a condition that goes on in the next line is not read.
Condition(line) == IF line.continues THEN "unknown" ELSE line.condition

UpdateCppActivity(line, frames) ==
    LET top == Len(frames)
        Push(condition) == Append(frames, [parent |-> CppActivity(frames),
                                           taken |-> "false", condition |-> condition])
        Branch(condition) ==
            IF top = 0 THEN frames ELSE [frames EXCEPT ![top] = Advance(@, condition)]
    IN  CASE line.word = "if"      -> Push(Condition(line))
          [] line.word = "ifdef"   -> Push("unknown")
          [] line.word = "else"    -> Branch("true")
          [] line.word = "elif"    -> Branch(Condition(line))
          [] line.word = "elifdef" -> Branch("unknown")
          [] line.word = "endif"   -> IF top = 0 THEN frames ELSE Front(frames)
          [] OTHER                 -> frames
-----------------------------------------------------------------------------
(* What a line of code shows *)

FreeComment(line) ==
    \/ line.gutter = "bang"
    \/ line.gutter = "blank" /\ line.mark = "bang"
    \/ line.gutter = "blank" /\ line.mark = "blank" /\ line.field = "bang"

RequiresContinuation(ending) == ending = "operator"

\* A name or statement at column 6 continues the line before only if that line
\* cannot end there, or if a comma extends its list.
Extends(ending, line) ==
    \/ RequiresContinuation(ending)
    \/ ending = "io star" /\ line.field = "comma"

FixedCommentSignature(line) == line.gutter = "legacy"

FixedContinuationSignature(line, ending) ==
    /\ line.gutter \in {"blank", "digits"}
    /\ line.mark # "blank" /\ line.field # "none"
    /\ CASE line.mark = "amp"    -> TRUE
         [] line.mark = "digit"  -> IF line.gap THEN Extends(ending, line)
                                    ELSE line.label => RequiresContinuation(ending)
         [] line.mark = "letter" -> Extends(ending, line)
         [] line.mark = "bang"   -> RequiresContinuation(ending)
         [] OTHER                -> TRUE

StrongFreeSignature(line) ==
    /\ line.gutter # "tab"
    /\ \/ line.gutter \in {"name", "amp"}
       \/ line.ending = "amp" /\ ~(line.mark = "amp" /\ line.field = "none")

LineContinues(ending) == ending = "amp"
-----------------------------------------------------------------------------
(* History: the file read by the rules of the two forms.                   *)
(*                                                                         *)
(* pending is the set of answers to "is a free-form continuation open      *)
(* here?" over all ways to resolve the conditions; it is empty in code     *)
(* that is compiled in none.  An open conditional remembers the answers    *)
(* before it, at the end of its branches, and for the ways no branch has   *)
(* taken so far.                                                           *)

FreeLegal(line, open) ==
    \/ FreeComment(line)
    \/ open /\ line.ending # "operator"
    \/ /\ line.ending # "operator"
       /\ line.gutter \notin {"legacy", "amp"}
       /\ line.gutter \in {"blank", "digits"} =>
             /\ line.field # "comma"
             /\ \/ line.mark \in {"blank", "letter"}
                \/ line.mark = "digit" /\ (line.gap \/ line.label)

\* A comment card, a statement, or a continuation card.  A comment card that
\* ends in an ampersand cannot be told from a CALL.
FixedLegal(line) ==
    \/ FreeComment(line) /\ line.mark # "bang"
    \/ line.gutter = "legacy"
    \/ line.gutter \in {"cname", "blank", "digits", "tab"} /\ line.ending # "amp"

ReadLegal(line) ==
    [legal EXCEPT
        !.free = @ /\ \A open \in legal.pending : FreeLegal(line, open),
        !.fixed = @ /\ (legal.pending # {} => FixedLegal(line)),
        !.pending = IF FreeComment(line) THEN @
                    ELSE {LineContinues(line.ending) : open \in @}]

Possible(condition, set)  == IF condition = "false" THEN {} ELSE set
Remaining(condition, set) == IF condition = "true" THEN {} ELSE set

\* A statement continued into or out of a branch that may not be compiled.
Splits(line) == TRUE \in legal.pending /\ line.kind = "cpp" /\ line.word # "include"

Opened(condition) ==
    [legal EXCEPT !.pending = Possible(condition, @),
                  !.open = Append(@, [rest |-> Remaining(condition, legal.pending),
                                      exits |-> {}])]

Switched(condition) ==
    LET frame == Last(legal.open) IN
    [legal EXCEPT !.pending = Possible(condition, frame.rest),
                  !.open[Len(legal.open)] =
                      [rest |-> Remaining(condition, frame.rest),
                       exits |-> frame.exits \cup legal.pending]]

Closed == LET frame == Last(legal.open) IN
    [legal EXCEPT !.pending = @ \cup frame.rest \cup frame.exits, !.open = Front(@)]

DirectiveLegal(line) ==
    CASE line.word = "if"      -> Opened(Condition(line))
      [] line.word = "ifdef"   -> Opened("unknown")
      [] line.word = "else"    -> Switched("true")
      [] line.word = "elif"    -> Switched(Condition(line))
      [] line.word = "elifdef" -> Switched("unknown")
      [] line.word = "endif"   -> Closed
      [] OTHER                 -> legal

BranchesWith(line) ==
    LET top == Len(branches)
        condition == IF line.word \in {"ifdef", "elifdef"} THEN "unknown"
                     ELSE IF line.word = "else" THEN "true" ELSE Condition(line)
    IN  CASE line.word \in {"if", "ifdef"} -> Append(branches, <<condition>>)
          [] line.word \in {"else", "elif", "elifdef"} ->
                [branches EXCEPT ![top] = Append(@, condition)]
          [] line.word = "endif" -> Front(branches)
          [] OTHER -> branches
-----------------------------------------------------------------------------
NoEvidence == [free |-> FALSE, fixed |-> FALSE]

DetectInit ==
    /\ count = 0 /\ directive = FALSE /\ stack = <<>> /\ branches = <<>>
    /\ evidence = [t \in Tracks |-> NoEvidence]
    /\ previous = [t \in Tracks |-> "none"]
    /\ legal = [free |-> TRUE, fixed |-> TRUE, pending |-> {FALSE},
                split |-> FALSE, open |-> <<>>]

\* The second line of a directive is not looked at.
SkipContinued ==
    /\ directive
    /\ \E more \in BOOLEAN : directive' = more
    /\ UNCHANGED <<evidence, previous, stack, branches, legal>>

Directive(line) ==
    /\ ~directive /\ line.kind # "code"
    /\ line.word \in {"else", "elif", "elifdef", "endif"} => branches # <<>>
    /\ directive' = line.continues
    /\ IF line.kind = "cpp"
       THEN /\ stack' = UpdateCppActivity(line, stack)
            /\ branches' = BranchesWith(line)
            /\ legal' = [DirectiveLegal(line) EXCEPT !.split = @ \/ Splits(line)]
       ELSE UNCHANGED <<stack, branches, legal>>
    /\ UNCHANGED <<evidence, previous>>

\* A line of code that is not compiled.
SkipInactive(line) ==
    /\ ~directive /\ line.kind = "code" /\ CppActivity(stack) = "Inactive"
    /\ legal' = ReadLegal(line)
    /\ UNCHANGED <<directive, evidence, previous, stack, branches>>

\* Mutant: asked of the lines of a free-form continuation too.
FixedEvidence_Always(line, ending) ==
    FixedCommentSignature(line) \/ FixedContinuationSignature(line, ending)

FixedEvidence(line, ending) ==
    /\ ~LineContinues(ending)
    /\ FixedCommentSignature(line) \/ FixedContinuationSignature(line, ending)

ReadCode(line) ==
    LET track == IF CppActivity(stack) = "Active" THEN "active" ELSE "tentative"
    IN  /\ ~directive /\ line.kind = "code" /\ CppActivity(stack) # "Inactive"
        /\ evidence' = [evidence EXCEPT
              ![track].fixed = @ \/ FixedEvidence(line, previous[track]),
              ![track].free  = @ \/ (~FreeComment(line) /\ StrongFreeSignature(line))]
        /\ previous' = IF FreeComment(line) THEN previous
                       ELSE [previous EXCEPT ![track] = line.ending]
        /\ legal' = ReadLegal(line)
        /\ UNCHANGED <<directive, stack, branches>>

DetectNext ==
    /\ count < MaxSourceLines
    /\ count' = count + 1
    /\ \/ SkipContinued
       \/ \E line \in SourceLines : Directive(line) \/ SkipInactive(line) \/ ReadCode(line)

DetectSpec == DetectInit /\ [][DetectNext]_detectVars

\* The verdict on what was read so far.
StrongFree ==
    \/ evidence["active"].free
    \/ evidence["tentative"].free /\ ~evidence["tentative"].fixed
StrongFixed == evidence["active"].fixed

Detect == IF ~StrongFixed /\ StrongFree THEN "Free" ELSE "Fixed"

DetectPath(modern) == IF ~StrongFixed /\ (modern \/ StrongFree) THEN "Free" ELSE "Fixed"
-----------------------------------------------------------------------------
(* Properties *)

\* Code counts as compiled exactly when every way to resolve the conditions
\* compiles it, and as dropped exactly when none does: the frames, which keep
\* two values, say the same as the list of all conditions (update_cpp_activity).
ActivityExact ==
    LET Taken(conditions) ==
            LET last == Len(conditions) IN
            conditions[last] = "true" /\ \A i \in 1..(last - 1) : conditions[i] = "false"
        Dead(conditions) ==
            LET last == Len(conditions) IN
            conditions[last] = "false" \/ \E i \in 1..(last - 1) : conditions[i] = "true"
        open == 1..Len(branches)
    IN  /\ CppActivity(stack) = "Active" <=> \A i \in open : Taken(branches[i])
        /\ CppActivity(stack) = "Inactive" <=> \E i \in open : Dead(branches[i])

\* A file that is free form however its conditions come out shows no fixed
\* evidence (unless a statement is continued over a directive), and one that is
\* fixed form however they come out shows no free evidence: neither is
\* mistaken for the other (collect_evidence, detect).
EvidenceIsTruthful ==
    /\ legal.free /\ ~legal.split => DetectPath(TRUE) = "Free"
    /\ legal.fixed => Detect = "Fixed"

\* A file is taken for what it is.
FormIsRecognised == ActivityExact /\ EvidenceIsTruthful
=============================================================================
