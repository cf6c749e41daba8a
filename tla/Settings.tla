------------------------------ MODULE Settings ------------------------------
(***************************************************************************)
(* From options to the configuration of a run (src/src/cli/settings.rs,    *)
(* cli/parse.rs, config.rs, config/file.rs).                               *)
(*                                                                         *)
(* The command line and the nearest configuration file each give a layer   *)
(* of settings.  The file's layer is applied to the defaults in two        *)
(* phases, the command line's after it in the order it was written.        *)
(***************************************************************************)
EXTENDS Naturals, Sequences, SequencesExt, FiniteSetsExt

CONSTANTS SettingsGiven,  \* the settings that may be given
          MaxGiven,       \* bound on how many the layers hold together
          Directories     \* what the directories above the start may hold

Constructs == {"do", "if"}          \* stand for the fourteen of ConstructIndents
IndentFields == Constructs \cup {"indent", "contains_indent", "continuation_indent",
                                 "case_indent", "entry_indent"}
Modes == {"Full", "IndentOnly", "NormalizeOnly"}
Wraps(mode) == mode = "Full"

\* FormatConfig::default; "style" stands for a switch with a setting of its own.
DefaultSwitches ==
    [apply_indent |-> TRUE, contains_restart |-> FALSE, indent_continuation |-> TRUE,
     start_indent |-> 0, auto_start_indent |-> FALSE, mode |-> "Full", wrap |-> TRUE,
     rewrap |-> FALSE, refactor_end |-> FALSE, uppercase_end |-> FALSE, style |-> TRUE]

Default == [f \in IndentFields \cup DOMAIN DefaultSwitches |->
               IF f \in DOMAIN DefaultSwitches THEN DefaultSwitches[f]
               ELSE IF f \in {"case_indent", "entry_indent"} THEN 2 ELSE 3]

SettingIds == {"Indent", "DisableIndent", "ContainsIndent", "RestartContains",
               "ContinuationIndent", "NoContinuationIndent", "StartIndent",
               "StartIndentAuto", "Case", "Entry", "do", "if", "Mode", "Wrap", "NoWrap",
               "Rewrap", "RefactorEnd", "RefactorUpcase", "Style"}

ASSUME SettingsAssumption ==
    /\ SettingsGiven \subseteq [id : SettingIds, number : Nat, flag : BOOLEAN, mode : Modes]
    /\ MaxGiven \in Nat
    /\ Directories \subseteq [standalone : BOOLEAN,
                              pyproject : {"none", "no match", "match"}]

\* FormatConfig::set_indent
SetIndent(n) ==
    [f \in IndentFields |-> IF f \in {"case_indent", "entry_indent"} THEN n - (n \div 2) ELSE n]
    @@ [apply_indent |-> TRUE]

\* FormatSetting::apply, as the fields it writes.
Writes(setting) ==
    LET n == setting.number IN
    CASE setting.id = "Indent"               -> SetIndent(n)
      [] setting.id = "DisableIndent"        -> [apply_indent |-> FALSE]
      [] setting.id = "ContainsIndent"       -> [contains_indent |-> n, contains_restart |-> FALSE]
      [] setting.id = "RestartContains"      -> [contains_restart |-> TRUE]
      [] setting.id = "ContinuationIndent"   -> [continuation_indent |-> n,
                                                 indent_continuation |-> TRUE]
      [] setting.id = "NoContinuationIndent" -> [indent_continuation |-> FALSE]
      [] setting.id = "StartIndent"     -> [start_indent |-> n, auto_start_indent |-> FALSE]
      [] setting.id = "StartIndentAuto" -> [auto_start_indent |-> TRUE]
      [] setting.id = "Case"            -> [case_indent |-> n]
      [] setting.id = "Entry"           -> [entry_indent |-> n]
      [] setting.id \in Constructs      -> (setting.id :> n)
      [] setting.id = "Mode"            -> [mode |-> setting.mode]
      [] setting.id = "Wrap"            -> [wrap |-> setting.flag]
      [] setting.id = "Rewrap"          -> [rewrap |-> setting.flag]
      [] setting.id = "NoWrap"          -> [wrap |-> ~setting.flag]
      [] setting.id = "RefactorEnd"     -> [refactor_end |-> setting.flag, uppercase_end |-> FALSE]
      [] setting.id = "RefactorUpcase"  -> [refactor_end |-> TRUE, uppercase_end |-> TRUE]
      [] setting.id = "Style"           -> [style |-> setting.flag]

\* The option a setting belongs to: a file holds it once.
OptionOf(setting) ==
    CASE setting.id = "DisableIndent"        -> "Indent"
      [] setting.id = "RestartContains"      -> "ContainsIndent"
      [] setting.id = "NoContinuationIndent" -> "ContinuationIndent"
      [] setting.id = "StartIndentAuto"      -> "StartIndent"
      [] setting.id = "RefactorUpcase"       -> "RefactorEnd"
      [] OTHER                               -> setting.id

ConfigPhase(setting) == IF OptionOf(setting) = "Indent" THEN "Baseline" ELSE "Specific"

VARIABLES
    cli, file,    \* OptionLayers: format settings, and the other fields
    found,        \* a configuration file is read
    phase,        \* "writing", "refused early", "located", "refused" or "run"
    invocation    \* the merged settings of a run

setVars == <<cli, file, found, phase, invocation>>

NoLayer == [format |-> <<>>, exclude |-> {}, extend |-> <<>>, contexts |-> {}, free |-> {}]
-----------------------------------------------------------------------------
Written(writes, conf) ==
    [f \in DOMAIN conf |-> IF f \in DOMAIN writes THEN writes[f] ELSE conf[f]]

\* The loop over a layer's settings, of which it applies those at `chosen`.
ApplyThose(settings, chosen, base) ==
    LET conf[n \in 0..Len(settings)] ==
            IF n = 0 THEN base
            ELSE IF n \in chosen THEN Written(Writes(settings[n]), conf[n - 1])
            ELSE conf[n - 1]
    IN  conf[Len(settings)]

ApplyCli(base) == ApplyThose(cli.format, DOMAIN cli.format, base)

\* Mutant: the keys of the file are applied as they come.
ApplyConfig_OnePhase(layer, base) == ApplyThose(layer.format, DOMAIN layer.format, base)

ApplyConfig(layer, base) ==
    LET Of(when) == {i \in DOMAIN layer.format : ConfigPhase(layer.format[i]) = when}
    IN  ApplyThose(layer.format, Of("Specific"),
                   ApplyThose(layer.format, Of("Baseline"), base))

\* validate_format_config
Valid(conf) == conf.rewrap => Wraps(conf.mode)

\* config_args: the nearest directory that has a configuration is read, if any.
HasConfig(directory) == directory.standalone \/ directory.pyproject = "match"

ConfigArgs(selection, ancestors) ==
    selection = "explicit" \/ \E i \in 1..Len(ancestors) : HasConfig(ancestors[i])

FileLayer == IF found THEN file ELSE NoLayer

\* Option::or over the two layers; a field is a set of at most one value.
Or(first, second) == IF first # {} THEN first ELSE second

\* Mutant: the command line's settings are applied first.
Merged_FileLast(layer) == ApplyConfig(layer, ApplyCli(Default))

Merged(layer) == ApplyCli(ApplyConfig(layer, Default))
-----------------------------------------------------------------------------
SetInit ==
    /\ cli = NoLayer /\ file = NoLayer /\ phase = "writing" /\ invocation = NoLayer
    /\ found = FALSE

\* push_format: the command line repeats options, a file does not.
GiveCli == \E s \in SettingsGiven :
    cli' = [cli EXCEPT !.format = Append(@, s)] /\ UNCHANGED file

GiveKey == \E s \in SettingsGiven :
    /\ \A i \in 1..Len(file.format) : OptionOf(file.format[i]) # OptionOf(s)
    /\ file' = [file EXCEPT !.format = Append(@, s)] /\ UNCHANGED cli

\* The fields that are not settings of the formatter.
Widened(layer, name) ==
    {[layer EXCEPT !.exclude = {name}], [layer EXCEPT !.extend = <<name>>],
     [layer EXCEPT !.contexts = {name}], [layer EXCEPT !.free = {TRUE}]}

GiveOther ==
    \/ cli' \in Widened(cli, "cli") /\ UNCHANGED file
    \/ file' \in Widened(file, "file") /\ UNCHANGED cli

Size(layer) == Len(layer.format) + Len(layer.extend)
               + Cardinality(layer.exclude) + Cardinality(layer.contexts)

Write ==
    /\ phase = "writing" /\ Size(cli) + Size(file) < MaxGiven
    /\ GiveCli \/ GiveKey \/ GiveOther
    /\ UNCHANGED <<found, phase, invocation>>

\* parse_inner: the command line is validated before the file is looked for.
RefuseEarly ==
    /\ phase = "writing" /\ ~Valid(ApplyCli(Default))
    /\ phase' = "refused early"
    /\ UNCHANGED <<cli, file, found, invocation>>

\* --config names a file, --no-config none; otherwise it is searched for.
Locate ==
    /\ phase = "writing" /\ Valid(ApplyCli(Default))
    /\ phase' = "located"
    /\ \/ \E selection \in {"search", "explicit"} :
          \E ancestors \in UNION {[1..n -> Directories] : n \in 0..2} :
             found' = ConfigArgs(selection, ancestors)
       \/ found' = FALSE
    /\ UNCHANGED <<cli, file, invocation>>

\* unscoped: the run is isolated, asks for a form or lists its files.
Merge == \E unscoped \in BOOLEAN :
    /\ phase = "located"
    /\ phase' = IF Valid(Merged(FileLayer)) THEN "run" ELSE "refused"
    /\ invocation' = [format   |-> Merged(FileLayer),
                      exclude  |-> Or(cli.exclude, FileLayer.exclude),
                      extend   |-> FileLayer.extend \o cli.extend,
                      contexts |-> Or(cli.contexts, IF unscoped THEN {} ELSE FileLayer.contexts),
                      free     |-> Or(cli.free, FileLayer.free)]
    /\ UNCHANGED <<cli, file, found>>

SetNext == Write \/ RefuseEarly \/ Locate \/ Merge
SetSpec == SetInit /\ [][SetNext]_setVars
-----------------------------------------------------------------------------
(* Properties *)

\* The value a field ends with: the last option of the command line that
\* writes it; else the file's own key for it, wherever it stands in the file
\* (the last one: `wrap` and `no-wrap` are two); else what the file's global
\* indent derives; else the default.
Layered(f) ==
    LET Writers(settings) == {i \in 1..Len(settings) : f \in DOMAIN Writes(settings[i])}
        keys == FileLayer.format
        specific == {i \in Writers(keys) : ConfigPhase(keys[i]) = "Specific"}
    IN  CASE Writers(cli.format) # {} -> Writes(cli.format[Max(Writers(cli.format))])[f]
          [] Writers(cli.format) = {} /\ specific # {} ->
                Writes(keys[Max(specific)])[f]
          [] Writers(cli.format) = {} /\ specific = {} /\ Writers(keys) # {} ->
                Writes(keys[Max(Writers(keys))])[f]
          [] OTHER -> Default[f]

SettingsAreLayered ==
    phase \in {"run", "refused"} => \A f \in DOMAIN Default : invocation.format[f] = Layered(f)

\* A command line that is refused before the configuration file is read would
\* be refused with it, whatever the file says: no key of the file could have
\* mended it (docs/options.md:408, parse_inner and parse validate apart).
EarlyRefusalIsRight == phase = "refused early" => ~Valid(Merged(file))

\* A run is given the settings that were asked for, or refused.
SettingsAreRight == SettingsAreLayered /\ EarlyRefusalIsRight
=============================================================================
