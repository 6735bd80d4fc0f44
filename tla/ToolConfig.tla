----------------------------- MODULE ToolConfig -----------------------------
(***************************************************************************)
(* Where the settings of tool events come from: the command line and the   *)
(* environment at the start (cmd/claude-acp-adapter/options.go), then      *)
(* session/set_config_option (session_config.go, tool_observability.go).   *)
(* A word is a text with or without blanks around it.  What is not kept of *)
(* a text: letter case, and which of the many texts that are no value.     *)
(***************************************************************************)
EXTENDS Integers, SequencesExt

CONSTANTS
    Number,     \* the value of each text that is an integer
    Default     \* DefaultToolObservabilityConfig

Modes == {"off", "compact", "full"}
Options == {"toolEvents", "toolInputMaxBytes", "toolResultMaxBytes"}
OptionOf == [f \in {"--tool-events", "--tool-input-max-bytes",
                    "--tool-result-max-bytes"} |->
                CASE f = "--tool-events"           -> "toolEvents"
                  [] f = "--tool-input-max-bytes"  -> "toolInputMaxBytes"
                  [] f = "--tool-result-max-bytes" -> "toolResultMaxBytes"]
Flags == DOMAIN OptionOf

\* A start that fails, a request that is refused.
NoConfig == [o \in {} |-> 0]

ASSUME ConfigAssumption ==
    /\ Number \in [DOMAIN Number -> Int]
    /\ DOMAIN Number \cap (Modes \cup Flags) = {}
    /\ Default = [o \in Options |-> Default[o]]
    /\ Default["toolEvents"] \in Modes
    /\ Default["toolInputMaxBytes"] \in Nat /\ Default["toolResultMaxBytes"] \in Nat

Unset == [text |-> "", padded |-> FALSE]
IsFlag(w) == w.text \in Flags /\ ~w.padded

\* ParseToolEventMode, which trims; strconv.Atoi, which does not, then n >= 0.
IsValue(o, text) ==
    IF o = "toolEvents" THEN text \in Modes
    ELSE text \in DOMAIN Number /\ Number[text] >= 0
Value(o, text) == IF o = "toolEvents" THEN text ELSE Number[text]

EnvAccepts(o, w) == IsValue(o, w.text) /\ (w.padded => o = "toolEvents")
ArgAccepts(o, w) == IsValue(o, w.text)

\* Mutant: the environment is read as if the command line said nothing.
DetectNothing(args) == {}

\* detectCLIToolFlags: the word after a flag is its value, whatever it is.
DetectWord(acc, w) ==
    IF acc.value THEN [acc EXCEPT !.value = FALSE]
    ELSE IF IsFlag(w) THEN [set |-> acc.set \cup {OptionOf[w.text]}, value |-> TRUE]
    ELSE acc

DetectCLIToolFlags(args) == FoldLeft(DetectWord, [set |-> {}, value |-> FALSE], args).set

\* The environment sets what the command line does not mention.
FromEnv(cliSet, env) ==
    LET used == {o \in Options \ cliSet : env[o] # Unset}
    IN  IF \A o \in used : EnvAccepts(o, env[o])
        THEN [o \in Options |-> IF o \in used THEN Value(o, env[o].text) ELSE Default[o]]
        ELSE NoConfig

\* The second loop over the arguments, which stops at the first error.
TakeWord(acc, w) ==
    IF acc.config = NoConfig THEN acc
    ELSE IF acc.option # "none"
         THEN [config |-> IF ArgAccepts(acc.option, w)
                          THEN [acc.config EXCEPT ![acc.option] = Value(acc.option, w.text)]
                          ELSE NoConfig,
               option |-> "none"]
    ELSE IF IsFlag(w) THEN [acc EXCEPT !.option = OptionOf[w.text]]
    ELSE acc

FromArgs(config, args) ==
    LET end == FoldLeft(TakeWord, [config |-> config, option |-> "none"], args)
    IN  IF end.option = "none" THEN end.config ELSE NoConfig

LoadToolConfig(args, env) == FromArgs(FromEnv(DetectCLIToolFlags(args), env), args)

-----------------------------------------------------------------------------
\* session/set_config_option: a JSON value is a string, an integer, null or
\* something else.  json.Unmarshal of null leaves "" or 0 and no error.

ParsedString(v) ==
    CASE v.json = "string" -> <<v.text>>
      [] v.json = "null"   -> <<"">>
      [] OTHER             -> <<>>

ParsedInt(v) ==
    CASE v.json = "int"  -> <<v.num>>
      [] v.json = "null" -> <<0>>
      [] OTHER           -> <<>>

\* Mutant: the limit is not compared with zero.
AcceptsAnyInt(o, v) ==
    IF o = "toolEvents"
    THEN ParsedString(v) # <<>> /\ ParsedString(v)[1] \in Modes
    ELSE ParsedInt(v) # <<>>

OptionAccepts(o, v) ==
    IF o = "toolEvents"
    THEN ParsedString(v) # <<>> /\ ParsedString(v)[1] \in Modes
    ELSE ParsedInt(v) # <<>> /\ ParsedInt(v)[1] >= 0

SetOption(config, o, v) ==
    [config EXCEPT ![o] = IF o = "toolEvents" THEN ParsedString(v)[1] ELSE ParsedInt(v)[1]]
=============================================================================
