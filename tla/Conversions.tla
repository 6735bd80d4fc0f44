---------------------------- MODULE Conversions -----------------------------
(***************************************************************************)
(* One session as its data passes through the adapter: the settings of the *)
(* process are loaded, a session takes them over and the client changes    *)
(* them between prompts, the lines of a prompt's answer become events,     *)
(* updates and at last a stop reason.  The steps are in the order one      *)
(* session sees them; who runs them is in Service, Server and ClaudeTurn.  *)
(***************************************************************************)
EXTENDS ToolConfig, Transcript, Updates, McpServers, Subsequences

CONSTANTS
    ArgLists,   \* command lines
    Envs,       \* environments
    Values,     \* JSON values of session/set_config_option
    McpLists,   \* the mcpServers of session/new
    Records     \* lines of a transcript

\* What they may be: a text of a block is one of Texts, a number of a client
\* any integer, and there is a name for each server without one.
Word == [text : STRING, padded : BOOLEAN]
Payload == [raw : Seq(Byte), text : Whole]
Blocks == [type : STRING, text : Texts, data : Payload]
Lines == [type : {"ignored", "invalid", "unknown", "title", "assistant", "user"},
          role : STRING, blocks : Seq(Blocks), stop : STRING,
          usage : BOOLEAN, broken : BOOLEAN]

ASSUME InputAssumption ==
    /\ ArgLists \subseteq Seq(Word)
    /\ Envs \subseteq [Options -> Word]
    /\ Values \subseteq [json : {"string", "int", "null", "other"}, text : STRING, num : Int]
    /\ McpLists \subseteq Seq([name : STRING, type : STRING, command : BOOLEAN])
    /\ \A list \in McpLists : DOMAIN list \subseteq DOMAIN ServerName
    /\ Records \subseteq Lines

VARIABLES
    phase,      \* "start", "exit", "serve", "new", "session" or "prompt"
    args,       \* the command line, until the settings are loaded
    env,        \* the environment, likewise
    process,    \* the settings of the process, until the session has them
    servers,    \* the mcpServers of session/new, until the session is made
    file,       \* what the MCP file says, likewise
    config,     \* the settings of the session
    record,     \* the line read last, none between prompts
    updates,    \* the updates it became
    collected,  \* the assistant messages of the prompt
    answer      \* the stop reason the last prompt was answered with

vars == <<phase, args, env, process, servers, file, config, record, updates,
          collected, answer>>

NoRecord == [type |-> "none"]

TypeOK ==
    /\ phase \in {"start", "exit", "serve", "new", "session", "prompt"}
    /\ DOMAIN process \in {{}, Options} /\ DOMAIN config \in {{}, Options}
    /\ \A k \in DOMAIN updates :
          updates[k].type \in {"agent_message_chunk", "tool_call", "tool_call_update"}
    /\ collected.blank \in BOOLEAN
    /\ answer \in {"none", "end_turn", "max_tokens", "max_turn_requests", "refusal",
                   "error"}

Init ==
    /\ phase = "start"
    /\ args \in ArgLists /\ env \in Envs
    /\ process = NoConfig /\ config = NoConfig
    /\ servers = <<>> /\ file = NoServers
    /\ record = NoRecord /\ updates = <<>> /\ collected = Nothing
    /\ answer = "none"

\* run: settings that cannot be loaded end the program.
Run ==
    /\ phase = "start"
    /\ process' = LoadToolConfig(args, env)
    /\ phase' = IF process' = NoConfig THEN "exit" ELSE "serve"
    /\ UNCHANGED <<args, env, servers, file, config, record, updates, collected, answer>>

Exited == phase = "exit" /\ UNCHANGED vars

\* NewSession writes the MCP file, unless it refuses the request; then the
\* session starts with the settings of the process.
NewSession(list) ==
    /\ phase = "serve"
    /\ ~Refused(list)
    /\ servers' = list /\ file' = BuildMCPConfig(list)
    /\ phase' = "new" /\ args' = <<>> /\ env' = [o \in Options |-> Unset]
    /\ UNCHANGED <<process, config, record, updates, collected, answer>>

NewSessionRefused(list) ==
    /\ phase = "serve"
    /\ Refused(list)
    /\ UNCHANGED vars

NewSessionConfig ==
    /\ phase = "new"
    /\ config' = process
    /\ process' = NoConfig /\ servers' = <<>> /\ file' = NoServers
    /\ phase' = "session"
    /\ UNCHANGED <<args, env, record, updates, collected, answer>>

\* A value that is refused, and any value while a prompt runs, changes nothing.
SetConfigOption(o, v) ==
    /\ phase = "session"
    /\ OptionAccepts(o, v)
    /\ config' = SetOption(config, o, v)
    /\ UNCHANGED <<phase, args, env, process, servers, file, record, updates,
                   collected, answer>>

SetConfigOptionRefused(o, v) ==
    /\ phase = "prompt" \/ (phase = "session" /\ ~OptionAccepts(o, v))
    /\ UNCHANGED vars

StartPrompt ==
    /\ phase = "session"
    /\ phase' = "prompt" /\ collected' = Nothing /\ answer' = "none"
    /\ UNCHANGED <<args, env, process, servers, file, config, record, updates>>

\* A line of the answer: its events go to the client one by one, and a line
\* after the terminal one may still come with it.
ReadRecord(r) ==
    LET events == ParseTranscriptEvents(r)
    IN  /\ phase = "prompt"
        /\ record' = r
        /\ updates' = UpdatesOf(events, config)
        /\ collected' = Collect(collected, events)
        /\ UNCHANGED <<phase, args, env, process, servers, file, config, answer>>

CompletePrompt ==
    /\ phase = "prompt"
    /\ HasTerminalAssistant(collected)
    /\ answer' = StopReason(collected)
    /\ phase' = "session" /\ record' = NoRecord /\ updates' = <<>> /\ collected' = Nothing
    /\ UNCHANGED <<args, env, process, servers, file, config>>

Next ==
    \/ Run \/ Exited
    \/ \E list \in McpLists : NewSession(list) \/ NewSessionRefused(list)
    \/ NewSessionConfig
    \/ \E o \in Options, v \in Values : SetConfigOption(o, v) \/ SetConfigOptionRefused(o, v)
    \/ StartPrompt
    \/ \E r \in Records : ReadRecord(r)
    \/ CompletePrompt

Spec == Init /\ [][Next]_vars

-----------------------------------------------------------------------------
\* The settings of the process are, for each option, the value that comes last
\* on the command line, else the environment's, else the default; the start
\* fails on any value that is wrong, but not on one of the environment that
\* the command line overrides.
Given(o) == {i \in DOMAIN args : IsFlag(args[i]) /\ OptionOf[args[i].text] = o}
FromEnvironment(o) == Given(o) = {} /\ env[o] # Unset

Precedence ==
    phase \in {"serve", "exit"} =>
        /\ (phase = "serve") <=>
              \A o \in Options :
                 /\ \A i \in Given(o) : i < Len(args) /\ ArgAccepts(o, args[i + 1])
                 /\ FromEnvironment(o) => EnvAccepts(o, env[o])
        /\ phase = "serve" =>
              \A o \in Options :
                 process[o] = IF Given(o) # {} THEN Value(o, args[Max(Given(o)) + 1].text)
                              ELSE IF FromEnvironment(o) THEN Value(o, env[o].text)
                              ELSE Default[o]

\* ValidateToolObservabilityConfig, which nothing calls, would accept the
\* settings of every session, however the client changed them.
SettingsValid ==
    config # NoConfig =>
        /\ config["toolEvents"] \in Modes
        /\ config["toolInputMaxBytes"] >= 0 /\ config["toolResultMaxBytes"] >= 0

\* The servers of session/new are in the MCP file under their names.  One is
\* lost to a later one of the same name only, never to another nameless one.
McpServersKept ==
    phase = "new" =>
        \A i \in DOMAIN servers :
            \/ \E n \in DOMAIN file : file[n] = i
            \/ \E j \in DOMAIN servers :
                  /\ j > i /\ (servers[i].name # "" \/ servers[j].name # "")
                  /\ NameOf(servers, i) = NameOf(servers, j)

Chunks(us) == FlattenSeq([k \in DOMAIN us |->
    IF us[k].type = "agent_message_chunk" THEN us[k].parts ELSE <<"tool">>])
Items(blocks) == [k \in DOMAIN blocks |->
    IF blocks[k].type = "text" THEN blocks[k].text
    ELSE IF blocks[k].type = "tool_use" THEN "tool" ELSE "blank"]

\* The client gets the text and the tool calls of an assistant line once each
\* and in the order of the transcript, with tool events off the text alone.
TextAndToolsInOrder ==
    record.type = "assistant" /\ ~record.broken /\ record.role = "assistant" =>
        Among(Chunks(updates), {"word", "tool"}) =
        Among(Items(record.blocks),
              {"word"} \cup (IF config["toolEvents"] = "off" THEN {} ELSE {"tool"}))

\* A line with a terminal stop reason ends the turn, whatever its blocks are,
\* text or none, and nothing else does.
TerminalLineEnds ==
    record # NoRecord =>
        ((KindOf(record) = "final") <=>
            (/\ record.type = "assistant" /\ ~record.broken /\ record.role = "assistant"
             /\ record.stop \in Terminal))

\* A turn that the transcript completed is answered with a stop reason: the
\* reasons that complete it, in one package, are known to the other one.
CompletedHasReason == answer # "error"

\* An update says that it was cut exactly if what it carries was longer than
\* a limit, and how long that was; otherwise it carries all of it.
Payloads ==
    LET carrier == IF record.type = "assistant" THEN "tool_use" ELSE "tool_result"
    IN  Among(record.blocks, [type : {carrier}, text : Texts, data : Payload])
ToolUpdates == Among(updates, ToolUpdate)

Over(u, data) ==
    LET compact == config["toolEvents"] = "compact"
        input == config["toolInputMaxBytes"]
        result == config["toolResultMaxBytes"]
    IN  \/ u.type = "tool_call" /\ (Len(data.raw) > HardMax \/ (compact /\ Len(data.raw) > input /\ input # 0))
        \/ u.type = "tool_call_update" /\
              (\/ Len(data.text) > HardMax
               \/ IF compact THEN Len(data.text) > result /\ result # 0
                  ELSE Len(data.raw) > HardMax)

CutsMarked ==
    \A k \in DOMAIN ToolUpdates :
        LET u == ToolUpdates[k]
            data == Payloads[k].data
            whole == u.type = "tool_call" \/ config["toolEvents"] = "full"
            size == IF whole THEN Len(data.raw) ELSE Len(data.text)
        IN  /\ u.truncated <=> Over(u, data)
            /\ u.original = IF u.truncated THEN size ELSE 0
            /\ ~u.truncated => /\ whole => u.raw = data.raw
                               /\ u.type = "tool_call_update" => u.content = Len(data.text)

\* The client never decodes a text of a result that is longer than the limit,
\* unless the cut splits a rune: what is left of it, three bytes at most, is
\* U+FFFD byte by byte.  A preview of JSON is cut at the limit and then quoted:
\* the wire sees up to six times as much and five bytes.
Limit ==
    LET result == config["toolResultMaxBytes"]
    IN  IF config["toolEvents"] = "compact" /\ result # 0 /\ result < HardMax
        THEN result ELSE HardMax

WithinLimits ==
    \A k \in DOMAIN ToolUpdates :
        LET u == ToolUpdates[k]
        IN  /\ u.content <= Limit + 6
            /\ u.content > Limit => u.truncated /\ Open(Cut(Payloads[k].data.text, Limit)) > 0
            /\ Len(u.raw) <= 6 * HardMax + 5
=============================================================================
