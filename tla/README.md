# claude-acp-adapter: a TLA+ model, its checks and its proofs

The program is an ACP (Agent Client Protocol) agent on stdin/stdout. For every
ACP session it keeps an interactive Claude in a tmux pane, types each prompt
into the pane, and follows Claude's transcript file to turn what it reads into
`session/update` messages and one response per prompt. This directory holds TLA+
modules of its concurrent core and of the data that passes through it, the TLC
configurations that check them, and proofs for TLAPS. `PROJECT.json` is the index: components, runs, the source lines
behind every definition, hazards, findings, mutants, theorems.

    tlc -workers 2 -config ServiceLive.cfg MCService.tla     # a run
    tlapm Service_proofs.tla                                 # a module of proofs, as
                    # OneCaller_proofs, Server_proofs, ClaudeTurn_proofs, Ownership_proofs,
                    # Conversation_proofs, Conversions_proofs and SequenceFacts

## 1. Inventory

| Component | Code | State | Operations |
|---|---|---|---|
| ACP server | `internal/acp/server.go` | the scan channel (capacity 1), the handlers' WaitGroup, stdout | `Serve`, `scan`, `handleLine`, `startPrompt`, `dispatch`, `write`, `SessionUpdate` |
| Service | `internal/app/service.go`, `prompt.go` | `closing`, the registry | `Initialize`, `NewSession`, `StartPrompt`, `CancelSession`, `CloseSession`, `SetSessionModel`, `SetSessionConfigOption`, `Shutdown`, `PromptTurn.Run` |
| Session | `session_registry.go`, `session_config.go`, `tool_observability.go` | `active` (the one turn), `Transport`, `Config` | `beginTurn`, `finishTurn`, `startCancel`, `completeCancel`, `waitCancelResult`, `setSessionModel` |
| MCP config file | `mcp.go` | a file per session | write at `session/new`, remove at cleanup |
| Claude client | `claude/client.go`, `client_wait.go`, `turn.go`, `transcript_wait.go` | `queryMu`, `promptSent`, the turn's context and start offset | `Connect`, `StartTurn`/`runTurn`, `Cancel`, `Disconnect` |
| Transcript reader | `transcript.go`, `transcript_events.go`, `session.go` | `offset` | `ReadNewEvents`, `parseTranscriptEvents`, `hasTerminalAssistant`, discovery |
| Stop hook and FIFO | `fifo.go` | the `.turn` file, the FIFO, `payloads` (capacity 8) | `stopHookCommand`, `readLoop`, `Drain`, `Stop` |
| tmux session | `tmux.go` | a tmux server outside the program | `Launch`, `WaitReady`, `PastePrompt`, `Interrupt`, `Kill` |
| Ownership and cleanup | `ownership.go`, `cleanup.go` | marker files, FIFOs, `activeSessions` | `CleanupStaleOwnedSessions`, `CleanupActiveSessions`, `cleanupActiveSession` |
| Updates | `app/updates.go` | none | `updateFromTranscriptEvent`, `truncateJSONPreview` |
| JSON-RPC | `acp/jsonrpc.go`, `acp/types.go` | none | decoding, ids, error codes |
| Command line | `cmd/claude-acp-adapter` | `serviceOptions` | `run`, `loadToolConfig`, `detectCLIToolFlags`, `runACP`, `runQuery` |
| Environment, diagnostics | `runtime_env.go`, `shell.go`, `diagnostics.go` | none | strings, stderr |

How they interact. The scan goroutine puts lines into a channel. The `Serve`
goroutine takes them one at a time and calls the service; it is the service's
only caller, and it runs `Shutdown` itself when it leaves its loop. An accepted
prompt gets a handler goroutine that runs `PromptTurn.Run`, writes the updates
and at last the response. `Run` starts `runTurn` in the Claude client on a
goroutine of its own, and receives its events and its one result over channels.
A cancel does not go through that goroutine: it marks the session's active turn,
sends C-c to the pane, reports the result of that with the turn (`cancelDone`,
`cancelErr`) and cancels its context. Claude, tmux and the file system are shared
with other adapter processes: markers and tmux sessions outlive a crash and are
cleaned up by whichever process starts next.

What is hard, and what correctness means:

* **The slot of a session.** `finishTurn`, `completeCancel`, `waitCancelResult` and
  `isCancelling` act on `Session.active` without naming a turn, each in a lock
  section of its own. Correct: the slot always holds the turn they mean, a turn
  that waits for its cancel result gets one, and what `Run` reads without the lock
  does not change under it.
* **Who answers, in which order.** The dispatcher answers refused prompts, the
  handler accepted ones, nobody a notification. Correct: once each, after all
  updates, with the slot free; and `Serve` returns in the promised way.
* **Whose output.** All turns of a session share one growing file and one FIFO. Late
  lines, half-written lines and late hooks of one turn meet the next one. Correct:
  a turn's events are the lines of its own message and it ends by its own record.
* **Giving up.** A context may end at any of a turn's waits, or while a tmux
  command runs. Correct: the turn ends and Claude is not left working.
* **A Disconnect that fails.** It sets the client's `stopReader` to nil first and
  leaves the client connected when Claude cannot be killed. Correct: no later turn
  gets to use the nil reader.
* **The end of a turn, seen by three packages.** A line's terminal stop reason has to
  survive its blocks, be known to the loop that waits for it, and to the service
  that answers with it. Correct: one line ends the turn, and it ends with a reason.
* **Which settings hold.** Two passes over the command line, the environment, the
  defaults, then the client. Correct: the last word wins, and no value is illegal.
* **Cuts.** A payload may be cut twice. Correct: the client is told so, with the
  length it had, and nothing else is lost or reordered.
* **Evidence.** A tmux session must stay findable until it is gone, whatever
  overlaps, fails or crashes; and an exit must not hang on a stubborn Claude.

`PROJECT.json` lists each hazard at its line with the property that watches it.

## 2. Modules

    Service <----------- EXTENDS ----------- Server        Conversation
       ^                                       ^               ^ implements
    Service_proofs <-- OneCaller_proofs <-- Server_proofs   ClaudeTurn <-- ClaudeTurn_proofs
                                                                              ^
    Ownership <-- Ownership_proofs         SequenceFacts <------- Conversation_proofs
                                                 ^
    Conversions <------------------------ Conversions_proofs
         |
         +--EXTENDS--> ToolConfig, Transcript, Updates, McpServers

    (MC modules: MCService, MCServer, MCOwnership, MCConversions; Subsequences, one
    operator, is used by ClaudeTurn, Conversions and SequenceFacts)

**Service** is the application layer. One lock section of the code is one atomic
step. `call[c]` is the API call caller `c` is in: `pc` says between which two
steps it is, the other fields hold its local variables. `run[t]` is where
`PromptTurn.Run` is for turn `t`:

| Code | Actions |
|---|---|
| `NewSession` | `NewRefused`, `NewSession`, `NewConnect`, `NewConnectFails`, `NewAdd` |
| `StartPrompt` | `PromptRefused`, `StartPrompt`, `BeginTurn`, `BeginTurnBusy` |
| `CancelSession`, `CloseSession`, `cleanup` | `CancelUnknown`, `CancelSession`, `CloseUnknown`, `CloseSession`, then `NothingToCancel` or `StartCancel`, `Interrupt`, `CompleteCancel`, and `Disconnect` |
| `Shutdown` | `Shutdown`, `ShutdownNext`, the cancel steps, `Disconnect`, `ShutdownEnds` |
| `SetSessionModel`, `SetSessionConfigOption` | `SetRefused`, `SetConfigValue`, `SameModel`, `SetSessionModel`, `SetConnect`, `SetConnectFails`, `Swap`, `SwapRefused`, `DropOld` |
| `PromptTurn.Run` | `RunStart`, `RunEvent`, `RunDone`, `RunWait`, `RunUnblock`, `RunCheck`, `RunFinish` |
| the Claude client (outside) | `TurnEmits`, `TurnEnds`, the failing `Connect` and `Interrupt` |

`CompleteCancel` is `completeCancel` and the `cancel()` after it (`service.go:146-147`)
in one step. What could tell them apart is a turn whose result is recorded and whose
context still lives. `RunCheck` reads the context, but or-ed with the mark that
`startCancel` made before; the transport may end the turn with any result at any time,
before or after its context; `Disconnect` follows `cancel()` on the same goroutine; and
for a turn that is over the call does nothing.

Data kept: of a result its error, the stop reason of its last message and whether
the text is blank; of the configuration the model (it needs a new transport) and
the tool mode (it decides what is shown); everything else of a request is
"valid" or not.

**Server** extends Service with one caller, the `Dispatcher`. Its actions are the
goroutines of `server.go`: `Scan*`, `Handle*`/`DispatchStep`/`Respond`, the exits
`SelectDone` (context), `SelectEof` (end of input), `SelectError` (scan error) with
`Stop`, `Stopped`, `Unwind`, `Waited`, and the handlers `HandlerRuns`,
`HandlerResponds`. `out` is stdout. What a line asks for is chosen when the line is
handled; its number is its id. An API call is entered in the same step that takes
the line from the channel. `Service` is thus its abstract specification:
`ServerImplementsService` says that every step of the server is a step of the
service or leaves it alone, and is proved.

**ClaudeTurn** is `runTurn` step by step against a file, a FIFO, an input box and a
Claude that work at their own pace. Line `k` occupies bytes `2(k-1)` and `2(k-1)+1`
and a half-written line one byte, so that a file size may fall inside a line, as
it may in the code. The prompt sign may show while the last line of a message is still
half written, so that a turn's start offset may lie inside it. A message records the set of prompts it was made of, so that two
prompts run together can be told from one. The four kinds of line are the
cases `waitForAssistantMessages` and `hasTerminalAssistant` tell apart, and the line
beyond `maxTranscriptLineBytes`. `client` is what `Disconnect` left: connected, in
the middle of it ("closing"), still there without a reader because the kill failed
("lame"), or gone. Turns may begin in the last two, since the service installs a turn
in one step and runs it in another.

**Conversation** is what ClaudeTurn promises to its caller, without a file, an
offset, a pane or a pipe: each prompt has an answer of its own that grows line by line,
and a turn delivers it from the first line on, in order, each line once, until it
ends with one result: "ok" on an answer only, "gaveup" only when its caller left,
"failed" at any time. `ImplementsConversation` is the
refinement, with `answers[t]` mapped to the lines of the file that belong to `t`,
`running` to `pc # "idle"` and `left` to `ctxDone`. It is what Service assumes of
its transport: events, then one result (`TurnEmits`, `TurnEnds`), an end after the
context's end. The last part is `TurnEnds` of ClaudeTurn.

**ToolConfig**, **Transcript**, **Updates** and **McpServers** are the sequential parts
as operators, translated function by function: the two passes of `options.go` and
the values of `session/set_config_option`; the events of a transcript line, what is
collected of them and which reason answers the prompt; the update of an event with
the cuts of its payload; the names of the MCP file. Text is kept as a word, a blank
or nothing. A payload is a sequence of bytes, of which it is kept as how many
bytes the JSON encoder writes them and which places they have in a rune: a cut may
split a rune, and what is left of it is written, and decoded by the client, as U+FFFD
byte by byte (`Broken`, `Decoded`). `Transcript!KindOf` says which of ClaudeTurn's
kinds a line is.

**Conversions** is the machine that runs them over one session: `Run` loads the
settings or exits, `NewSession` writes the MCP file, `NewSessionConfig` copies the
settings, `SetConfigOption` changes them between prompts, `ReadRecord` turns a line
into updates and collects, `CompletePrompt` answers. It says nothing about who runs
when; that is in the other modules. `KindOf`, `HasTerminalAssistant` and `Shown` are
where they meet.

**Ownership** is several adapter processes over the same tmux server and temporary
directory: start-up cleanup, `Connect`, `Disconnect`, `Kill` in its five steps,
exit, signal and crash. A process does one thing at a time, as the code does:
those calls all run on one goroutine. `Kill`'s result and a later `IsAlive` are separate
steps, because another process may act between them.

## 3. Runs

Every property of a passing run has a mutant in `PROJECT.json`: a plausible bug
in one definition under which TLC finds the property violated.

| Run (cfg) | Bounds | Shows |
|---|---|---|
| `ServiceLive` | 1 caller, 1 session, 2 turns, 1 transport | the types; `SlotConsistent`; `NoPhantomCancelFailure`: a cancel's late result does not reach the next prompt; `ReleasedTurnsCancelled`: no turn goes on with a live context on a transport that was released; `CancelledTurnReturns`, `ShutdownEndsTurns` under fairness |
| `ServiceCallers` | 2 callers, 1 session, 1 turn with 1 event, 2 transports, 2 models | `CancelHasOwner`, `ConfigFrozen` when two calls overlap with a turn |
| `ServerPrompts` | 3 lines, 2 turns, 2 transports, 1 event per turn | `AnsweredOnce`, `SlotFreeOnAnswer`, `UpdatesPrecedeResponse`, `EndOfInputAnswersPrompts`, `ReturnLeavesNothing` |
| `ServerLive` | 3 lines, 1 turn | `ServeReturns`, `CancelledPromptAnswered` |
| `TurnStream` | 2 turns, 2 lines in all (a huge one counts twice), channel of 1, with a timeout | `ImplementsConversation`, `StreamFaithful`, `CompletedByOwnRecord`, `GivenUpIsInterrupted`, `NilReaderUnused`, and `TurnEnds` under fairness |
| `Conversions` | 4 words, 18 environments, 3 servers, lines of up to 3 blocks, payloads of up to 10 bytes, limits 2, 4 and 6 | `Precedence`, `SettingsValid`, `McpServersKept`, `TextAndToolsInOrder`, `TerminalLineEnds`, `CompletedHasReason`, `CutsMarked`, `WithinLimits` |
| `OwnerEvidence` | 2 processes, 2 sessions | `EvidenceKept`, `ExitAccounts` |
| `OwnerLive` | 2 processes, 1 session, failing probes | `SignalEnds` |
| `ServiceRecancel` | violated | a repeated cancel overwrites the result of the first |
| `TurnOversize` | violated | one oversized line fails every later turn |
| `TurnPaste` | violated | two prompts are submitted as one |
| `OwnerClose` | violated | a close that a signal cuts short gives up the evidence of a session it failed to kill |

Why the bounds are enough to meet the interesting cases:

* *Callers.* The program has one, the `Serve` goroutine, and `ServiceLive` and
  the `Server` runs take one. `Service` is written with locks for concurrent
  callers, so `ServiceCallers` takes two: two are needed for a model change that
  overlaps a prompt, and for a cancel that overlaps a cancel or a shutdown.
* *Turns.* Two: a late effect of one turn (a cancel result, a line, a hook)
  needs a next turn to fall on. The safety properties are also proved for any
  number (section 4).
* *Lines.* Three lines give `session/new`, `session/prompt` and one more: a second
  prompt, a cancel, a close, a model change.
* *File.* Two lines give one that is late, oversized or half written when the next turn
  starts, and the record that ends that turn; the payload channel of capacity 1 is
  full with one hook, and two terminal records make two. A third line makes
  1.5 million states, in which the safety properties and the refinement hold too, but
  `TurnEnds` takes TLC too long; all but `TurnEnds` is proved for any number of lines.
* *Words.* Four give a flag with its value twice, two flags, a flag as the value
  of a flag and a flag without a value. The environment has a wrong value for each
  option, which a flag may or may not hide.
* *Lines and payloads.* Three blocks put a text before, between and after tools. The
  payloads are shorter than every limit, between them, and longer than all of
  them, of bytes that are written as one, two and six and of runes of several bytes,
  which a cut splits after the first, the second or the third; a limit above the
  hard one lets a preview be cut again.
* *Ownership.* Two processes overlap two cleanups; two sessions let one process
  have a live one while it loses another.

`MaxEvents`, `MaxLines`, `MaxTurns` and `PayloadCap`, the sets of inputs of
`MCConversions` and the finite `Sessions`, `Turns` and
`Transports`, are the only bounds; when they are used up the corresponding request is
not made. Symmetry is used where only invariants and action properties are checked.

Deadlock is checked except in the two passing `Ownership` runs (and `OwnerClose`),
where every process may have ended or crashed. In `Server` the final state is an
explicit stutter (`Terminated`): any other state without a successor is an error.

### Fairness

* `Service`: a caller in the middle of a call goes on, `Run` goes on, and the
  transport ends a turn whose context is done (that is `TurnEnds` of
  ClaudeTurn). Nothing makes a client call, or a turn end that nobody cancelled.
* `Server`: the same, as long as the process lives (`serve # "returned"`). The
  scan goroutine's ways out of a channel send and its end at a closed stdin are
  weakly fair, as is the `Serve` goroutine; a read of an open stdin may block forever,
  so `ScanLine` and `ScanFails` are not. With finitely many lines weak fairness also
  covers the `select` of `Serve`, which may prefer a waiting line to the done context.
* `ClaudeTurn`: `runTurn` goes on; strong fairness of `GiveUp` only, because a Go
  `select` with several ready cases chooses at random, so a context that stays
  done is not passed over forever. Claude, the hook and the reader owe nothing.
* `Ownership`: a `Kill` goes on without the help of a failing probe, and a process
  that was told to stop goes through `Shutdown`. Claude need not exit.

### Assumptions a reader should know

* `EvidenceKept` and `ExitAccounts` are checked with `ProbesFail = FALSE`: a tmux
  command on a live session finishes within its context. `IsAlive`
  (`tmux.go:133`) reads "no answer" as "dead", and with `ProbesFail = TRUE` the
  evidence of a live session can go. A signal that ends the context of a
  `session/close` does the same with probes that finish: that case is excepted
  (`CloseCutShort`) and is what `OwnerClose` shows.
* Connect is much shorter than the marker age of 30 minutes (`Age`).
* In `ServiceLive` there is one caller, as in the program. With two, a prompt may
  begin between the `startCancel` of a close and its `Disconnect`, and
  `ReleasedTurnsCancelled` does not hold. `NilReaderUnused` rests on it: ClaudeTurn
  lets a turn begin on a "lame" client with its context done only, and disconnects a
  client with a turn running only when that turn's context is done.
* The Claude of ClaudeTurn shows the prompt sign only between messages, stops on C-c
  and appends whole lines in order. It begins no line of a message after the prompt sign
  (it may still end one), and no text after the terminal record of the message. This is
  what the adapter relies on: a line is told from another turn's by its place only.
* tmux may fail to pass on the interrupt of a turn that is given up; the code ignores
  the error (`client.go:159`). Such a turn counts as "failed", as does one whose `send-keys
  Enter` was killed after tmux did it (`TmuxFails` at "entering"): `promptSent` is still
  false then, and Claude works on uninterrupted. `GivenUpIsInterrupted` is about the others.
* A read may fail at any time (`ReadFails`: the file cannot be opened or read).
* The transcript is UTF-8: a text, before it is cut, ends with a whole rune.

### Findings

The four violated properties each state a sentence of the repository's own
documents; `PROJECT.json` quotes it. In short: `completeCancel` reassigns
`cancelErr` on every cancel (`service.go:217`; the PRD calls cancellation
idempotent). `ReadNewEvents` never moves past an oversized line
(`transcript.go:63`). `promptSent` is set after both tmux commands of
`PastePrompt`, so a context that ends between them leaves text in the input box
(`client.go:173`). `cleanupActiveSession` asks whether a session outlived its `Kill` with
a context that may be done, and takes no answer for "dead" (`cleanup.go:50`): a signal
during a `session/close` removes what is needed to find a live session.

Seen while modelling, without a run: a cancel that begins between `waitCancelResult`
and `isCancelling` makes a prompt end as cancelled before its interrupt has a
result (`service.go:127-130`); a `tmux new-session` killed by its context may leave a
session without a marker (`client.go:94`); the marker of a dead session is passed
over at every start and never removed (`ownership.go:118`); the `.turn` file may be
written after `Disconnect` removed it (`client.go:170`); with concurrent callers,
`NewSession` could register a session after `Shutdown` took its snapshot
(`service.go:72`); a stop reason outside the five of `transcript.go:138`
keeps a prompt waiting until it is cancelled; JSON null sets a limit to 0, that is to
none (`tool_observability.go:77`); a preview may be longer than its limit
(`updates.go:200`: `WithinLimits` bounds it by six times the hard limit and five
bytes), where `docs/PRD-009-tool-event-observability.md` gives a number of bytes; a cut
inside a rune (`updates.go:68`, `:78`) leaves up to three bytes that `json.Marshal` writes as
U+FFFD (`:144`), so that the client decodes up to six bytes more than the limit, hard or
not, which the tests (`updates_test.go:310`, `:346`) measure with ASCII only; README.md:95-97
offers `--tool-events` and the limits to `query`, whose flag set does not know them
(`main.go:57`), so that `run` accepts and `runQuery` refuses them.

## 4. Proofs

Every invariant and every action property of the passing runs, and both refinements,
are proved for all values of the constants.

| Module | Theorem | States |
|---|---|---|
| `Service_proofs` | `TypeCorrect` | `Spec => []TypeOK` |
| | `SlotExclusive` | `Spec => []SlotConsistent` |
| | `CancelNeverStranded` | `Spec => []CancelHasOwner` |
| | `TurnConfigFrozen` | `Spec => ConfigFrozen` |
| `OneCaller_proofs` | `NoPhantom` | `Spec => []NoPhantomCancelFailure`, for one caller |
| | `ReleasedCancelled` | `Spec => []ReleasedTurnsCancelled`, for one caller |
| `Server_proofs` | `ServerRefinesService` | `ServerSpec => Spec` |
| | `ServerKeepsSlots`, `ServerKeepsTurnsApart` | the service's invariants, of the server |
| | `ServerTypeCorrect` | `ServerSpec => []ServerTypeOK` |
| | `EachAnsweredOnce` | `ServerSpec => []AnsweredOnce` |
| | `SlotFreeBeforeAnswer` | `ServerSpec => []SlotFreeOnAnswer` |
| | `UpdatesComeFirst` | `ServerSpec => []UpdatesPrecedeResponse` |
| | `EndOfInputAnswers` | `ServerSpec => []EndOfInputAnswersPrompts` |
| | `NothingIsLeft` | `ServerSpec => []ReturnLeavesNothing` |
| `ClaudeTurn_proofs` | `TypeCorrect` | `Spec => []TypeOK` |
| | `NilReaderNeverUsed` | `Spec => []NilReaderUnused` |
| | `OwnRecordCompletes` | `Spec => []CompletedByOwnRecord` |
| | `GivenUpInterrupted` | `Spec => []GivenUpIsInterrupted` |
| `Conversation_proofs` | `StreamsFaithful` | `Spec => []StreamFaithful` |
| | `ConversationImplemented` | `Spec => ImplementsConversation` |
| `Conversions_proofs` | `ConversionsTypes` | `Spec => []TypeOK` |
| | `SettingsPrecedence` | `Spec => []Precedence` |
| | `SettingsStayValid` | `Spec => []SettingsValid` |
| | `ServersInFile` | `Spec => []McpServersKept` |
| | `LinesInOrder` | `Spec => []TextAndToolsInOrder` |
| | `TurnsEndAtTerminalLines` | `Spec => []TerminalLineEnds` |
| | `CompletedTurnsHaveReasons` | `Spec => []CompletedHasReason` |
| | `CutsAreMarked` | `Spec => []CutsMarked` |
| | `UpdatesWithinLimits` | `Spec => []WithinLimits` |
| `Ownership_proofs` | `TypeCorrect` | `Spec => []TypeOK` |
| | `EvidenceNeverLost` | `Spec => []EvidenceKept`, if `~ProbesFail` |
| | `ExitLeavesAccount` | `Spec => []ExitAccounts`, if `~ProbesFail` |

The assumptions are `ServiceAssumption` (`None` is none of the values, the default
model is a model), `ServerAssumption` (one caller), `TurnAssumption` (the bounds are
numbers, the channel holds at least one payload), `OwnershipAssumption` (`None`
again), and four about the data: `ConfigAssumption` (the defaults are valid, and no
number is spelled like a flag or a mode), `HardMaxAssumption` (the hard limit is
positive), `ServerNameAssumption` (the names `server-<i>` differ) and
`InputAssumption` (what a word, a JSON value, a server and a line are; nothing about
how long or how many they may be). TLC evaluates them. Two theorems are about a service with one caller and two
about probes that finish; both hypotheses are needed, as section 3 says.

*Service.* Neither `SlotConsistent` nor `CancelHasOwner` is inductive. A call
between two lock sections holds a session, a turn or a transport in its locals, and
nothing in `SlotConsistent` says that the turn `BeginTurn` is about to install is not
in use already. `IInv` in `Service_proofs` adds exactly what calls know:
`CallsKnow` (at each `pc` the locals that the next steps use are there; a turn to be
begun is unused; a turn to be interrupted is marked and belongs to the call's
session), `CallsApart` (two calls are never about to make the same turn or the
same session), `SessionsKnow` (a registered session has a transport) and
`TurnsKnow` (a turn that was begun has a session; an unused one bears no mark of a
cancel; after the stream it has a result). Types come first (`TypeStep`), because all
else needs the range of `call[c]`. Most steps of calls leave slots and turns alone
(`Frame`) and differ only in what their caller knows next: `FrameStep` handles them
all. `CancelHasOwner` survives `RunFinish` and `CompleteCancel` because of
`SlotConsistent`: the turn in the slot is the turn `startCancel` saw, or that one has
returned.

*One caller.* `OInv` says what a call may rely on when no other call overlaps it
(`CallHolds`): the turn in the slot is the one it cancels or none; a session is out of
the registry while it is cleaned up, and registered until a prompt has begun on it or its
model is swapped. With it no two sessions share a transport and registered ones are
connected (`TransportsKnow`), and whatever is connected or on disk belongs to a
registered session or to the call (`NothingLost`). `completeCancel` can then mark the
turn it saw only, and `Disconnect` finds the context of the session's turn done.

*Server.* Its variables include Service's, so the mapping is the identity, and
`StepImplements` sorts server steps into calls, steps of a turn, `CancelParent` and
stutters. `SInv` follows a request on its way: it is to come (`Coming`: not written, with the
scan goroutine or in the channel, once), then current, then the request of one turn
(`RequestInv`), and at each point `CountInv` says how many answers it has. A turn of
the current request was made by a call that is about to return "ok", so `Respond`
leaves it to its handler. The five properties of answers follow from that. `LeftInv`
(nothing is registered once the shutdown is over) and `NothingLost` give
`NothingIsLeft`.

*ClaudeTurn.* `ReaderInv` is about the reader alone: a turn past its start took one, and
only a turn with a live context gets past it. `FileInv` is why a turn's lines are its
own: Claude begins no line between the prompt sign and Enter, so every line that begins at
the turn's start offset or after it belongs to a message that has the turn in it, the one
that is being written included. `EventsInv` carries
that to the batch that was read, the events that were sent and the record that ends the
turn. `InputInv` says that what waits in the input box was never submitted, so that a
turn that gave up after Enter is the one Claude works on when it is interrupted.

*Ownership.* A session is `Settled` once its Connect is over, and only settled sessions
are killed (`KillKnows`): "dead" in a `Kill` means that the session is not in tmux, and
it stays so. The evidence of a connected session goes in `CleanUp` only, after that.
`AccountInv` relates the registry of a process to what it tried, step by step until it
exits.

*Conversation.* Two things are left to show of the stream of a turn: that nothing of an
earlier answer is in it and that nothing of its own is skipped. `FutureInv` says that no
line is of a prompt that was not pasted yet, so that the whole answer of a turn lies
from its start offset on. `OffsetInv` keeps the read offset even, that is at the beginning
of a line, while the start offset may be odd: then it is inside a line of an earlier
message, and `First`, the number of lines that are not the turn's, counts that one.
`StreamInv` says that the turn's answer is the file after the first `First` lines, and that
what was sent and what waits in the batch is its beginning, element by element, as far as
the file was read. `CollectInv` ties the last collected message to the last text that was sent; it
is why a turn that ends with "ok" has an answer in the sense of Conversation. Steps of
the file, the pane and the channel are stutters of Conversation (`Silent`) or its `Write`.

*Conversions.* The invariant is what a phase knows (`SettingsInv`, `FileInv`,
`PromptInv`): the settings are those loaded of the arguments, the file is the one built
from the request, the updates are those of the line read last. The work is in the
operators, which are folds over words, servers, blocks and events of any number.
`LoadFacts` follows both passes over the command line at once: as long as no value is
wrong (`Clean`) the first pass finds exactly the flags that are given (`DetectedAll`)
and the second one holds for each option the value of its last flag (`TakenAll`); a
wrong value ends the second pass, whatever the first one took for a value. `FileOfFirst`
says whom each name means after `k` servers. `BlocksInOrder` is the invariant of the
loop over blocks: what was sent, followed by the texts that wait for the next tool, is
what the line has so far. `KindFacts` finds the reason of a line in its last text
event, which every flush before had left empty (`AssistantEarly`). `ToolEventsOf` and
`ToolUpdatesOf` carry the payloads of a line over to its updates one by one, and
`CallFacts` and `ResultFacts` are about the two cuts of each.

*SequenceFacts* is where the inductions are. The library's induction theorems take a
predicate as a parameter, which the provers at hand cannot instantiate. `Induction` and
`SequenceInduction` here are about a set, of numbers or of sequences, and follow from the
least element of a set of numbers. `FoldLeft` of the community modules is a fold over the
set of positions, outermost the last one; `FoldedAppend` says of any such fold that it
exists and goes through its sequence step by step, and each fold of the model is shown to
be one. `Among`, `Mapped` and `FlattenSeq` are known by what they do with one element
more.

Model-checked only: everything under fairness (`CancelledTurnReturns`,
`ShutdownEndsTurns`, `ServeReturns`, `CancelledPromptAnswered`, `TurnEnds`,
`SignalEnds`), since the provers know neither liveness under fairness nor ENABLED, and
the four properties of section 3 that do not hold. (That stale cleanup kills a
session whose owner still runs, once its marker is 30 minutes old, is not among them:
PRD-008:180-181 asks for a marker and an age, not for a dead owner.)

## 5. Not modelled

The forms of JSON-RPC ids and error codes, titles and tool kinds of updates, the
text of a prompt made of content blocks, where transcripts lie, shell quoting, the
command lines of tmux, the stability count of `WaitReady`, diagnostics: formatting,
on which no decision of the program depends. Query mode is one turn of ClaudeTurn with
`HasTimeout`. `ReadNew`, `WaitAndReadNew` and `ValidateToolObservabilityConfig` have no
caller in the program; the last one is what `SettingsValid` compares with.

## 6. Plan

Done, in this order: Service (slot, cancel, shutdown), its inductive invariant;
Server and its refinement; ClaudeTurn; Ownership; Disconnect and its failure in
ClaudeTurn; Conversation and the refinement; the settings, the transcript's lines, updates
and the MCP file with Conversions; the proofs of Service, Server, ClaudeTurn and
Ownership; those of Conversation and, over folds of any length, of Conversions.

Next, extending the model: `.turn` files and the query-mode exit in Ownership; the
command line of Claude after a model change. Each comes with its invariant and its proof.
What is left to prove of the model as it is needs liveness.
