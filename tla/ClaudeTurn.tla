----------------------------- MODULE ClaudeTurn ------------------------------
(***************************************************************************)
(* A turn of internal/claude: Client.runTurn pastes a prompt into the tmux *)
(* pane and follows the transcript file until a terminal assistant record. *)
(* Claude is outside: it takes what Enter submits, appends lines to the    *)
(* transcript and runs the Stop hook, whose line goes through a FIFO and   *)
(* the stopReader goroutine.  runTurn holds queryMu, so turns follow each  *)
(* other; the context and the interrupt are in the hands of the caller.    *)
(* Line k of the file starts at byte 2*(k-1) and a line being written is   *)
(* one byte long, so that a size may fall inside a line.                   *)
(***************************************************************************)
EXTENDS Naturals, Subsequences

CONSTANTS
    MaxTurns,     \* most turns of the client
    MaxLines,     \* most lines Claude writes, one beyond the size limit as two
    PayloadCap,   \* the capacity of stopReader.payloads (8)
    HasTimeout,   \* Options.Timeout > 0
    None          \* no turn, message or line

\* What the lines of the transcript are to the adapter: text that ends nothing;
\* text with a terminal stop reason; what is sent and not collected (tool use,
\* whose empty text has the reason tool_use, tool results, usage, titles,
\* unknown and broken lines); a line beyond the size limit.  Transcript!KindOf
\* is the reader's side of it.
Kinds == {"text", "final", "note", "huge"}
Turns == 1 .. MaxTurns

ASSUME TurnAssumption ==
    /\ MaxTurns \in Nat /\ MaxLines \in Nat
    /\ PayloadCap \in Nat \ {0}
    /\ HasTimeout \in BOOLEAN
    /\ None \notin Nat /\ None \notin [of : SUBSET Nat, phase : STRING]
    /\ None \notin [of : SUBSET Nat, kind : Kinds]

VARIABLES
    pc,         \* where runTurn is
    turn,       \* the turn runTurn is in, or was in last
    ctxDone,    \* the turn's queryCtx is done
    found,      \* findTranscriptPath found the file
    start,      \* turn.StartOffset
    offset,     \* TranscriptReader.offset
    batch,      \* lines read and not yet emitted
    collected,  \* the assistant messages of the turn
    sent,       \* what each turn put on its events channel
    result,     \* how each turn ended
    entered,    \* turns whose promptSent became true
    turnFile,   \* the turn id in the .turn file
    pipe,       \* lines in the FIFO, as the turn ids they carry
    payloads,   \* stopReader.payloads, likewise
    closed,     \* the stopReader is stopped and payloads closed
    client,     \* of Client: "connected" ("lame" when Disconnect could not kill
                \* the session, and left a nil stopReader), "closing" or "gone"
    hasReader,  \* the stopReader runTurn took from the client is not nil
    input,      \* the prompts in Claude's input box
    message,    \* the message Claude works on
    file,       \* the complete lines of the transcript
    partial,    \* the line being written
    hooks       \* Stop hooks Claude started and that have not read turnFile

runner  == <<pc, turn, ctxDone, found, start, offset, batch, collected, sent,
             result, entered>>
stopping == <<turnFile, pipe, payloads, closed, client, hasReader>>
claude  == <<input, message, file, partial, hooks>>
vars    == <<runner, stopping, claude>>

PCs == {"idle", "ready", "locate", "offset", "drain", "write", "paste",
        "pasting", "enter", "entering", "peek", "discover", "poll", "emit", "select"}
Results == {"none", "ok", "gaveup", "failed", "oversize"}
Lines == [of : SUBSET Turns, kind : Kinds]

TypeOK ==
    /\ pc \in PCs
    /\ turn \in 0 .. MaxTurns
    /\ ctxDone \in BOOLEAN /\ found \in BOOLEAN
    /\ closed \in BOOLEAN /\ hasReader \in BOOLEAN
    /\ client \in {"connected", "lame", "closing", "gone"}
    /\ start \in Nat /\ offset \in Nat
    /\ batch \in Seq(Lines) /\ collected \in Seq(Lines)
    /\ sent \in [Turns -> Seq(Lines)]
    /\ result \in [Turns -> Results]
    /\ entered \subseteq Turns
    /\ turnFile \in Turns \cup {None}
    /\ pipe \in Seq(Turns \cup {None})
    /\ payloads \in Seq(Turns \cup {None}) /\ Len(payloads) <= PayloadCap
    /\ input \in Seq(Turns)
    /\ message \in [of : SUBSET Turns, phase : {"work", "tail", "stop"}] \cup {None}
    /\ file \in Seq(Lines)
    /\ partial \in Lines \cup {None}
    /\ hooks \in Nat

Init ==
    /\ pc = "idle" /\ turn = 0 /\ ctxDone = FALSE /\ found = FALSE
    /\ start = 0 /\ offset = 0 /\ batch = <<>> /\ collected = <<>>
    /\ sent = [t \in Turns |-> <<>>]
    /\ result = [t \in Turns |-> "none"]
    /\ entered = {}
    /\ turnFile = None /\ pipe = <<>> /\ payloads = <<>>
    /\ closed = FALSE /\ client = "connected" /\ hasReader = FALSE
    /\ input = <<>> /\ message = None
    /\ file = <<>> /\ partial = None /\ hooks = 0

-----------------------------------------------------------------------------
\* Claude, as the adapter relies on it.  C-c empties the input box and stops
\* the work; the pane shows the prompt sign only between messages, when the
\* last line of one may still be half written.

LineAt(k) == 2 * (k - 1)
Size == 2 * Len(file) + (IF partial = None THEN 0 ELSE 1)
PaneReady == message = None

Interrupted ==
    /\ input' = <<>>
    /\ message' = IF message # None /\ message.phase = "work"
                  THEN [message EXCEPT !.phase = "stop"] ELSE message

Room(kind) ==
    LET huge == {k \in DOMAIN file : file[k].kind = "huge"}
    IN  Len(file) + Cardinality(huge) + (IF kind = "huge" THEN 2 ELSE 1) <= MaxLines

WriteLine(kind) ==
    /\ message # None /\ partial = None
    /\ Room(kind)
    /\ kind = "final" => message.phase = "work"
    /\ kind = "text" => message.phase # "tail"
    /\ partial' = [of |-> message.of, kind |-> kind]
    /\ UNCHANGED <<runner, stopping, input, message, file, hooks>>

\* The newline; after the terminal record Claude starts the Stop hook.
CompleteLine ==
    /\ partial # None /\ client # "gone"
    /\ file' = Append(file, partial)
    /\ partial' = None
    /\ hooks' = IF partial.kind = "final" THEN hooks + 1 ELSE hooks
    /\ message' = IF partial.kind = "final" /\ message # None /\ message.of = partial.of
                  THEN [message EXCEPT !.phase = "tail"] ELSE message
    /\ UNCHANGED <<runner, stopping, input>>

EndMessage ==
    /\ message # None /\ message.phase \in {"tail", "stop"}
    /\ message' = None
    /\ UNCHANGED <<runner, stopping, input, file, partial, hooks>>

\* stopHookCommand runs in a shell of its own: it reads the .turn file
\* whenever it gets there and writes the turn id it found to the FIFO.
StopHook ==
    /\ hooks > 0
    /\ hooks' = hooks - 1
    /\ pipe' = IF client = "gone" THEN pipe ELSE Append(pipe, turnFile)
    /\ UNCHANGED <<runner, turnFile, payloads, closed, client, hasReader, input,
                   message, file, partial>>

\* Each writes its line in three pieces: two at once spoil each other's, and
\* the reader drops what it cannot parse.
HooksCollide ==
    /\ hooks > 1
    /\ hooks' = hooks - 2
    /\ UNCHANGED <<runner, stopping, input, message, file, partial>>

-----------------------------------------------------------------------------
\* The stopReader goroutine.
\* Mutant: the channel has no limit.
ReadStopUnbounded ==
    /\ ~closed
    /\ pipe # <<>>
    /\ payloads' = Append(payloads, Head(pipe))
    /\ pipe' = Tail(pipe)
    /\ UNCHANGED <<runner, turnFile, closed, client, hasReader, claude>>

ReadStop ==
    /\ ~closed
    /\ pipe # <<>> /\ Len(payloads) < PayloadCap
    /\ payloads' = Append(payloads, Head(pipe))
    /\ pipe' = Tail(pipe)
    /\ UNCHANGED <<runner, turnFile, closed, client, hasReader, claude>>

\* A signal ends the context of Connect, and that of a turn with it.
StopReader ==
    /\ ~closed
    /\ pc = "idle" \/ ctxDone
    /\ closed' = TRUE
    /\ UNCHANGED <<runner, turnFile, pipe, payloads, client, hasReader, claude>>

\* Disconnect, which the service calls after it cancelled the context of the
\* turn: stopReader.Stop, then Kill, with the client's lock held.
Disconnect ==
    /\ client \in {"connected", "lame"}
    /\ pc = "idle" \/ ctxDone
    /\ closed' = TRUE
    /\ client' = "closing"
    /\ UNCHANGED <<runner, turnFile, pipe, payloads, hasReader, claude>>

\* The tmux session is gone, and the FIFO and the .turn file are removed.
Killed ==
    /\ client = "closing"
    /\ client' = "gone"
    /\ turnFile' = None /\ pipe' = <<>>
    /\ input' = <<>> /\ message' = None
    /\ UNCHANGED <<runner, payloads, closed, hasReader, file, partial,
                   hooks>>

\* Claude outlived Kill, whose C-c may have reached it.
KillFails ==
    /\ client = "closing"
    /\ client' = "lame"
    /\ Interrupted \/ UNCHANGED <<input, message>>
    /\ UNCHANGED <<runner, turnFile, pipe, payloads, closed, hasReader, file, partial, hooks>>

\* A receive from payloads: the oldest one, or at once when it is closed.
Receive == IF payloads # <<>> THEN payloads' = Tail(payloads)
           ELSE closed /\ payloads' = payloads

-----------------------------------------------------------------------------
\* The caller: Client.Cancel, and the end of the turn's context.
\* A client that is gone refuses to cancel.
Cancel ==
    /\ client \in {"connected", "lame", "gone"}
    /\ IF client = "gone" THEN UNCHANGED <<input, message>> ELSE Interrupted
    /\ UNCHANGED <<runner, stopping, file, partial, hooks>>

ContextEnds ==
    /\ pc # "idle" /\ ~ctxDone
    /\ ctxDone' = TRUE
    /\ UNCHANGED <<pc, turn, found, start, offset, batch, collected, sent, result,
                   entered, stopping, claude>>

-----------------------------------------------------------------------------
\* runTurn.
At(p) == pc = p

\* What runTurn leaves when it returns; its deferred cancel ends the context.
LocalsEnd ==
    /\ ctxDone' = TRUE
    /\ found' = FALSE /\ start' = 0 /\ batch' = <<>> /\ collected' = <<>>
    /\ hasReader' = FALSE

\* Mutant: runTurn returns and leaves Claude as it is.
ReturnsQuietly(r) ==
    /\ pc' = "idle"
    /\ result' = [result EXCEPT ![turn] = r]
    /\ LocalsEnd
    /\ UNCHANGED <<turn, offset, sent, entered, turnFile, pipe, payloads, closed,
                   client, claude>>

\* runTurn returns.  The deferred function interrupts Claude when the turn
\* failed after the prompt was sent and its context is done, and does not ask
\* whether that worked.  A turn that is given up and could not stop Claude
\* counts as failed.
Returns(r) ==
    /\ pc' = "idle"
    /\ LocalsEnd
    /\ UNCHANGED <<turn, offset, sent, entered, turnFile, pipe, payloads, closed,
                   client, file, partial, hooks>>
    /\ LET interrupts == r # "ok" /\ turn \in entered /\ ctxDone
       IN  \/ /\ result' = [result EXCEPT ![turn] = r]
              /\ IF interrupts THEN Interrupted ELSE UNCHANGED <<input, message>>
           \/ /\ interrupts
              /\ result' = [result EXCEPT ![turn] = IF r = "gaveup" THEN "failed" ELSE r]
              /\ UNCHANGED <<input, message>>

\* A step that only moves on.
Moves(from, to) ==
    /\ At(from)
    /\ pc' = to
    /\ UNCHANGED <<turn, ctxDone, result, file, partial, hooks>>

\* runTurn's first lock section.  A turn may begin after a cancel or a
\* Disconnect (the service installs a turn before it runs it), or after the
\* signal that stopped the reader, but then its context is done.
StartTurn ==
    /\ At("idle") /\ turn < MaxTurns
    /\ client \in {"connected", "lame"}
    /\ pc' = "ready"
    /\ turn' = turn + 1
    /\ ctxDone' = (closed \/ client = "lame")
    /\ hasReader' = (client = "connected")
    /\ UNCHANGED <<found, start, offset, batch, collected, sent, result, entered,
                   turnFile, pipe, payloads, closed, client, claude>>

NotConnected ==
    /\ At("idle") /\ turn < MaxTurns
    /\ client = "gone"
    /\ turn' = turn + 1
    /\ ctxDone' = TRUE
    /\ result' = [result EXCEPT ![turn'] = "failed"]
    /\ UNCHANGED <<pc, found, start, offset, batch, collected, sent, entered,
                   stopping, claude>>

\* Mutant: the wait between two reads does not watch the context.
GiveUpUnlessPolling ==
    /\ pc \in {"ready", "peek", "discover"}
    /\ ctxDone
    /\ Returns("gaveup")

\* Every wait of the turn watches the context.
GiveUp ==
    /\ pc \in {"ready", "peek", "discover", "emit", "select"}
    /\ At("emit") => batch # <<>>
    /\ ctxDone
    /\ Returns("gaveup")

\* Mutant: WaitReady does not look at the context before its first capture.
WaitReadyAnyway ==
    /\ Moves("ready", "locate")
    /\ PaneReady
    /\ UNCHANGED <<found, start, offset, batch, collected, sent, entered,
                   stopping, input, message>>

\* capture-pane, which fails once the context is done, showed the prompt sign.
WaitReady ==
    /\ Moves("ready", "locate")
    /\ ~ctxDone
    /\ PaneReady
    /\ UNCHANGED <<found, start, offset, batch, collected, sent, entered,
                   stopping, input, message>>

\* findTranscriptPath, then newTurnContext, which asks the file's size.
Locate ==
    /\ Moves("locate", "offset")
    /\ found' = (Size > 0)
    /\ UNCHANGED <<start, offset, batch, collected, sent, entered, stopping,
                   input, message>>

\* Mutant: the turn starts where the last one stopped to read.
TurnStartsAtOffset ==
    /\ Moves("offset", "drain")
    /\ start' = offset
    /\ UNCHANGED <<found, offset, batch, collected, sent, entered, stopping,
                   input, message>>

TurnStartOffset ==
    /\ Moves("offset", "drain")
    /\ start' = IF found THEN Size ELSE offset
    /\ UNCHANGED <<found, offset, batch, collected, sent, entered, stopping,
                   input, message>>

\* Drain takes what is there, until it finds the channel empty.
Drain ==
    /\ At("drain") /\ payloads # <<>>
    /\ payloads' = Tail(payloads)
    /\ UNCHANGED <<runner, turnFile, pipe, closed, client, hasReader, claude>>

Drained ==
    /\ Moves("drain", "write")
    /\ payloads = <<>>
    /\ UNCHANGED <<found, start, offset, batch, collected, sent, entered,
                   stopping, input, message>>

WriteCurrentTurn ==
    /\ Moves("write", "paste")
    /\ turnFile' = turn
    /\ UNCHANGED <<found, start, offset, batch, collected, sent, entered, pipe,
                   payloads, closed, client, hasReader, input, message>>

WriteFails ==
    /\ At("write")
    /\ Returns("failed")

\* PastePrompt: the text goes into the input box, then Enter submits what the
\* box holds.  Each is a tmux command: it is not started once the context is
\* done, tmux does what it asks, and it returns.
PastePrompt ==
    /\ Moves("paste", "pasting")
    /\ ~ctxDone
    /\ input' = Append(input, turn)
    /\ UNCHANGED <<found, start, offset, batch, collected, sent, entered,
                   stopping, message>>

PasteReturns ==
    /\ Moves("pasting", "enter")
    /\ UNCHANGED <<found, start, offset, batch, collected, sent, entered,
                   stopping, input, message>>

Enter ==
    /\ At("enter") /\ ~ctxDone
    /\ pc' = "entering"
    /\ input' = <<>>
    /\ IF input = <<>>
       THEN UNCHANGED message
       ELSE message' = [of |-> {input[k] : k \in DOMAIN input}, phase |-> "work"]
    /\ UNCHANGED <<turn, ctxDone, found, start, offset, batch, collected, sent,
                   result, entered, stopping, file, partial, hooks>>

EnterReturns ==
    /\ Moves("entering", "peek")
    /\ entered' = entered \cup {turn}
    /\ UNCHANGED <<found, start, offset, batch, collected, sent, stopping,
                   input, message>>

\* A command fails without effect, or is killed by the end of the context
\* after tmux did what it asked: promptSent stays false.
TmuxFails ==
    /\ \/ pc \in {"paste", "enter"}
       \/ pc \in {"pasting", "entering"} /\ ctxDone
    /\ Returns("failed")

\* waitForTranscript: a payload of this turn names the file, anything else
\* (another payload, 50 ms) leads to findTranscript.
PeekPayload ==
    /\ Receive
    /\ IF payloads # <<>> /\ Head(payloads) = turn
       THEN Moves("peek", "poll") ELSE Moves("peek", "discover")
    /\ UNCHANGED <<found, start, offset, batch, collected, sent, entered,
                   turnFile, pipe, closed, client, hasReader, input, message>>

PeekTimesOut ==
    /\ Moves("peek", "discover")
    /\ UNCHANGED <<found, start, offset, batch, collected, sent, entered,
                   stopping, input, message>>

FindTranscript ==
    /\ Moves("discover", "poll")
    /\ Size > 0
    /\ UNCHANGED <<found, start, offset, batch, collected, sent, entered,
                   stopping, input, message>>

TranscriptNotFound ==
    /\ At("discover") /\ HasTimeout
    /\ Returns("failed")

\* ReadNewEvents reads the complete lines from the offset on.
Unread == {k \in DOMAIN file : LineAt(k) >= offset}

\* Mutant: the bytes of a half-written line count as read.
ReadPastPartial ==
    /\ Moves("poll", "emit")
    /\ \A k \in Unread : file[k].kind # "huge"
    /\ LET from == IF start > offset THEN start ELSE offset
       IN  batch' = SubSeq(file, 1 + (from + 1) \div 2, Len(file))
    /\ offset' = Size
    /\ UNCHANGED <<found, start, collected, sent, entered, stopping, input,
                   message>>

ReadNewEvents ==
    /\ Moves("poll", "emit")
    /\ \A k \in Unread : file[k].kind # "huge"
    /\ LET from == IF start > offset THEN start ELSE offset
       IN  batch' = SubSeq(file, 1 + (from + 1) \div 2, Len(file))
    /\ offset' = 2 * Len(file)
    /\ UNCHANGED <<found, start, collected, sent, entered, stopping, input,
                   message>>

\* A line that is too long, the last one before its newline included, fails
\* the whole read; so does a file that cannot be opened or read.
ReadFails ==
    /\ At("poll")
    /\ \/ /\ \/ partial # None /\ partial.kind = "huge"
             \/ \E k \in Unread : file[k].kind = "huge"
          /\ Returns("oversize")
       \/ Returns("failed")

\* The events of the next line go out; text is collected.
Emit ==
    /\ At("emit") /\ batch # <<>>
    /\ sent' = [sent EXCEPT ![turn] = Append(@, Head(batch))]
    /\ collected' = IF Head(batch).kind \in {"text", "final"}
                    THEN Append(collected, Head(batch)) ELSE collected
    /\ batch' = Tail(batch)
    /\ UNCHANGED <<pc, turn, ctxDone, found, start, offset, result, entered,
                   stopping, claude>>

\* Mutant: any text will do.
HasAssistant == collected # <<>>

HasTerminalAssistant == collected # <<>> /\ Last(collected).kind = "final"

Completes ==
    /\ At("emit") /\ batch = <<>>
    /\ HasTerminalAssistant
    /\ Returns("ok")

NotYet ==
    /\ Moves("emit", "select")
    /\ batch = <<>>
    /\ ~HasTerminalAssistant
    /\ UNCHANGED <<found, start, offset, batch, collected, sent, entered,
                   stopping, input, message>>

\* Any payload, or 100 ms: the file is read again.
SelectPayload ==
    /\ Moves("select", "poll")
    /\ Receive
    /\ UNCHANGED <<found, start, offset, batch, collected, sent, entered,
                   turnFile, pipe, closed, client, hasReader, input, message>>

\* Mutant: the file is read again only when a Stop hook says so.
SelectNeverTimesOut == FALSE

SelectTimesOut ==
    /\ Moves("select", "poll")
    /\ UNCHANGED <<found, start, offset, batch, collected, sent, entered,
                   stopping, input, message>>

-----------------------------------------------------------------------------
Claude ==
    \/ \E kind \in Kinds : WriteLine(kind)
    \/ CompleteLine \/ EndMessage \/ StopHook \/ HooksCollide

RunTurn ==
    \/ WaitReady \/ Locate \/ TurnStartOffset \/ Drain \/ Drained
    \/ WriteCurrentTurn \/ WriteFails
    \/ PastePrompt \/ PasteReturns \/ Enter \/ EnterReturns \/ TmuxFails
    \/ PeekPayload \/ PeekTimesOut \/ FindTranscript \/ TranscriptNotFound
    \/ ReadNewEvents \/ ReadFails \/ Emit \/ Completes \/ NotYet
    \/ SelectPayload \/ SelectTimesOut \/ GiveUp

Next ==
    \/ Claude \/ ReadStop \/ StopReader
    \/ Disconnect \/ Killed \/ KillFails \/ Cancel \/ ContextEnds
    \/ StartTurn \/ NotConnected \/ RunTurn

Spec == Init /\ [][Next]_vars

\* runTurn goes on; a select that finds the context done again and again takes
\* that branch some time, since Go chooses among the ready ones at random.
Fairness == WF_vars(RunTurn) /\ SF_vars(GiveUp)
FairSpec == Spec /\ Fairness

-----------------------------------------------------------------------------
\* The lines Claude wrote for turn t's prompt.
LinesOf == [t \in Turns |-> {line \in Lines : t \in line.of}]
Of(t) == Among(file, LinesOf[t])

\* The events of a turn are the complete lines Claude wrote for its prompt,
\* each once, in order and from the first, whatever earlier turns left unread,
\* half written or still to be written in the same file.
StreamFaithful == \A t \in Turns : IsPrefix(sent[t], Of(t))

Conversation == INSTANCE Conversation WITH
    running <- pc # "idle",
    left    <- ctxDone,
    answers <- [t \in Turns |-> Of(t)]

\* The refinement: over one file, one FIFO and one input box the client gives
\* every prompt a conversation of its own, as Conversation promises it.
ImplementsConversation == Conversation!Spec

\* No turn gets to use the stopReader when Disconnect left none: Drain on a nil
\* stopReader would end the program.
NilReaderUnused == pc \notin {"idle", "ready", "locate", "offset"} => hasReader

\* A turn succeeds only on a terminal record of its own message: a Stop hook,
\* of this turn or of one before, never completes it.
CompletedByOwnRecord ==
    \A t \in Turns : result[t] = "ok" =>
        /\ sent[t] # <<>>
        /\ \E k \in DOMAIN sent[t] : sent[t][k].kind = "final" /\ t \in sent[t][k].of

\* A turn that sent its prompt and gave up leaves Claude interrupted, not
\* working on for nobody, unless tmux failed to pass the interrupt on.
GivenUpIsInterrupted ==
    \A t \in entered : result[t] = "gaveup" /\ message # None /\ t \in message.of =>
        message.phase # "work"

\* A turn ends once its context is done, with the stopReader closed or not,
\* and once its terminal record is in the file, whether its Stop hook ever
\* arrives or not.
InFile(t) == \E k \in DOMAIN file : file[k].kind = "final" /\ t \in file[k].of

TurnEnds ==
    (pc # "idle" /\ (ctxDone \/ (turn \in entered /\ InFile(turn)))) ~> (pc = "idle")

\* A turn fails on an oversized line only if the line is one of its own.
OversizeContained ==
    \A t \in Turns : result[t] = "oversize" =>
        \/ \E k \in DOMAIN file : file[k].kind = "huge" /\ t \in file[k].of
        \/ partial # None /\ partial.kind = "huge" /\ t \in partial.of

\* What Claude is given to work on is one prompt, never two run together.
PromptsSeparate == message # None => Cardinality(message.of) = 1
=============================================================================
