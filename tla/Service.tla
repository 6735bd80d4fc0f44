------------------------------- MODULE Service -------------------------------
(***************************************************************************)
(* The application layer, internal/app: sessions, their prompt turns and   *)
(* the API calls that create, configure, cancel, close and shut them down. *)
(* Every lock-protected section of the code is one atomic step.  An API    *)
(* call runs on the goroutine of its caller (call[c].pc says where it is), *)
(* PromptTurn.Run runs on a goroutine of its own for each turn (run[t]).   *)
(* The Claude transport is outside: it yields events and one outcome per   *)
(* turn, and its Connect and Cancel may fail.                              *)
(***************************************************************************)
EXTENDS Naturals, Sequences

CONSTANTS
    Callers,      \* goroutines that call the service's API
    Sessions,     \* session ids that NewSession can hand out
    Turns,        \* prompt turns; their number bounds the accepted prompts
    Transports,   \* transports the factory can make; bounds the Connects
    Models,       \* model names
    Default,      \* the model new sessions get (Service.model)
    Outcomes,     \* the turn results a transport can produce
    MaxEvents,    \* most transcript events of one turn
    None          \* no session, turn, transport, model, answer or result

Lasts == {"none", "end_turn", "max_tokens", "max_turn_requests", "refusal",
          "other"}

\* A claude.TurnResult: an error, or a response whose last message has the
\* stop reason `last' ("none" when there is no message) and whose text may
\* be blank.
OutcomeRecords == [err : BOOLEAN, last : Lasts, blank : BOOLEAN]

VARIABLES
    closing,     \* Service.closing
    parentDone,  \* the context the calls were given is cancelled
    registry,    \* the ids in Registry.sessions
    transport,   \* Session.Transport
    config,      \* Session.Config
    mcp,         \* sessions whose MCP config file exists on disk
    link,        \* what was done to each transport: none, connecting, ...
    active,      \* Session.active: the turn that holds the session's slot
    owner,       \* PromptTurn.session
    cancelling,  \* turns whose activeTurn.cancelling is set
    cancelErr,   \* turns whose activeTurn.cancelErr is not nil
    cancelDone,  \* turns whose activeTurn.cancelDone is closed
    ctxDone,     \* turns whose own context is cancelled
    run,         \* where PromptTurn.Run is
    stream,      \* events the transport sent and Run has not yet received
    emitted,     \* how many events the transport sent, at most MaxEvents
    outcome,     \* the TurnResult on the Done channel
    answer,      \* what Run returns
    call         \* the API call each caller is in

sessionVars == <<registry, transport, config, mcp, link>>
cancelVars  == <<cancelling, cancelErr, cancelDone, ctxDone>>
runVars     == <<owner, run, stream, emitted, outcome, answer>>
vars == <<closing, parentDone, sessionVars, active, cancelVars, runVars, call>>

Ops == {"none", "initialize", "new", "prompt", "cancel", "close", "shutdown",
        "set"}
CallPCs == {"idle", "connect", "add", "begin", "startcancel", "interrupt",
            "complete", "disconnect", "next", "setconnect", "swap", "drop",
            "return"}
RunPCs == {"unused", "ready", "stream", "wait", "blocked", "check", "finish",
           "returned"}
Links == {"none", "connecting", "connected", "released"}
ToolModes == {"off", "compact"}
Configs == [model : Models, tools : ToolModes]
EventKinds == {"text", "tool"}
StopReasons == {"end_turn", "max_tokens", "max_turn_requests", "refusal",
                "cancelled"}
Answers == StopReasons \cup {"no_text", "transport_failed", "cancel_failed"}

ASSUME ServiceAssumption ==
    /\ None \notin Callers \cup Sessions \cup Turns \cup Transports \cup Models
    /\ None \notin OutcomeRecords \cup Answers
    /\ Outcomes \subseteq OutcomeRecords
    /\ Default \in Models
    /\ MaxEvents \in Nat

Calls == [op : Ops, pc : CallPCs, s : Sessions \cup {None},
          t : Turns \cup {None}, x : Transports \cup {None},
          m : Models \cup {None}, err : BOOLEAN, todo : SUBSET Sessions,
          ret : {"none", "ok", "error"}]
IdleCall == [op |-> "none", pc |-> "idle", s |-> None, t |-> None, x |-> None,
             m |-> None, err |-> FALSE, todo |-> {}, ret |-> "none"]

TypeOK ==
    /\ closing \in BOOLEAN
    /\ parentDone \in BOOLEAN
    /\ registry \subseteq Sessions
    /\ transport \in [Sessions -> Transports \cup {None}]
    /\ config \in [Sessions -> Configs]
    /\ mcp \subseteq Sessions
    /\ link \in [Transports -> Links]
    /\ active \in [Sessions -> Turns \cup {None}]
    /\ owner \in [Turns -> Sessions \cup {None}]
    /\ cancelling \subseteq Turns
    /\ cancelErr \subseteq Turns
    /\ cancelDone \subseteq Turns
    /\ ctxDone \subseteq Turns
    /\ run \in [Turns -> RunPCs]
    /\ stream \in [Turns -> Seq(EventKinds)]
    /\ emitted \in [Turns -> 0 .. MaxEvents]
    /\ outcome \in [Turns -> OutcomeRecords \cup {None}]
    /\ answer \in [Turns -> Answers \cup {None}]
    /\ call \in [Callers -> Calls]

Init ==
    /\ closing = FALSE
    /\ parentDone = FALSE
    /\ registry = {}
    /\ transport = [s \in Sessions |-> None]
    /\ config = [s \in Sessions |-> [model |-> Default, tools |-> "compact"]]
    /\ mcp = {}
    /\ link = [x \in Transports |-> "none"]
    /\ active = [s \in Sessions |-> None]
    /\ owner = [t \in Turns |-> None]
    /\ cancelling = {} /\ cancelErr = {} /\ cancelDone = {} /\ ctxDone = {}
    /\ run = [t \in Turns |-> "unused"]
    /\ stream = [t \in Turns |-> <<>>]
    /\ emitted = [t \in Turns |-> 0]
    /\ outcome = [t \in Turns |-> None]
    /\ answer = [t \in Turns |-> None]
    /\ call = [c \in Callers |-> IdleCall]

-----------------------------------------------------------------------------
\* Calls: entering one, moving on inside it, returning from it.

Idle(c) == call[c].pc = "idle"
At(c, pc) == call[c].pc = pc

Become(c, k) == call' = [call EXCEPT ![c] = k]
Goto(c, pc) == Become(c, [call[c] EXCEPT !.pc = pc])
Reply(c, op, ret) ==
    Become(c, [IdleCall EXCEPT !.op = op, !.pc = "return", !.ret = ret])
Return(c, ret) == Reply(c, call[c].op, ret)
Refuse(c, op) ==
    /\ Idle(c)
    /\ Reply(c, op, "error")
    /\ UNCHANGED <<closing, parentDone, sessionVars, active, cancelVars, runVars>>

\* The caller takes the result and may call again.
Resume(c) ==
    /\ At(c, "return")
    /\ Become(c, IdleCall)
    /\ UNCHANGED <<closing, parentDone, sessionVars, active, cancelVars, runVars>>

\* A turn, a transport and a session id nobody uses and no call is about to.
FreshTurn(t) == run[t] = "unused" /\ \A c \in Callers : call[c].t # t
FreshTransport(x) == link[x] = "none"
FreshSession(s) ==
    /\ transport[s] = None
    /\ \A c \in Callers : call[c].op = "new" => call[c].s # s

-----------------------------------------------------------------------------
\* Initialize reads the request only: it accepts or refuses the version.
Initialize(c) ==
    /\ Idle(c)
    /\ \E ret \in {"ok", "error"} : Reply(c, "initialize", ret)
    /\ UNCHANGED <<closing, parentDone, sessionVars, active, cancelVars, runVars>>

\* NewSession: refused while closing, and for a relative path, an unusable
\* MCP server or a factory error, all before anything is kept.
NewRefused(c, valid) == (closing \/ ~valid) /\ Refuse(c, "new")

NewSession(c, s, x, withMcp) ==
    /\ Idle(c)
    /\ ~closing
    /\ FreshSession(s)
    /\ FreshTransport(x)
    /\ mcp' = IF withMcp THEN mcp \cup {s} ELSE mcp
    /\ link' = [link EXCEPT ![x] = "connecting"]
    /\ Become(c, [IdleCall EXCEPT !.op = "new", !.s = s, !.x = x, !.pc = "connect"])
    /\ UNCHANGED <<closing, parentDone, registry, transport, config, active,
                   cancelVars, runVars>>

NewConnect(c) ==
    /\ At(c, "connect")
    /\ link' = [link EXCEPT ![call[c].x] = "connected"]
    /\ Goto(c, "add")
    /\ UNCHANGED <<closing, parentDone, registry, transport, config, mcp,
                   active, cancelVars, runVars>>

\* Connect failed: the file goes, the transport is disconnected.
NewConnectFails(c) ==
    /\ At(c, "connect")
    /\ mcp' = mcp \ {call[c].s}
    /\ link' = [link EXCEPT ![call[c].x] = "released"]
    /\ Return(c, "error")
    /\ UNCHANGED <<closing, parentDone, registry, transport, config, active,
                   cancelVars, runVars>>

\* The Session record is made and registered.  Closing is not asked again.
NewAdd(c) ==
    /\ At(c, "add")
    /\ registry' = registry \cup {call[c].s}
    /\ transport' = [transport EXCEPT ![call[c].s] = call[c].x]
    /\ Return(c, "ok")
    /\ UNCHANGED <<closing, parentDone, config, mcp, link, active, cancelVars,
                   runVars>>

-----------------------------------------------------------------------------
\* StartPrompt: closing and the registry are read first, the session's slot
\* is taken in a lock section of its own.  Turn t is the one to be made.
PromptRefused(c, s, valid) ==
    (closing \/ s \notin registry \/ ~valid) /\ Refuse(c, "prompt")

StartPrompt(c, s, t) ==
    /\ Idle(c)
    /\ ~closing
    /\ s \in registry
    /\ FreshTurn(t)
    /\ Become(c, [IdleCall EXCEPT !.op = "prompt", !.s = s, !.t = t, !.pc = "begin"])
    /\ UNCHANGED <<closing, parentDone, sessionVars, active, cancelVars, runVars>>

\* Mutant: the busy slot is not looked at under the lock that takes it.
BeginTurnUnchecked(c) ==
    LET s == call[c].s
        t == call[c].t
    IN  /\ At(c, "begin")
        /\ active' = [active EXCEPT ![s] = t]
        /\ owner' = [owner EXCEPT ![t] = s]
        /\ run' = [run EXCEPT ![t] = "ready"]
        /\ Return(c, "ok")
        /\ UNCHANGED <<closing, parentDone, sessionVars, cancelVars, stream,
                       emitted, outcome, answer>>

\* beginTurn succeeds: the slot is t's and t's goroutine may start.
BeginTurn(c) ==
    LET s == call[c].s
        t == call[c].t
    IN  /\ At(c, "begin")
        /\ active[s] = None
        /\ active' = [active EXCEPT ![s] = t]
        /\ owner' = [owner EXCEPT ![t] = s]
        /\ run' = [run EXCEPT ![t] = "ready"]
        /\ Return(c, "ok")
        /\ UNCHANGED <<closing, parentDone, sessionVars, cancelVars, stream,
                       emitted, outcome, answer>>

\* "prompt already running for the session"
BeginTurnBusy(c) ==
    /\ At(c, "begin")
    /\ active[call[c].s] # None
    /\ Return(c, "error")
    /\ UNCHANGED <<closing, parentDone, sessionVars, active, cancelVars, runVars>>

-----------------------------------------------------------------------------
\* CancelSession of an unknown session does nothing and reports nothing.
CancelUnknown(c, s) ==
    /\ Idle(c)
    /\ s \notin registry
    /\ Reply(c, "cancel", "ok")
    /\ UNCHANGED <<closing, parentDone, sessionVars, active, cancelVars, runVars>>

CancelSession(c, s) ==
    /\ Idle(c)
    /\ s \in registry
    /\ Become(c, [IdleCall EXCEPT !.op = "cancel", !.s = s, !.pc = "startcancel"])
    /\ UNCHANGED <<closing, parentDone, sessionVars, active, cancelVars, runVars>>

CloseUnknown(c, s) == s \notin registry /\ Refuse(c, "close")

\* CloseSession takes the session out of the registry, then cleans it up.
CloseSession(c, s) ==
    /\ Idle(c)
    /\ s \in registry
    /\ registry' = registry \ {s}
    /\ Become(c, [IdleCall EXCEPT !.op = "close", !.s = s, !.pc = "startcancel"])
    /\ UNCHANGED <<closing, parentDone, transport, config, mcp, link, active,
                   cancelVars, runVars>>

\* Shutdown sets closing and takes a snapshot of the registry.
Shutdown(c) ==
    /\ Idle(c)
    /\ closing' = TRUE
    /\ Become(c, [IdleCall EXCEPT !.op = "shutdown", !.todo = registry, !.pc = "next"])
    /\ UNCHANGED <<parentDone, sessionVars, active, cancelVars, runVars>>

\* Each session of the snapshot is deleted (present or not) and cleaned up.
ShutdownNext(c, s) ==
    /\ At(c, "next")
    /\ s \in call[c].todo
    /\ registry' = registry \ {s}
    /\ Become(c, [call[c] EXCEPT !.s = s, !.todo = @ \ {s},
                                 !.pc = "startcancel"])
    /\ UNCHANGED <<closing, parentDone, transport, config, mcp, link, active,
                   cancelVars, runVars>>

ShutdownEnds(c) ==
    /\ At(c, "next")
    /\ call[c].todo = {}
    /\ Return(c, "ok")
    /\ UNCHANGED <<closing, parentDone, sessionVars, active, cancelVars, runVars>>

\* Mutant: a shutdown may go straight to the transport.
NothingToCancelAtShutdown(c) ==
    /\ At(c, "startcancel")
    /\ active[call[c].s] = None \/ call[c].op = "shutdown"
    /\ IF call[c].op = "cancel" THEN Return(c, "ok") ELSE Goto(c, "disconnect")
    /\ UNCHANGED <<closing, parentDone, sessionVars, active, cancelVars, runVars>>

\* startCancel without an active turn: a cancel is over, a cleanup goes on.
NothingToCancel(c) ==
    /\ At(c, "startcancel")
    /\ active[call[c].s] = None
    /\ IF call[c].op = "cancel" THEN Return(c, "ok") ELSE Goto(c, "disconnect")
    /\ UNCHANGED <<closing, parentDone, sessionVars, active, cancelVars, runVars>>

\* Mutant: the turn is not marked.
StartCancelUnmarked(c) ==
    /\ At(c, "startcancel")
    /\ active[call[c].s] # None
    /\ Become(c, [call[c] EXCEPT !.t = active[call[c].s], !.pc = "interrupt"])
    /\ UNCHANGED <<closing, parentDone, sessionVars, active, cancelVars, runVars>>

\* startCancel marks the active turn and hands its cancel function out.
StartCancel(c) ==
    LET a == active[call[c].s]
    IN  /\ At(c, "startcancel")
        /\ a # None
        /\ cancelling' = cancelling \cup {a}
        /\ Become(c, [call[c] EXCEPT !.t = a, !.pc = "interrupt"])
        /\ UNCHANGED <<closing, parentDone, sessionVars, active, cancelErr,
                       cancelDone, ctxDone, runVars>>

\* Mutant: an error of the transport is returned at once.
InterruptFailsFast(c, err) ==
    /\ At(c, "interrupt")
    /\ IF err THEN Return(c, "error") ELSE Goto(c, "complete")
    /\ UNCHANGED <<closing, parentDone, sessionVars, active, cancelVars, runVars>>

\* Transport.Cancel sends the interrupt, without the session's lock.
Interrupt(c, err) ==
    /\ At(c, "interrupt")
    /\ Become(c, [call[c] EXCEPT !.err = err, !.pc = "complete"])
    /\ UNCHANGED <<closing, parentDone, sessionVars, active, cancelVars, runVars>>

\* Mutant: the result is recorded and the turn's context left alone.
CompleteCancelLeavesContext(c) ==
    LET a == active[call[c].s]
    IN  /\ At(c, "complete")
        /\ cancelErr' = IF call[c].err THEN cancelErr \cup ({a} \ {None})
                        ELSE cancelErr \ {a}
        /\ cancelDone' = cancelDone \cup ({a} \ {None})
        /\ IF call[c].op = "cancel"
           THEN Return(c, IF call[c].err THEN "error" ELSE "ok")
           ELSE Goto(c, "disconnect")
        /\ UNCHANGED <<closing, parentDone, sessionVars, active, cancelling,
                       ctxDone, runVars>>

\* completeCancel records the result with whatever turn is active now and
\* opens the gate of waitCancelResult; then the cancel function of the turn
\* startCancel saw is called.  One step for both: the mark of startCancel already
\* answers for the context in RunCheck, and the transport may end a turn at any time.
CompleteCancel(c) ==
    LET a == active[call[c].s]
    IN  /\ At(c, "complete")
        /\ cancelErr' = IF a = None THEN cancelErr
                        ELSE IF call[c].err THEN cancelErr \cup {a}
                        ELSE cancelErr \ {a}
        /\ cancelDone' = cancelDone \cup ({a} \ {None})
        /\ ctxDone' = ctxDone \cup {call[c].t}
        /\ IF call[c].op = "cancel"
           THEN Return(c, IF call[c].err THEN "error" ELSE "ok")
           ELSE Goto(c, "disconnect")
        /\ UNCHANGED <<closing, parentDone, sessionVars, active, cancelling,
                       runVars>>

\* The rest of cleanup: the transport is disconnected, the MCP file removed.
Disconnect(c) ==
    LET s == call[c].s
    IN  /\ At(c, "disconnect")
        /\ link' = [link EXCEPT ![transport[s]] = "released"]
        /\ mcp' = mcp \ {s}
        /\ IF call[c].op = "shutdown"
           THEN Become(c, [IdleCall EXCEPT !.op = "shutdown",
                                           !.todo = call[c].todo, !.pc = "next"])
           ELSE Return(c, "ok")
        /\ UNCHANGED <<closing, parentDone, registry, transport, config,
                       active, cancelVars, runVars>>

-----------------------------------------------------------------------------
\* SetSessionModel and SetSessionConfigOption.
SetRefused(c, s, valid) ==
    (s \notin registry \/ ~valid \/ active[s] # None) /\ Refuse(c, "set")

\* Every option except the model is written under the lock.
SetConfigValue(c, s, mode) ==
    /\ Idle(c)
    /\ s \in registry
    /\ active[s] = None
    /\ config' = [config EXCEPT ![s].tools = mode]
    /\ Reply(c, "set", "ok")
    /\ UNCHANGED <<closing, parentDone, registry, transport, mcp, link, active,
                   cancelVars, runVars>>

SameModel(c, s) ==
    /\ Idle(c)
    /\ s \in registry
    /\ active[s] = None
    /\ Reply(c, "set", "ok")
    /\ UNCHANGED <<closing, parentDone, sessionVars, active, cancelVars, runVars>>

\* A new model needs a new transport, connected without the lock.
SetSessionModel(c, s, m, x) ==
    /\ Idle(c)
    /\ s \in registry
    /\ active[s] = None
    /\ config[s].model # m
    /\ FreshTransport(x)
    /\ link' = [link EXCEPT ![x] = "connecting"]
    /\ Become(c, [IdleCall EXCEPT !.op = "set", !.s = s, !.x = x, !.m = m,
                                  !.pc = "setconnect"])
    /\ UNCHANGED <<closing, parentDone, registry, transport, config, mcp,
                   active, cancelVars, runVars>>

SetConnect(c) ==
    /\ At(c, "setconnect")
    /\ link' = [link EXCEPT ![call[c].x] = "connected"]
    /\ Goto(c, "swap")
    /\ UNCHANGED <<closing, parentDone, registry, transport, config, mcp,
                   active, cancelVars, runVars>>

SetConnectFails(c) ==
    /\ At(c, "setconnect")
    /\ link' = [link EXCEPT ![call[c].x] = "released"]
    /\ Return(c, "error")
    /\ UNCHANGED <<closing, parentDone, registry, transport, config, mcp,
                   active, cancelVars, runVars>>

\* Mutant: the swap trusts the check made before the Connect.
SwapUnchecked(c) ==
    LET s == call[c].s
    IN  /\ At(c, "swap")
        /\ transport' = [transport EXCEPT ![s] = call[c].x]
        /\ config' = [config EXCEPT ![s].model = call[c].m]
        /\ Become(c, [call[c] EXCEPT !.x = transport[s], !.pc = "drop"])
        /\ UNCHANGED <<closing, parentDone, registry, mcp, link, active,
                       cancelVars, runVars>>

\* The lock is taken again: the swap happens only if no turn began meanwhile.
Swap(c) ==
    LET s == call[c].s
    IN  /\ At(c, "swap")
        /\ active[s] = None
        /\ transport' = [transport EXCEPT ![s] = call[c].x]
        /\ config' = [config EXCEPT ![s].model = call[c].m]
        /\ Become(c, [call[c] EXCEPT !.x = transport[s], !.pc = "drop"])
        /\ UNCHANGED <<closing, parentDone, registry, mcp, link, active,
                       cancelVars, runVars>>

SwapRefused(c) ==
    /\ At(c, "swap")
    /\ active[call[c].s] # None
    /\ link' = [link EXCEPT ![call[c].x] = "released"]
    /\ Return(c, "error")
    /\ UNCHANGED <<closing, parentDone, registry, transport, config, mcp,
                   active, cancelVars, runVars>>

\* The transport that was replaced is disconnected.
DropOld(c) ==
    /\ At(c, "drop")
    /\ link' = [link EXCEPT ![call[c].x] = "released"]
    /\ Return(c, "ok")
    /\ UNCHANGED <<closing, parentDone, registry, transport, config, mcp,
                   active, cancelVars, runVars>>

-----------------------------------------------------------------------------
\* The transport's side of a turn, as Run sees it: events, then one result.
CtxDone(t) == parentDone \/ t \in ctxDone

TurnEmits(t, kind) ==
    /\ run[t] = "stream"
    /\ outcome[t] = None
    /\ emitted[t] < MaxEvents
    /\ emitted' = [emitted EXCEPT ![t] = @ + 1]
    /\ stream' = [stream EXCEPT ![t] = Append(@, kind)]
    /\ UNCHANGED <<closing, parentDone, sessionVars, active, cancelVars, owner,
                   run, outcome, answer, call>>

TurnEnds(t, result) ==
    /\ run[t] = "stream"
    /\ outcome[t] = None
    /\ outcome' = [outcome EXCEPT ![t] = result]
    /\ UNCHANGED <<closing, parentDone, sessionVars, active, cancelVars, owner,
                   run, stream, emitted, answer, call>>

\* The context of all the calls is cancelled.
CancelParent ==
    /\ ~parentDone
    /\ parentDone' = TRUE
    /\ UNCHANGED <<closing, sessionVars, active, cancelVars, runVars, call>>

-----------------------------------------------------------------------------
\* PromptTurn.Run.

\* Mutant: the last message decides even when it has no known reason.
StopReasonOfLast(r, cancelled) == IF cancelled THEN "cancelled" ELSE r.last

StopReason(r, cancelled) ==
    CASE cancelled -> "cancelled"
      [] ~cancelled /\ r.last = "none" ->
            IF r.blank THEN "no_text" ELSE "end_turn"
      [] ~cancelled /\ r.last = "other" ->
            IF r.blank THEN "no_text" ELSE "end_turn"
      [] OTHER -> r.last

RunStart(t) ==
    /\ run[t] = "ready"
    /\ run' = [run EXCEPT ![t] = "stream"]
    /\ UNCHANGED <<closing, parentDone, sessionVars, active, cancelVars, owner,
                   stream, emitted, outcome, answer, call>>

\* An event becomes a session update, or nothing when tool events are off.
Shown(t, kind) == kind = "text" \/ config[owner[t]].tools # "off"

RunEvent(t) ==
    /\ run[t] = "stream"
    /\ stream[t] # <<>>
    /\ stream' = [stream EXCEPT ![t] = Tail(@)]
    /\ UNCHANGED <<closing, parentDone, sessionVars, active, cancelVars, owner,
                   run, emitted, outcome, answer, call>>

\* Events is closed and drained; the result is taken from Done.
RunDone(t) ==
    /\ run[t] = "stream"
    /\ stream[t] = <<>>
    /\ outcome[t] # None
    /\ run' = [run EXCEPT ![t] = "wait"]
    /\ UNCHANGED <<closing, parentDone, sessionVars, active, cancelVars, owner,
                   stream, emitted, outcome, answer, call>>

\* What waitCancelResult returned: a cancel error decides the answer.
AfterWait(t, a) ==
    IF a \in cancelErr
    THEN /\ run' = [run EXCEPT ![t] = "finish"]
         /\ answer' = [answer EXCEPT ![t] = "cancel_failed"]
    ELSE /\ run' = [run EXCEPT ![t] = "check"]
         /\ answer' = answer

\* waitCancelResult returns at once, or waits for the cancel in progress.
RunWait(t) ==
    LET a == active[owner[t]]
    IN  /\ run[t] = "wait"
        /\ IF a \in cancelling /\ a \notin cancelDone
           THEN /\ run' = [run EXCEPT ![t] = "blocked"]
                /\ answer' = answer
           ELSE AfterWait(t, a)
        /\ UNCHANGED <<closing, parentDone, sessionVars, active, cancelVars,
                       owner, stream, emitted, outcome, call>>

RunUnblock(t) ==
    LET a == active[owner[t]]
    IN  /\ run[t] = "blocked"
        /\ t \in cancelDone
        /\ AfterWait(t, a)
        /\ UNCHANGED <<closing, parentDone, sessionVars, active, cancelVars,
                       owner, stream, emitted, outcome, call>>

\* isCancelling takes the lock anew and the context is asked.
RunCheck(t) ==
    LET cancelled == active[owner[t]] \in cancelling \/ CtxDone(t)
    IN  /\ run[t] = "check"
        /\ answer' = [answer EXCEPT ![t] =
                        IF outcome[t].err /\ ~cancelled THEN "transport_failed"
                        ELSE StopReason(outcome[t], cancelled)]
        /\ run' = [run EXCEPT ![t] = "finish"]
        /\ UNCHANGED <<closing, parentDone, sessionVars, active, cancelVars,
                       owner, stream, emitted, outcome, call>>

\* The deferred finishTurn frees the slot, then the context is cancelled.
RunFinish(t) ==
    /\ run[t] = "finish"
    /\ active' = [active EXCEPT ![owner[t]] = None]
    /\ ctxDone' = ctxDone \cup {t}
    /\ run' = [run EXCEPT ![t] = "returned"]
    /\ UNCHANGED <<closing, parentDone, sessionVars, cancelling, cancelErr,
                   cancelDone, owner, stream, emitted, outcome, answer, call>>

-----------------------------------------------------------------------------
\* The steps a call takes once it is entered, and the requests that enter it.
CallStep(c) ==
    \/ NewConnect(c) \/ NewConnectFails(c) \/ NewAdd(c)
    \/ BeginTurn(c) \/ BeginTurnBusy(c)
    \/ \E s \in Sessions : ShutdownNext(c, s)
    \/ ShutdownEnds(c)
    \/ NothingToCancel(c) \/ StartCancel(c)
    \/ \E err \in BOOLEAN : Interrupt(c, err)
    \/ CompleteCancel(c) \/ Disconnect(c)
    \/ SetConnect(c) \/ SetConnectFails(c)
    \/ Swap(c) \/ SwapRefused(c) \/ DropOld(c)

Request(c) ==
    \/ Initialize(c)
    \/ \E valid \in BOOLEAN : NewRefused(c, valid)
    \/ \E s \in Sessions :
          \/ \E x \in Transports, withMcp \in BOOLEAN : NewSession(c, s, x, withMcp)
          \/ \E valid \in BOOLEAN : PromptRefused(c, s, valid)
          \/ \E t \in Turns : StartPrompt(c, s, t)
          \/ CancelUnknown(c, s) \/ CancelSession(c, s)
          \/ CloseUnknown(c, s) \/ CloseSession(c, s)
          \/ \E valid \in BOOLEAN : SetRefused(c, s, valid)
          \/ \E mode \in ToolModes : SetConfigValue(c, s, mode)
          \/ SameModel(c, s)
          \/ \E m \in Models, x \in Transports : SetSessionModel(c, s, m, x)

RunStep(t) ==
    \/ RunStart(t) \/ RunEvent(t) \/ RunDone(t) \/ RunWait(t) \/ RunUnblock(t)
    \/ RunCheck(t) \/ RunFinish(t)

TransportStep(t) ==
    \/ \E kind \in EventKinds : TurnEmits(t, kind)
    \/ \E result \in Outcomes : TurnEnds(t, result)

Next ==
    \/ \E c \in Callers : Request(c) \/ Shutdown(c) \/ CallStep(c) \/ Resume(c)
    \/ \E t \in Turns : RunStep(t) \/ TransportStep(t)
    \/ CancelParent

Spec == Init /\ [][Next]_vars

\* Goroutines in the middle of something go on; a turn whose context is
\* cancelled ends, since every wait of the transport watches the context.
\* Nothing makes a client call, or a turn end that nobody cancelled.
Fairness ==
    /\ \A c \in Callers : WF_vars(CallStep(c) \/ Resume(c))
    /\ \A t \in Turns :
          /\ WF_vars(RunStep(t))
          /\ WF_vars(CtxDone(t) /\ \E result \in Outcomes : TurnEnds(t, result))

FairSpec == Spec /\ Fairness

-----------------------------------------------------------------------------
Running(t) == run[t] \notin {"unused", "returned"}

\* From the moment its slot is taken until Run frees it, a turn is its
\* session's active turn and no other turn is: finishTurn, completeCancel and
\* waitCancelResult, which all act on Session.active without naming a turn,
\* then act on the right one.
SlotConsistent ==
    /\ \A t \in Turns : Running(t) => active[owner[t]] = t
    /\ \A s \in Sessions : active[s] # None =>
          Running(active[s]) /\ owner[active[s]] = s

\* Run reads Session.Transport and Session.Config without the lock: neither
\* changes while a turn of the session runs.
ConfigFrozen ==
    [][\A t \in Turns : Running(t) /\ Running(t)' =>
          /\ transport'[owner[t]] = transport[owner[t]]
          /\ config'[owner[t]] = config[owner[t]]]_vars

\* A turn marked as cancelling has its cancel result, or a call is about to
\* bring it: nobody waits on cancelDone forever.
CancelHasOwner ==
    \A t \in Turns : Running(t) /\ t \in cancelling =>
        \/ t \in cancelDone
        \/ \E c \in Callers : call[c].pc \in {"interrupt", "complete"}
                              /\ call[c].t = t

\* A prompt reports a cancellation failure only if it was cancelled itself:
\* the result of a late cancel never lands on the next turn of the session.
\* (One caller, as in the server: completeCancel does not name its turn.)
NoPhantomCancelFailure ==
    \A t \in Turns : t \in cancelErr \/ answer[t] = "cancel_failed" =>
        t \in cancelling

\* A turn that Run has yet to start, or is streaming, on a transport that was
\* disconnected has a context that is done.  The Claude client relies on it: a
\* Disconnect that could not kill the session leaves it a nil stopReader.
\* (One caller, as in the server: with two, a prompt may begin between the
\* startCancel of a close and its Disconnect.)
ReleasedTurnsCancelled ==
    \A t \in Turns :
        run[t] \in {"ready", "stream"} /\ link[transport[owner[t]]] = "released" =>
            CtxDone(t)

\* A turn that is being cancelled returns: the gate opens, whatever the
\* interrupt's result, and the cancelled context ends the transport's turn.
CancelledTurnReturns ==
    \A t \in Turns : (t \in cancelling) ~> (run[t] = "returned")

\* Shutdown brings every running turn to its end.
ShutdownEndsTurns == closing ~> (\A t \in Turns : ~Running(t))

\* A repeated cancellation keeps the effective state: once the interrupt of
\* a turn has succeeded, a second one does not turn it into a failure.
RepeatedCancelKeepsState ==
    [][\A t \in Turns : Running(t) /\ t \in cancelDone /\ t \notin cancelErr
          => t \notin cancelErr']_vars
=============================================================================
