------------------------------- MODULE Server --------------------------------
(***************************************************************************)
(* The ACP server, internal/acp/server.go, on top of the Service: a scan   *)
(* goroutine reads lines from stdin into a channel, the Serve goroutine    *)
(* handles them one at a time and is the service's only caller, and each   *)
(* accepted prompt has a handler goroutine that runs the turn and writes   *)
(* its response.  What a line asks for is chosen when it is handled; its   *)
(* identity is its position in the input.                                  *)
(***************************************************************************)
EXTENDS Service, FiniteSets

CONSTANTS
    Dispatcher,   \* the Serve goroutine
    MaxLines      \* most lines the client writes

ASSUME ServerAssumption == Callers = {Dispatcher} /\ MaxLines \in Nat

VARIABLES
    eof,       \* stdin is closed
    scanned,   \* lines the scanner has read
    scan,      \* where the scan goroutine is: put and fail hold a result
    lines,     \* the channel from scan to Serve, of capacity 1
    serve,     \* where the Serve goroutine is
    why,       \* what made Serve leave its loop
    current,   \* the request Serve is dispatching
    silent,    \* the requests without an id, that is the notifications
    request,   \* the request each turn belongs to
    finished,  \* turns whose handler goroutine is done
    out        \* the messages written to stdout

inputVars  == <<eof, scanned, scan, lines>>
serverVars == <<serve, why, current, silent, request, finished>>
allVars    == <<vars, inputVars, serverVars, out>>

Ids == 1 .. MaxLines
ScanError == 0        \* the scanResult that carries an error
NullId == 0           \* the id of the answer to a line that is no request
NoRequest == 0

Update(i) == [type |-> "update", id |-> i]
Response(i) == [type |-> "response", id |-> i]
Messages == [type : {"update", "response"}, id : 0 .. MaxLines]

ServerTypeOK ==
    /\ eof \in BOOLEAN
    /\ scanned \in 0 .. MaxLines
    /\ scan \in {"scan", "put", "fail", "closed"}
    /\ lines \in Seq(0 .. MaxLines) /\ Len(lines) <= 1
    /\ serve \in {"select", "call", "stop", "stopping", "wait", "unwind",
                  "returned"}
    /\ why \in {"none", "ctx", "eof", "error"}
    /\ current \in 0 .. MaxLines
    /\ silent \subseteq Ids
    /\ request \in [Turns -> 0 .. MaxLines]
    /\ finished \subseteq Turns
    /\ out \in Seq(Messages)

ServerInit ==
    /\ Init
    /\ eof = FALSE /\ scanned = 0 /\ scan = "scan" /\ lines = <<>>
    /\ serve = "select" /\ why = "none" /\ current = NoRequest
    /\ silent = {} /\ finished = {}
    /\ request = [t \in Turns |-> NoRequest]
    /\ out = <<>>

-----------------------------------------------------------------------------
\* The client closes stdin; what it wrote before has been scanned.
ClientCloses ==
    /\ ~eof
    /\ eof' = TRUE
    /\ UNCHANGED <<vars, scanned, scan, lines, serverVars, out>>

Signal == CancelParent /\ UNCHANGED <<inputVars, serverVars, out>>

\* The scan goroutine reads a line that the client wrote, fails on one it
\* cannot take or on a closed stdin, or reaches the end.
ScanLine ==
    /\ scan = "scan" /\ ~eof /\ scanned < MaxLines
    /\ scanned' = scanned + 1
    /\ scan' = "put"
    /\ UNCHANGED <<vars, eof, lines, serverVars, out>>

ScanFails ==
    /\ scan = "scan"
    /\ scan' = "fail"
    /\ UNCHANGED <<vars, eof, scanned, lines, serverVars, out>>

ScanEnds ==
    /\ scan = "scan" /\ eof
    /\ scan' = "closed"
    /\ UNCHANGED <<vars, eof, scanned, lines, serverVars, out>>

\* Mutant: the channel has no limit.
ScanPutUnbounded ==
    /\ scan \in {"put", "fail"}
    /\ lines' = Append(lines, IF scan = "fail" THEN ScanError ELSE scanned)
    /\ scan' = IF scan = "fail" THEN "closed" ELSE "scan"
    /\ UNCHANGED <<vars, eof, scanned, serverVars, out>>

\* The result goes into the channel when it is empty; after an error, and
\* once the context is cancelled, the scan is over.
ScanPut ==
    /\ scan \in {"put", "fail"} /\ lines = <<>>
    /\ lines' = <<IF scan = "fail" THEN ScanError ELSE scanned>>
    /\ scan' = IF scan = "fail" THEN "closed" ELSE "scan"
    /\ UNCHANGED <<vars, eof, scanned, serverVars, out>>

ScanCancelled ==
    /\ scan \in {"put", "fail"} /\ parentDone
    /\ scan' = "closed"
    /\ UNCHANGED <<vars, eof, scanned, lines, serverVars, out>>

-----------------------------------------------------------------------------
\* The Serve goroutine takes the next line.
Take ==
    /\ serve = "select"
    /\ lines # <<>> /\ Head(lines) # ScanError
    /\ lines' = <<>>
    /\ UNCHANGED <<eof, scanned, scan>>

\* Malformed JSON, or JSON that is no request: answered with the null id.
HandleGarbage ==
    /\ Take
    /\ out' = Append(out, Response(NullId))
    /\ UNCHANGED <<vars, serverVars>>

\* An unknown method or parameters that do not decode (for session/cancel
\* too, which is then ignored, as every notification is).
HandleUndecodable(notification) ==
    LET i == Head(lines)
    IN  /\ Take
        /\ silent' = IF notification THEN silent \cup {i} ELSE silent
        /\ out' = IF notification THEN out ELSE Append(out, Response(i))
        /\ UNCHANGED <<vars, serve, why, current, request, finished>>

\* A request of the service is dispatched on this goroutine.
HandleRequest(notification) ==
    LET i == Head(lines)
    IN  /\ Take
        /\ Request(Dispatcher)
        /\ silent' = IF notification THEN silent \cup {i} ELSE silent
        /\ current' = i
        /\ serve' = "call"
        /\ UNCHANGED <<why, request, finished, out>>

\* Inside the call; beginTurn ties the turn to the request and starts its
\* handler goroutine.
DispatchStep ==
    /\ CallStep(Dispatcher)
    /\ request' = [t \in Turns |-> IF run[t] = "unused" /\ run'[t] = "ready"
                                   THEN current ELSE request[t]]
    /\ UNCHANGED <<inputVars, serve, why, current, silent, finished, out>>

\* Mutant: an accepted prompt is answered like every other request.
RespondAlways ==
    /\ serve = "call"
    /\ Resume(Dispatcher)
    /\ serve' = "select"
    /\ current' = NoRequest
    /\ out' = IF call[Dispatcher].op = "cancel" \/ current \in silent
              THEN out ELSE Append(out, Response(current))
    /\ UNCHANGED <<inputVars, why, silent, request, finished>>

\* The call is over.  A cancel is never answered and an accepted prompt not
\* yet; every other request is, unless it is a notification.
Respond ==
    /\ serve = "call"
    /\ Resume(Dispatcher)
    /\ serve' = "select"
    /\ current' = NoRequest
    /\ out' = IF \/ call[Dispatcher].op = "cancel"
                 \/ call[Dispatcher].op = "prompt" /\ call[Dispatcher].ret = "ok"
                 \/ current \in silent
              THEN out
              ELSE Append(out, Response(current))
    /\ UNCHANGED <<inputVars, why, silent, request, finished>>

\* Mutant: the context is looked at when the input is over only.
SelectDoneAtEnd ==
    /\ serve = "select" /\ parentDone /\ scan = "closed"
    /\ eof' = TRUE
    /\ serve' = "stop" /\ why' = "ctx"
    /\ UNCHANGED <<vars, scanned, scan, lines, current, silent,
                   request, finished, out>>

\* Mutant: a scan error leaves Serve without a shutdown.
SelectErrorUnwinds ==
    /\ serve = "select"
    /\ lines = <<ScanError>>
    /\ lines' = <<>>
    /\ serve' = "unwind" /\ why' = "error"
    /\ UNCHANGED <<vars, eof, scanned, scan, current, silent,
                   request, finished, out>>

\* The three ways out of the loop: the context, the end of the input (which
\* cancels the context), a scan error.
SelectDone ==
    /\ serve = "select" /\ parentDone
    /\ eof' = TRUE
    /\ serve' = "stop" /\ why' = "ctx"
    /\ UNCHANGED <<vars, scanned, scan, lines, current, silent,
                   request, finished, out>>

SelectEof ==
    /\ serve = "select" /\ lines = <<>> /\ scan = "closed"
    /\ CancelParent \/ (parentDone /\ UNCHANGED vars)
    /\ serve' = "stop" /\ why' = "eof"
    /\ UNCHANGED <<inputVars, current, silent, request, finished, out>>

SelectError ==
    /\ serve = "select"
    /\ lines = <<ScanError>>
    /\ lines' = <<>>
    /\ serve' = "stop" /\ why' = "error"
    /\ UNCHANGED <<vars, eof, scanned, scan, current, silent,
                   request, finished, out>>

\* Whatever the way out, the service is shut down once, on this goroutine;
\* only the end of the input waits for the handlers.
Stop ==
    /\ serve = "stop"
    /\ Shutdown(Dispatcher)
    /\ serve' = "stopping"
    /\ UNCHANGED <<inputVars, why, current, silent, request, finished, out>>

Stopped ==
    /\ serve = "stopping"
    /\ Resume(Dispatcher)
    /\ serve' = CASE why = "eof"   -> "wait"
                  [] why = "error" -> "unwind"
                  [] OTHER         -> "returned"
    /\ UNCHANGED <<inputVars, why, current, silent, request, finished, out>>

Unwind ==
    /\ serve = "unwind"
    /\ CancelParent \/ (parentDone /\ UNCHANGED vars)
    /\ serve' = "returned"
    /\ UNCHANGED <<inputVars, why, current, silent, request, finished, out>>

Handlers == {t \in Turns : run[t] # "unused"} \ finished

\* Mutant: nobody waits.
WaitedForNone ==
    /\ serve = "wait"
    /\ serve' = "returned"
    /\ UNCHANGED <<vars, inputVars, why, current, silent, request, finished, out>>

Waited ==
    /\ serve = "wait"
    /\ Handlers = {}
    /\ serve' = "returned"
    /\ UNCHANGED <<vars, inputVars, why, current, silent, request, finished, out>>

-----------------------------------------------------------------------------
\* The handler goroutine of a turn: Run, whose events become updates on
\* stdout, then the response.
HandlerRuns(t) ==
    /\ RunStep(t)
    /\ out' = IF stream'[t] # stream[t] /\ Shown(t, Head(stream[t]))
              THEN Append(out, Update(request[t])) ELSE out
    /\ UNCHANGED <<inputVars, serverVars>>

\* Mutant: the response is written before the deferred finishTurn.
HandlerRespondsFirst(t) ==
    /\ run[t] \in {"finish", "returned"} /\ t \notin finished
    /\ out' = IF request[t] \in silent THEN out
              ELSE Append(out, Response(request[t]))
    /\ finished' = finished \cup {t}
    /\ UNCHANGED <<vars, inputVars, serve, why, current, silent, request>>

\* Mutant: the response is written when the result is there, whatever events
\* are still to be delivered.
HandlerRespondsOnDone(t) ==
    /\ outcome[t] # None /\ t \notin finished
    /\ out' = IF request[t] \in silent THEN out
              ELSE Append(out, Response(request[t]))
    /\ finished' = finished \cup {t}
    /\ UNCHANGED <<vars, inputVars, serve, why, current, silent, request>>

HandlerResponds(t) ==
    /\ run[t] = "returned" /\ t \notin finished
    /\ out' = IF request[t] \in silent THEN out
              ELSE Append(out, Response(request[t]))
    /\ finished' = finished \cup {t}
    /\ UNCHANGED <<vars, inputVars, serve, why, current, silent, request>>

Backend(t) == TransportStep(t) /\ UNCHANGED <<inputVars, serverVars, out>>

\* Serve has returned: the process may exit.
Terminated == serve = "returned" /\ UNCHANGED allVars

ScanStep == ScanLine \/ ScanFails \/ ScanEnds \/ ScanPut \/ ScanCancelled
ServeStep ==
    \/ HandleGarbage
    \/ \E notification \in BOOLEAN :
          HandleUndecodable(notification) \/ HandleRequest(notification)
    \/ DispatchStep \/ Respond
    \/ SelectDone \/ SelectEof \/ SelectError
    \/ Stop \/ Stopped \/ Unwind \/ Waited
HandlerStep(t) == HandlerRuns(t) \/ HandlerResponds(t)

ServerNext ==
    \/ ClientCloses \/ Signal
    \/ ScanStep \/ ServeStep
    \/ \E t \in Turns : HandlerStep(t) \/ Backend(t)
    \/ Terminated

ServerSpec == ServerInit /\ [][ServerNext]_allVars

\* Goroutines that can step do, as long as the process lives: it exits when
\* Serve has returned.  The client and the signals owe nothing, and a read of
\* an open stdin may block forever.
ServerFairness ==
    /\ WF_allVars(ScanEnds \/ ScanPut \/ ScanCancelled)
    /\ WF_allVars(ServeStep)
    /\ \A t \in Turns :
          /\ WF_allVars(serve # "returned" /\ HandlerStep(t))
          /\ WF_allVars(/\ serve # "returned"
                        /\ CtxDone(t)
                        /\ \E result \in Outcomes : TurnEnds(t, result)
                        /\ UNCHANGED <<inputVars, serverVars, out>>)

FairServerSpec == ServerSpec /\ ServerFairness

-----------------------------------------------------------------------------
Responses(i) == Cardinality({k \in DOMAIN out : out[k] = Response(i)})
Begun(t) == run[t] # "unused"

\* A request is answered at most once, a notification never, and an accepted
\* prompt exactly when its handler is done, whichever way the turn ended.
AnsweredOnce ==
    /\ \A i \in Ids : Responses(i) <= (IF i \in silent THEN 0 ELSE 1)
    /\ \A t \in Turns : Begun(t) /\ request[t] \notin silent =>
          Responses(request[t]) = (IF t \in finished THEN 1 ELSE 0)

\* A client that waits for the answer to a prompt finds the session free: the
\* slot is given up before the response is written.
SlotFreeOnAnswer ==
    \A t \in Turns : Begun(t) /\ Responses(request[t]) > 0 =>
        active[owner[t]] # t

\* Every update of a prompt is on stdout before its response.
UpdatesPrecedeResponse ==
    \A k, l \in DOMAIN out :
        out[k].type = "response" /\ out[k].id # NullId /\ k < l =>
            out[l] # Update(out[k].id)

\* When the input ended, Serve returns only after every accepted prompt has
\* its answer.
EndOfInputAnswersPrompts ==
    serve = "returned" /\ why = "eof" =>
        \A t \in Turns : Begun(t) /\ request[t] \notin silent =>
            Responses(request[t]) = 1

\* Whichever way Serve returned, the service was shut down: no session is
\* registered, no transport connected, no MCP file left.
ReturnLeavesNothing ==
    serve = "returned" =>
        /\ registry = {} /\ mcp = {}
        /\ \A x \in Transports : link[x] \in {"none", "released"}

\* The server is a client of the service like any other: every step of it is
\* a step of the service or leaves it alone.
ServerImplementsService == Spec

\* The end of the input and a signal make Serve return.
ServeReturns == (eof \/ parentDone) ~> (serve = "returned")

\* A cancelled prompt gets its answer, unless the process exits first.
CancelledPromptAnswered ==
    \A t \in Turns :
        (t \in cancelling) ~> (t \in finished \/ serve = "returned")
=============================================================================
