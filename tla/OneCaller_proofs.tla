--------------------------- MODULE OneCaller_proofs ---------------------------
(***************************************************************************)
(* What holds of Service when one goroutine makes all the calls, one after *)
(* the other, as the Serve goroutine of the server does.                   *)
(***************************************************************************)
EXTENDS Service_proofs

\* A call that has a transport of its own, and one that cleans up a session.
Holding(c) == call[c].pc \in {"connect", "add", "setconnect", "swap", "drop"}
Cleaning(c) == /\ call[c].op \in {"close", "shutdown"}
               /\ call[c].pc \in {"startcancel", "interrupt", "complete", "disconnect"}

\* What the call knows: its transport is its own, a prompt or a change of the
\* model finds its session registered, a cleanup does not; only the turn it
\* cancels can be active, and before a Disconnect that turn's context is done.
CallHolds(c) ==
    /\ Holding(c) => /\ \A s \in Sessions : transport[s] # call[c].x
                     /\ link[call[c].x] # "none"
    /\ call[c].pc \in {"add", "swap"} => link[call[c].x] = "connected"
    /\ call[c].pc \in {"begin", "setconnect", "swap"} => call[c].s \in registry
    /\ Cleaning(c) => call[c].s \notin registry
    /\ call[c].pc = "disconnect" => Cleaning(c)
    /\ call[c].pc \in {"startcancel", "interrupt", "complete"} =>
          call[c].op = "cancel" \/ Cleaning(c)
    /\ call[c].pc \in {"idle", "return"} => call[c].todo = {}
    /\ call[c].op = "shutdown" =>
          registry \subseteq call[c].todo /\ ~Holding(c) /\ call[c].pc # "begin"
    /\ call[c].pc \in {"interrupt", "complete"} => active[call[c].s] \in {call[c].t, None}
    /\ call[c].pc = "disconnect" => active[call[c].s] \in ctxDone \cup {None}

\* Every session has a transport of its own, connected while it is registered.
TransportsKnow ==
    /\ \A s, r \in Sessions : transport[s] # None /\ transport[s] = transport[r] => s = r
    /\ \A s \in Sessions : transport[s] # None => link[transport[s]] # "none"
    /\ \A s \in registry : link[transport[s]] = "connected"

\* A transport that is not released and an MCP file on disk belong to a
\* registered session or to the call in progress.
NothingLost(c) ==
    /\ \A x \in Transports : link[x] \in {"connecting", "connected"} =>
          \/ \E s \in registry : transport[s] = x
          \/ Holding(c) /\ call[c].x = x
          \/ Cleaning(c) /\ transport[call[c].s] = x
    /\ \A s \in mcp :
          \/ s \in registry
          \/ call[c].s = s /\ (Cleaning(c) \/ call[c].pc \in {"connect", "add"})

OInv(c) ==
    /\ CallHolds(c)
    /\ TransportsKnow
    /\ NothingLost(c)
    /\ NoPhantomCancelFailure
    /\ ReleasedTurnsCancelled

-----------------------------------------------------------------------------
\* A call that was in nothing and is answered at once changes nothing else.
LEMMA AnsweredHolds ==
    ASSUME IInv, NEW c \in Callers, OInv(c), call[c].pc = "idle",
           NEW op \in Ops \ {"shutdown"}, NEW ret \in {"ok", "error"}, Reply(c, op, ret),
           UNCHANGED <<registry, transport, mcp, link>>
    PROVE  CallHolds(c)' /\ TransportsKnow' /\ NothingLost(c)'
<1>1. call'[c] = [IdleCall EXCEPT !.op = op, !.pc = "return", !.ret = ret]
  BY DEF IInv, TypeOK, Reply, Become
<1>2. CallHolds(c)'
  BY <1>1 DEF CallHolds, Holding, Cleaning, IdleCall
<1>3. TransportsKnow'
  BY DEF OInv, TransportsKnow
<1>4. NothingLost(c)'
  BY DEF OInv, NothingLost, Holding, Cleaning
<1> QED BY <1>2, <1>3, <1>4

\* A request is answered at once or the call is entered.
LEMMA RequestHolds ==
    ASSUME IInv, NEW c \in Callers, OInv(c), Request(c) \/ Shutdown(c)
    PROVE  CallHolds(c)' /\ TransportsKnow' /\ NothingLost(c)'
<1> USE DEF sessionVars, Become
<1>0. DOMAIN call = Callers /\ TypeOK /\ CallHolds(c) /\ TransportsKnow /\ NothingLost(c)
  BY DEF IInv, TypeOK, OInv
<1>1. ASSUME NEW op \in Ops \ {"shutdown"}, NEW ret \in {"ok", "error"},
             call[c].pc = "idle", Reply(c, op, ret), UNCHANGED <<registry, transport, mcp, link>>
      PROVE  CallHolds(c)' /\ TransportsKnow' /\ NothingLost(c)'
  BY <1>1, AnsweredHolds
<1>2. CASE Initialize(c)
  BY <1>1, <1>2 DEF Initialize, Idle, Ops
<1>3. ASSUME NEW s \in Sessions, NEW valid \in BOOLEAN,
             \/ PromptRefused(c, s, valid) \/ SetRefused(c, s, valid)
             \/ CloseUnknown(c, s) \/ CancelUnknown(c, s) \/ SameModel(c, s)
             \/ \E mode \in ToolModes : SetConfigValue(c, s, mode)
      PROVE  CallHolds(c)' /\ TransportsKnow' /\ NothingLost(c)'
  BY <1>1, <1>3 DEF PromptRefused, SetRefused, CloseUnknown, CancelUnknown, SameModel,
     SetConfigValue, Refuse, Idle, Ops
<1>4. ASSUME NEW valid \in BOOLEAN, NewRefused(c, valid)
      PROVE  CallHolds(c)' /\ TransportsKnow' /\ NothingLost(c)'
  BY <1>1, <1>4 DEF NewRefused, Refuse, Idle, Ops
<1>5. ASSUME NEW s \in Sessions, NEW x \in Transports, NEW withMcp \in BOOLEAN,
             NewSession(c, s, x, withMcp)
      PROVE  CallHolds(c)' /\ TransportsKnow' /\ NothingLost(c)'
  <2>1. /\ call'[c] = [IdleCall EXCEPT !.op = "new", !.s = s, !.x = x, !.pc = "connect"]
        /\ link[x] = "none" /\ link' = [link EXCEPT ![x] = "connecting"]
        /\ mcp' \subseteq mcp \cup {s}
        /\ UNCHANGED <<registry, transport>> /\ call[c].pc = "idle"
    BY <1>0, <1>5 DEF NewSession, FreshTransport, Idle
  <2>2. \A r \in Sessions : transport[r] # x
    BY <1>0, <2>1, ServiceAssumption DEF TransportsKnow
  <2>3. CallHolds(c)'
    BY <1>0, <2>1, <2>2 DEF CallHolds, Holding, Cleaning, IdleCall, TypeOK
  <2>4. TransportsKnow'
    BY <1>0, <2>1, <2>2 DEF TransportsKnow, TypeOK
  <2>5. NothingLost(c)'
    BY <1>0, <2>1, <2>2 DEF NothingLost, Holding, Cleaning, IdleCall, TypeOK
  <2> QED BY <2>3, <2>4, <2>5
<1>6. ASSUME NEW s \in Sessions, NEW t \in Turns, StartPrompt(c, s, t)
      PROVE  CallHolds(c)' /\ TransportsKnow' /\ NothingLost(c)'
  <2>1. /\ call'[c] = [IdleCall EXCEPT !.op = "prompt", !.s = s, !.t = t, !.pc = "begin"]
        /\ s \in registry /\ call[c].pc = "idle"
        /\ UNCHANGED <<registry, transport, mcp, link>>
    BY <1>0, <1>6 DEF StartPrompt, Idle
  <2>3. CallHolds(c)'
    BY <2>1 DEF CallHolds, Holding, Cleaning, IdleCall
  <2> QED BY <1>0, <2>1, <2>3 DEF TransportsKnow, NothingLost, Holding, Cleaning
<1>7. ASSUME NEW s \in Sessions, CancelSession(c, s)
      PROVE  CallHolds(c)' /\ TransportsKnow' /\ NothingLost(c)'
  <2>1. /\ call'[c] = [IdleCall EXCEPT !.op = "cancel", !.s = s, !.pc = "startcancel"]
        /\ call[c].pc = "idle" /\ UNCHANGED <<registry, transport, mcp, link>>
    BY <1>0, <1>7 DEF CancelSession, Idle
  <2>3. CallHolds(c)'
    BY <2>1 DEF CallHolds, Holding, Cleaning, IdleCall
  <2> QED BY <1>0, <2>1, <2>3 DEF TransportsKnow, NothingLost, Holding, Cleaning
<1>8. ASSUME NEW s \in Sessions, CloseSession(c, s)
      PROVE  CallHolds(c)' /\ TransportsKnow' /\ NothingLost(c)'
  <2>1. /\ call'[c] = [IdleCall EXCEPT !.op = "close", !.s = s, !.pc = "startcancel"]
        /\ call[c].pc = "idle" /\ UNCHANGED <<transport, mcp, link>>
        /\ registry' = registry \ {s}
    BY <1>0, <1>8 DEF CloseSession, Idle
  <2>3. CallHolds(c)'
    BY <2>1 DEF CallHolds, Holding, Cleaning, IdleCall
  <2>4. TransportsKnow'
    BY <1>0, <2>1 DEF TransportsKnow
  <2>5. NothingLost(c)'
    BY <1>0, <2>1 DEF NothingLost, Holding, Cleaning, IdleCall
  <2> QED BY <2>3, <2>4, <2>5
<1>9. ASSUME NEW s \in Sessions, NEW m \in Models, NEW x \in Transports,
             SetSessionModel(c, s, m, x)
      PROVE  CallHolds(c)' /\ TransportsKnow' /\ NothingLost(c)'
  <2>1. /\ call'[c] = [IdleCall EXCEPT !.op = "set", !.s = s, !.x = x, !.m = m,
                                       !.pc = "setconnect"]
        /\ link[x] = "none" /\ link' = [link EXCEPT ![x] = "connecting"] /\ s \in registry
        /\ UNCHANGED <<registry, transport, mcp>> /\ call[c].pc = "idle"
    BY <1>0, <1>9 DEF SetSessionModel, FreshTransport, Idle
  <2>2. \A r \in Sessions : transport[r] # x
    BY <1>0, <2>1, ServiceAssumption DEF TransportsKnow
  <2>3. CallHolds(c)'
    BY <1>0, <2>1, <2>2 DEF CallHolds, Holding, Cleaning, IdleCall, TypeOK
  <2>4. TransportsKnow'
    BY <1>0, <2>1, <2>2 DEF TransportsKnow, TypeOK
  <2>5. NothingLost(c)'
    BY <1>0, <2>1, <2>2 DEF NothingLost, Holding, Cleaning, IdleCall, TypeOK
  <2> QED BY <2>3, <2>4, <2>5
<1>10. CASE Shutdown(c)
  <2>1. /\ call'[c] = [IdleCall EXCEPT !.op = "shutdown", !.todo = registry, !.pc = "next"]
        /\ call[c].pc = "idle" /\ UNCHANGED <<registry, transport, mcp, link>>
    BY <1>0, <1>10 DEF Shutdown, Idle
  <2>3. CallHolds(c)'
    BY <2>1 DEF CallHolds, Holding, Cleaning, IdleCall
  <2> QED BY <1>0, <2>1, <2>3 DEF TransportsKnow, NothingLost, Holding, Cleaning
<1> QED
  BY <1>2, <1>3, <1>4, <1>5, <1>6, <1>7, <1>8, <1>9, <1>10 DEF Request
-----------------------------------------------------------------------------
\* The steps of a call: what it holds goes to a session or is released, what it
\* cleans up is released.
LEMMA CallStepHolds ==
    ASSUME IInv, NEW c \in Callers, OInv(c), CallStep(c) \/ Resume(c)
    PROVE  CallHolds(c)' /\ TransportsKnow' /\ NothingLost(c)'
<1> USE DEF sessionVars, At, Become
<1>0. /\ DOMAIN call = Callers /\ call[c] \in Calls /\ TypeOK /\ CallKnows(c)
      /\ SessionsKnow /\ CallHolds(c) /\ TransportsKnow /\ NothingLost(c)
      /\ None \notin Transports
  BY ServiceAssumption DEF IInv, TypeOK, OInv, CallsKnow
<1>1. ASSUME NEW ret, Return(c, ret)
      PROVE  call'[c] = [IdleCall EXCEPT !.op = call[c].op, !.pc = "return", !.ret = ret]
  BY <1>0, <1>1 DEF Return, Reply
<1>2. ASSUME NEW pc, Goto(c, pc) PROVE call'[c] = [call[c] EXCEPT !.pc = pc]
  BY <1>0, <1>2 DEF Goto
<1>3. CASE Resume(c)
  <2>1. /\ call'[c] = IdleCall /\ call[c].pc = "return"
        /\ UNCHANGED <<registry, transport, mcp, link>>
    BY <1>0, <1>3 DEF Resume
  <2>2. CallHolds(c)'
    BY <2>1 DEF CallHolds, Holding, Cleaning, IdleCall
  <2> QED BY <1>0, <2>1, <2>2 DEF TransportsKnow, NothingLost, Holding, Cleaning
<1>4. CASE NewConnect(c) \/ SetConnect(c)
  <2>1. /\ \/ call[c].pc = "connect" /\ call'[c] = [call[c] EXCEPT !.pc = "add"]
           \/ call[c].pc = "setconnect" /\ call'[c] = [call[c] EXCEPT !.pc = "swap"]
        /\ link' = [link EXCEPT ![call[c].x] = "connected"]
        /\ UNCHANGED <<registry, transport, mcp, active, ctxDone>>
    BY <1>0, <1>2, <1>4 DEF NewConnect, SetConnect, cancelVars
  <2>2. call[c].x \in Transports
    BY <1>0, <2>1 DEF CallKnows
  <2>k. /\ call'[c].pc \in {"add", "swap"} /\ (call'[c].pc = "swap" => call[c].pc = "setconnect")
        /\ call'[c].x = call[c].x /\ call'[c].s = call[c].s /\ call'[c].op = call[c].op
    BY <1>0, <2>1 DEF Calls
  <2>l. link'[call[c].x] = "connected" /\ call[c].op # "shutdown" /\ Holding(c)
    BY <1>0, <2>1, <2>2 DEF CallHolds, Holding, TypeOK
  <2>3. CallHolds(c)'
    BY <1>0, <2>1, <2>k, <2>l DEF CallHolds, Holding, Cleaning
  <2>4. TransportsKnow'
    BY <1>0, <2>1, <2>2 DEF TransportsKnow, CallHolds, Holding, TypeOK, SessionsKnow
  <2>5. NothingLost(c)'
    BY <1>0, <2>1, <2>2 DEF NothingLost, Holding, Cleaning, TypeOK, CallKnows, Calls
  <2> QED BY <2>3, <2>4, <2>5
<1>5. CASE NewConnectFails(c) \/ SetConnectFails(c) \/ SwapRefused(c) \/ DropOld(c)
  <2>1. /\ Holding(c) /\ \E ret : Return(c, ret)
        /\ link' = [link EXCEPT ![call[c].x] = "released"]
        /\ \/ call[c].pc = "connect" /\ mcp' = mcp \ {call[c].s}
           \/ call[c].pc \notin {"connect", "add"} /\ mcp' = mcp
        /\ UNCHANGED <<registry, transport>>
    BY <1>5 DEF NewConnectFails, SetConnectFails, SwapRefused, DropOld, Holding
  <2>2. call[c].x \in Transports /\ call[c].op # "shutdown"
    BY <1>0, <2>1 DEF CallKnows, CallHolds, Holding
  <2>3. PICK ret : call'[c] = [IdleCall EXCEPT !.op = call[c].op, !.pc = "return", !.ret = ret]
    BY <1>1, <2>1
  <2>4. CallHolds(c)'
    BY <2>2, <2>3 DEF CallHolds, Holding, Cleaning, IdleCall
  <2>5. TransportsKnow'
    BY <1>0, <2>1, <2>2 DEF TransportsKnow, CallHolds, TypeOK, SessionsKnow
  <2>6. NothingLost(c)'
    BY <1>0, <2>1, <2>2 DEF NothingLost, Holding, Cleaning, TypeOK
  <2> QED BY <2>4, <2>5, <2>6
<1>6. CASE NewAdd(c)
  <2>1. /\ call[c].pc = "add" /\ registry' = registry \cup {call[c].s}
        /\ transport' = [transport EXCEPT ![call[c].s] = call[c].x]
        /\ Return(c, "ok") /\ UNCHANGED <<mcp, link>>
    BY <1>6 DEF NewAdd
  <2>2. /\ call[c].x \in Transports /\ call[c].op = "new" /\ call[c].s \in Sessions
        /\ transport[call[c].s] = None /\ call[c].s \notin registry
        /\ link[call[c].x] = "connected" /\ \A r \in Sessions : transport[r] # call[c].x
    BY <1>0, <2>1 DEF CallKnows, CallHolds, Holding, SessionsKnow
  <2>3. call'[c] = [IdleCall EXCEPT !.op = call[c].op, !.pc = "return", !.ret = "ok"]
    BY <1>1, <2>1
  <2>4. CallHolds(c)'
    BY <2>2, <2>3 DEF CallHolds, Holding, Cleaning, IdleCall
  <2>5. TransportsKnow'
    BY <1>0, <2>1, <2>2 DEF TransportsKnow, TypeOK
  <2>6. NothingLost(c)'
    <3>1. ASSUME NEW x \in Transports, link[x] \in {"connecting", "connected"}
          PROVE  \E s \in registry' : transport'[s] = x
      BY <1>0, <2>1, <2>2, <3>1 DEF NothingLost, Holding, Cleaning, TypeOK
    <3> QED BY <1>0, <2>1, <3>1 DEF NothingLost, Cleaning
  <2> QED BY <2>4, <2>5, <2>6
<1>7. CASE BeginTurn(c) \/ BeginTurnBusy(c)
  <2>1. /\ call[c].pc = "begin" /\ \E ret : Return(c, ret)
        /\ UNCHANGED <<registry, transport, mcp, link>>
    BY <1>7 DEF BeginTurn, BeginTurnBusy
  <2>2. call[c].op # "shutdown"
    BY <1>0, <2>1 DEF CallHolds, Calls
  <2>3. PICK ret : call'[c] = [IdleCall EXCEPT !.op = call[c].op, !.pc = "return", !.ret = ret]
    BY <1>1, <2>1
  <2>4. CallHolds(c)'
    BY <2>2, <2>3 DEF CallHolds, Holding, Cleaning, IdleCall
  <2> QED BY <1>0, <2>1, <2>3, <2>4 DEF TransportsKnow, NothingLost, Holding, Cleaning
<1>8. CASE ShutdownEnds(c)
  <2>1. /\ call[c].pc = "next" /\ call[c].todo = {} /\ Return(c, "ok")
        /\ UNCHANGED <<registry, transport, mcp, link>>
    BY <1>8 DEF ShutdownEnds
  <2>2. registry = {}
    BY <1>0, <2>1 DEF CallKnows, CallHolds
  <2>3. call'[c] = [IdleCall EXCEPT !.op = call[c].op, !.pc = "return", !.ret = "ok"]
    BY <1>1, <2>1
  <2>4. CallHolds(c)'
    BY <2>1, <2>2, <2>3 DEF CallHolds, Holding, Cleaning, IdleCall
  <2> QED BY <1>0, <2>1, <2>3, <2>4 DEF TransportsKnow, NothingLost, Holding, Cleaning
<1>9. ASSUME NEW s \in Sessions, ShutdownNext(c, s)
      PROVE  CallHolds(c)' /\ TransportsKnow' /\ NothingLost(c)'
  <2>1. /\ call[c].pc = "next" /\ registry' = registry \ {s}
        /\ call'[c] = [call[c] EXCEPT !.s = s, !.todo = @ \ {s}, !.pc = "startcancel"]
        /\ UNCHANGED <<transport, mcp, link>>
    BY <1>0, <1>9 DEF ShutdownNext
  <2>2. /\ call'[c].pc = "startcancel" /\ call'[c].s = s /\ call'[c].op = "shutdown"
        /\ call'[c].todo = call[c].todo \ {s} /\ registry \subseteq call[c].todo
    BY <1>0, <2>1 DEF CallKnows, CallHolds, Calls
  <2>3. CallHolds(c)'
    BY <2>1, <2>2 DEF CallHolds, Holding, Cleaning
  <2>4. TransportsKnow'
    BY <1>0, <2>1 DEF TransportsKnow
  <2>5. NothingLost(c)'
    BY <1>0, <2>1, <2>2 DEF NothingLost, Holding, Cleaning
  <2> QED BY <2>3, <2>4, <2>5
<1>10. CASE (NothingToCancel(c) \/ CompleteCancel(c)) /\ call[c].op # "cancel"
  <2>1. /\ call[c].pc \in {"startcancel", "complete"} /\ call[c].op # "cancel"
        /\ call'[c] = [call[c] EXCEPT !.pc = "disconnect"]
        /\ UNCHANGED <<registry, transport, mcp, link, active>>
        /\ \/ active[call[c].s] = None /\ ctxDone' = ctxDone
           \/ call[c].pc = "complete" /\ ctxDone' = ctxDone \cup {call[c].t}
    BY <1>0, <1>2, <1>10 DEF NothingToCancel, CompleteCancel, cancelVars
  <2>2. /\ call'[c].pc = "disconnect" /\ call'[c].s = call[c].s /\ call'[c].op = call[c].op
        /\ call'[c].todo = call[c].todo
    BY <1>0, <2>1 DEF Calls
  <2>3. Cleaning(c) /\ active[call[c].s] \in ctxDone' \cup {None}
    BY <1>0, <2>1 DEF CallHolds
  <2>4. CallHolds(c)'
    BY <1>0, <2>1, <2>2, <2>3 DEF CallHolds, Holding, Cleaning
  <2> QED BY <1>0, <2>1, <2>2, <2>4 DEF TransportsKnow, NothingLost, Holding, Cleaning
<1>11. CASE (NothingToCancel(c) \/ CompleteCancel(c)) /\ call[c].op = "cancel"
  <2>1. /\ call[c].pc \in {"startcancel", "complete"} /\ call[c].op = "cancel"
        /\ \E ret : Return(c, ret)
        /\ UNCHANGED <<registry, transport, mcp, link>>
    BY <1>11 DEF NothingToCancel, CompleteCancel
  <2>2. PICK ret : call'[c] = [IdleCall EXCEPT !.op = call[c].op, !.pc = "return", !.ret = ret]
    BY <1>1, <2>1
  <2>3. CallHolds(c)'
    BY <2>1, <2>2 DEF CallHolds, Holding, Cleaning, IdleCall
  <2> QED BY <1>0, <2>1, <2>2, <2>3 DEF TransportsKnow, NothingLost, Holding, Cleaning
<1>12. CASE StartCancel(c) \/ \E err \in BOOLEAN : Interrupt(c, err)
  <2>1. /\ \/ /\ call[c].pc = "startcancel"
              /\ call'[c] = [call[c] EXCEPT !.t = active[call[c].s], !.pc = "interrupt"]
           \/ /\ call[c].pc = "interrupt"
              /\ \E err \in BOOLEAN : call'[c] = [call[c] EXCEPT !.err = err, !.pc = "complete"]
        /\ UNCHANGED <<registry, transport, mcp, link, active>>
    BY <1>0, <1>12 DEF StartCancel, Interrupt
  <2>2. /\ call'[c].pc \in {"interrupt", "complete"} /\ call'[c].s = call[c].s
        /\ call'[c].op = call[c].op /\ call'[c].todo = call[c].todo
        /\ active[call[c].s] \in {call'[c].t, None}
    BY <1>0, <2>1 DEF CallHolds, Calls
  <2>3. call[c].pc \in {"startcancel", "interrupt"}
    BY <2>1
  <2>4. CallHolds(c)'
    BY <1>0, <2>1, <2>2, <2>3 DEF CallHolds, Holding, Cleaning
  <2>5. TransportsKnow'
    BY <1>0, <2>1 DEF TransportsKnow
  <2>6. NothingLost(c)'
    <3>1. ~Holding(c) /\ (Cleaning(c) => Cleaning(c)')
      BY <2>2, <2>3 DEF Holding, Cleaning
    <3>2. call[c].pc \notin {"connect", "add"}
      BY <2>3
    <3> QED BY <1>0, <2>1, <2>2, <3>1, <3>2 DEF NothingLost
  <2> QED BY <2>4, <2>5, <2>6
<1>13. CASE Disconnect(c)
  <2>1. /\ call[c].pc = "disconnect" /\ link' = [link EXCEPT ![transport[call[c].s]] = "released"]
        /\ mcp' = mcp \ {call[c].s} /\ UNCHANGED <<registry, transport>>
        /\ \/ /\ call[c].op = "shutdown"
              /\ call'[c] = [IdleCall EXCEPT !.op = "shutdown", !.todo = call[c].todo, !.pc = "next"]
           \/ /\ call[c].op # "shutdown" /\ Return(c, "ok")
    BY <1>0, <1>13 DEF Disconnect
  <2>2. /\ call[c].s \in Sessions /\ transport[call[c].s] \in Transports
        /\ call[c].s \notin registry /\ Cleaning(c)
    BY <1>0, <2>1 DEF CallKnows, CallHolds, TypeOK
  <2>3. /\ call'[c].op = call[c].op
        /\ \/ call[c].op = "shutdown" /\ call'[c].pc = "next" /\ call'[c].todo = call[c].todo
           \/ call[c].op # "shutdown" /\ call'[c].pc = "return" /\ call'[c].todo = {}
    BY <1>1, <2>1 DEF IdleCall
  <2>4. CallHolds(c)'
    BY <1>0, <2>1, <2>3 DEF CallHolds, Holding, Cleaning
  <2>5. TransportsKnow'
    <3>1. \A s \in registry : transport[s] # None /\ transport[s] # transport[call[c].s]
      BY <1>0, <2>2 DEF TransportsKnow, SessionsKnow, TypeOK
    <3> QED BY <1>0, <2>1, <2>2, <3>1 DEF TransportsKnow, TypeOK
  <2>6. NothingLost(c)'
    BY <1>0, <2>1, <2>2, <2>3 DEF NothingLost, Holding, Cleaning, TypeOK
  <2> QED BY <2>4, <2>5, <2>6
<1>14. CASE Swap(c)
  <2>1. /\ call[c].pc = "swap" /\ transport' = [transport EXCEPT ![call[c].s] = call[c].x]
        /\ call'[c] = [call[c] EXCEPT !.x = transport[call[c].s], !.pc = "drop"]
        /\ UNCHANGED <<registry, mcp, link>>
    BY <1>0, <1>14 DEF Swap
  <2>2. /\ call[c].s \in registry /\ call[c].s \in Sessions /\ call[c].x \in Transports
        /\ transport[call[c].s] # None /\ link[call[c].x] = "connected"
        /\ \A r \in Sessions : transport[r] # call[c].x
    BY <1>0, <2>1 DEF CallKnows, CallHolds, Holding
  <2>3. /\ call'[c].pc = "drop" /\ call'[c].op = call[c].op /\ call[c].op # "shutdown"
        /\ call'[c].x = transport[call[c].s]
    BY <1>0, <2>1 DEF CallHolds, Holding, Calls
  <2>4. CallHolds(c)'
    <3>1. \A r \in Sessions : transport'[r] # call'[c].x
      BY <1>0, <2>1, <2>2, <2>3 DEF TransportsKnow, TypeOK
    <3>2. link'[call'[c].x] # "none"
      BY <1>0, <2>1, <2>2, <2>3 DEF TransportsKnow
    <3> QED BY <2>3, <3>1, <3>2 DEF CallHolds, Holding, Cleaning
  <2>5. TransportsKnow'
    BY <1>0, <2>1, <2>2 DEF TransportsKnow, TypeOK
  <2>6. NothingLost(c)'
    <3>1. ASSUME NEW x \in Transports, link[x] \in {"connecting", "connected"}
          PROVE  (\E s \in registry : transport'[s] = x) \/ call'[c].x = x
      <4>1. CASE call[c].x = x
        BY <1>0, <2>1, <2>2, <4>1 DEF TypeOK
      <4>2. CASE call[c].x # x
        <5>1. PICK s \in registry : transport[s] = x
          BY <1>0, <2>1, <3>1, <4>2 DEF NothingLost, Cleaning
        <5> QED BY <1>0, <2>1, <2>3, <5>1 DEF TypeOK
      <4> QED BY <4>1, <4>2
    <3> QED BY <1>0, <2>1, <2>3, <3>1 DEF NothingLost, Holding, Cleaning
  <2> QED BY <2>4, <2>5, <2>6
<1> QED
  BY <1>3, <1>4, <1>5, <1>6, <1>7, <1>8, <1>9, <1>10, <1>11, <1>12, <1>13, <1>14 DEF CallStep
-----------------------------------------------------------------------------
\* A step of a turn, of its transport or of the context leaves the sessions
\* alone; at most it frees a slot.
LEMMA TurnHolds ==
    ASSUME IInv, NEW c \in Callers, OInv(c),
           CancelParent \/ \E t \in Turns : RunStep(t) \/ TransportStep(t)
    PROVE  CallHolds(c)' /\ TransportsKnow' /\ NothingLost(c)'
<1> USE DEF sessionVars, cancelVars, runVars
<1>0. TypeOK /\ CallHolds(c) /\ TransportsKnow /\ NothingLost(c)
  BY DEF IInv, OInv
<1>1. CASE CancelParent
  BY <1>0, <1>1 DEF CancelParent, CallHolds, TransportsKnow, NothingLost, Holding, Cleaning
<1>2. ASSUME NEW t \in Turns, RunStep(t) \/ TransportStep(t)
      PROVE  CallHolds(c)' /\ TransportsKnow' /\ NothingLost(c)'
  <2>1. /\ UNCHANGED <<registry, transport, mcp, link, call>> /\ ctxDone \subseteq ctxDone'
        /\ active' = active \/ active' = [active EXCEPT ![owner[t]] = None]
    BY <1>2 DEF RunStep, TransportStep, RunStart, RunEvent, RunDone, RunWait, RunUnblock, RunCheck,
       RunFinish, TurnEmits, TurnEnds
  <2>2. \A s \in Sessions : active'[s] \in {active[s], None}
    BY <1>0, <2>1 DEF TypeOK
  <2>k. call[c].pc \in {"interrupt", "complete", "disconnect"} => call[c].s \in Sessions
    BY DEF IInv, CallsKnow, CallKnows
  <2>3. CallHolds(c)'
    BY <1>0, <2>1, <2>2, <2>k DEF CallHolds, Holding, Cleaning
  <2> QED BY <1>0, <2>1, <2>3 DEF TransportsKnow, NothingLost, Holding, Cleaning
<1> QED BY <1>1, <1>2

\* The result of a cancel lands on the turn it was for, or on none.
LEMMA PhantomKeeps ==
    ASSUME IInv, NEW c, Callers = {c}, OInv(c), Next
    PROVE  NoPhantomCancelFailure'
<1> USE DEF sessionVars, cancelVars, runVars, NoPhantomCancelFailure
<1>0. TypeOK /\ CallKnows(c) /\ CallHolds(c) /\ NoPhantomCancelFailure
  BY DEF IInv, CallsKnow, OInv
<1>1. CASE UNCHANGED <<cancelErr, answer>> /\ cancelling \subseteq cancelling'
  BY <1>0, <1>1
<1>2. CASE CompleteCancel(c)
  <2>1. active[call[c].s] \in cancelling \cup {None}
    BY <1>0, <1>2 DEF CompleteCancel, At, CallHolds, CallKnows
  <2>2. UNCHANGED <<cancelling, answer>> /\ cancelErr' \subseteq cancelErr \cup cancelling
    BY <1>2, <2>1 DEF CompleteCancel
  <2> QED BY <1>0, <2>2
<1>3. ASSUME NEW t \in Turns, RunWait(t) \/ RunUnblock(t) \/ RunCheck(t)
      PROVE  NoPhantomCancelFailure'
  <2>1. UNCHANGED <<cancelErr, cancelling>> /\ answer \in [Turns -> Answers \cup {None}]
    BY <1>0, <1>3 DEF RunWait, RunUnblock, RunCheck, TypeOK
  <2>2. active[owner[t]] = t
    BY <1>3 DEF IInv, SlotConsistent, Running, RunWait, RunUnblock, RunCheck
  <2>3. \/ answer' = answer
        \/ answer' = [answer EXCEPT ![t] = "cancel_failed"] /\ t \in cancelErr
        \/ \E a : a # "cancel_failed" /\ answer' = [answer EXCEPT ![t] = a]
    <3>1. CASE RunWait(t)
      BY <2>2, <3>1 DEF RunWait, AfterWait
    <3>2. CASE RunUnblock(t)
      BY <2>2, <3>2 DEF RunUnblock, AfterWait
    <3>3. CASE RunCheck(t)
      <4> DEFINE cancelled == active[owner[t]] \in cancelling \/ CtxDone(t)
                 a == IF outcome[t].err /\ ~cancelled THEN "transport_failed"
                      ELSE StopReason(outcome[t], cancelled)
      <4>1. answer' = [answer EXCEPT ![t] = a]
        BY <3>3 DEF RunCheck
      <4>2. outcome[t] \in OutcomeRecords
        BY <1>0, <3>3 DEF RunCheck, IInv, TurnsKnow, TurnKnows, TypeOK
      <4>3. StopReason(outcome[t], cancelled) # "cancel_failed"
        <5> HIDE DEF cancelled
        <5> QED BY <4>2 DEF StopReason, OutcomeRecords, Lasts
      <4>4. a # "cancel_failed"
        BY <4>3
      <4> HIDE DEF a
      <4> QED BY <4>1, <4>4
    <3> QED BY <1>3, <3>1, <3>2, <3>3
  <2> QED BY <1>0, <2>1, <2>3
<1>4. CASE Request(c) \/ Shutdown(c) \/ Resume(c) \/ CancelParent
  <2>1. UNCHANGED <<cancelErr, answer, cancelling>>
    BY <1>4 DEF Request, Shutdown, Resume, CancelParent, Initialize, NewRefused, NewSession,
       PromptRefused, StartPrompt, CancelUnknown, CancelSession, CloseUnknown, CloseSession,
       SetRefused, SetConfigValue, SameModel, SetSessionModel, Refuse
  <2> QED BY <1>1, <2>1
<1>5. CASE CallStep(c) /\ ~CompleteCancel(c)
  <2>1. UNCHANGED <<cancelErr, answer>> /\ cancelling \subseteq cancelling'
    BY <1>5 DEF CallStep, NewConnect, NewConnectFails, NewAdd, BeginTurn, BeginTurnBusy,
       ShutdownNext, ShutdownEnds, NothingToCancel, StartCancel, Interrupt, Disconnect,
       SetConnect, SetConnectFails, Swap, SwapRefused, DropOld
  <2> QED BY <1>1, <2>1
<1>6. ASSUME NEW t \in Turns, \/ RunStart(t) \/ RunEvent(t) \/ RunDone(t) \/ RunFinish(t)
                              \/ TransportStep(t)
      PROVE  NoPhantomCancelFailure'
  <2>1. UNCHANGED <<cancelErr, answer, cancelling>>
    BY <1>6 DEF RunStart, RunEvent, RunDone, RunFinish, TransportStep, TurnEmits, TurnEnds
  <2> QED BY <1>1, <2>1
<1> QED BY <1>2, <1>3, <1>4, <1>5, <1>6 DEF Next, RunStep
\* A transport is released only when no turn streams on it, or after the
\* context of the turn that does is done.
LEMMA ReleasedKeeps ==
    ASSUME IInv, NEW c, Callers = {c}, OInv(c), Next
    PROVE  ReleasedTurnsCancelled'
<1> USE DEF sessionVars, cancelVars, runVars, CtxDone, At
<1>0. /\ TypeOK /\ CallKnows(c) /\ CallHolds(c) /\ TransportsKnow /\ SlotConsistent
      /\ SessionsKnow /\ None \notin Turns \cup Transports
  BY ServiceAssumption DEF IInv, CallsKnow, OInv
<1>r. ASSUME NEW t \in Turns, run[t] # "unused"
      PROVE  owner[t] \in Sessions /\ transport[owner[t]] \in Transports
  BY <1>0, <1>r DEF IInv, TurnsKnow, TurnKnows, TypeOK
<1>s. ASSUME NEW t \in Turns, run[t] \in {"ready", "stream"}, link[transport[owner[t]]] = "released"
      PROVE  CtxDone(t)
  BY <1>s DEF OInv, ReleasedTurnsCancelled
<1>a. ASSUME NEW t \in Turns, run[t] \in {"ready", "stream"} PROVE active[owner[t]] = t
  BY <1>0, <1>a DEF SlotConsistent, Running
\* What a step may do: keep the turn, its transport and the context.
<1>k. ASSUME \A t \in Turns : run'[t] \in {"ready", "stream"} => run[t] \in {"ready", "stream"},
             UNCHANGED <<owner, transport>>, ctxDone \subseteq ctxDone', parentDone => parentDone',
             \A t \in Turns : /\ run[t] \in {"ready", "stream"}
                              /\ link'[transport[owner[t]]] = "released"
                  => link[transport[owner[t]]] = "released" \/ t \in ctxDone
      PROVE  ReleasedTurnsCancelled'
  BY <1>k, <1>s DEF ReleasedTurnsCancelled
<1>1. CASE CancelParent \/ Shutdown(c) \/ Resume(c) \/ \E t \in Turns : TransportStep(t)
  BY <1>1, <1>k DEF CancelParent, Shutdown, Resume, TransportStep, TurnEmits, TurnEnds
<1>2. ASSUME NEW t \in Turns, RunStep(t) PROVE ReleasedTurnsCancelled'
  <2>1. /\ UNCHANGED <<owner, transport, link, parentDone>> /\ ctxDone \subseteq ctxDone'
        /\ \A u \in Turns : run'[u] \in {"ready", "stream"} => run[u] \in {"ready", "stream"}
    BY <1>0, <1>2 DEF RunStep, RunStart, RunEvent, RunDone, RunWait, RunUnblock, RunCheck, RunFinish,
       AfterWait, TypeOK
  <2> QED BY <1>k, <2>1
<1>3. CASE Request(c)
  <2>1. UNCHANGED <<owner, run, transport, ctxDone, parentDone>>
    BY <1>3 DEF Request, Initialize, NewRefused, NewSession,
       PromptRefused, StartPrompt, CancelUnknown, CancelSession, CloseUnknown, CloseSession,
       SetRefused, SetConfigValue, SameModel, SetSessionModel, Refuse
  <2>2. link' = link \/ \E x \in Transports : link' = [link EXCEPT ![x] = "connecting"]
    BY <1>3 DEF Request, Initialize, NewRefused, NewSession,
       PromptRefused, StartPrompt, CancelUnknown, CancelSession, CloseUnknown, CloseSession,
       SetRefused, SetConfigValue, SameModel, SetSessionModel, Refuse
  <2>3. \A x \in Transports : link'[x] = "released" => link[x] = "released"
    BY <1>0, <2>2 DEF TypeOK
  <2> QED BY <1>k, <1>r, <2>1, <2>3
<1>4. CASE \/ NewConnect(c) \/ SetConnect(c) \/ BeginTurnBusy(c) \/ ShutdownEnds(c)
           \/ NothingToCancel(c) \/ StartCancel(c) \/ CompleteCancel(c)
           \/ (\E s \in Sessions : ShutdownNext(c, s)) \/ \E err \in BOOLEAN : Interrupt(c, err)
  <2>1. UNCHANGED <<owner, run, transport, parentDone>> /\ ctxDone \subseteq ctxDone'
    BY <1>4 DEF NewConnect, SetConnect, BeginTurnBusy, ShutdownEnds, NothingToCancel, StartCancel,
       CompleteCancel, ShutdownNext, Interrupt
  <2>2. link' = link \/ link' = [link EXCEPT ![call[c].x] = "connected"]
    BY <1>4 DEF NewConnect, SetConnect, BeginTurnBusy, ShutdownEnds, NothingToCancel, StartCancel,
       CompleteCancel, ShutdownNext, Interrupt
  <2>3. \A x \in Transports : link'[x] = "released" => link[x] = "released"
    BY <1>0, <2>2 DEF TypeOK
  <2> QED BY <1>k, <1>r, <2>1, <2>3
<1>5. CASE NewConnectFails(c) \/ SetConnectFails(c) \/ SwapRefused(c) \/ DropOld(c)
  <2>1. /\ UNCHANGED <<owner, run, transport, ctxDone, parentDone>> /\ Holding(c)
        /\ link' = [link EXCEPT ![call[c].x] = "released"]
    BY <1>5 DEF NewConnectFails, SetConnectFails, SwapRefused, DropOld, Holding
  <2>2. ASSUME NEW t \in Turns, run[t] # "unused"
        PROVE  link'[transport[owner[t]]] = link[transport[owner[t]]]
    BY <1>0, <1>r, <2>1, <2>2 DEF CallHolds, TypeOK
  <2> QED BY <1>k, <2>1, <2>2
<1>6. CASE Disconnect(c)
  <2>1. /\ UNCHANGED <<owner, run, transport, ctxDone, parentDone>> /\ call[c].pc = "disconnect"
        /\ link' = [link EXCEPT ![transport[call[c].s]] = "released"]
    BY <1>6 DEF Disconnect
  <2>2. call[c].s \in Sessions /\ active[call[c].s] \in ctxDone \cup {None}
    BY <1>0, <2>1 DEF CallKnows, CallHolds
  <2>3. ASSUME NEW t \in Turns, run[t] \in {"ready", "stream"},
               link'[transport[owner[t]]] = "released"
        PROVE  link[transport[owner[t]]] = "released" \/ t \in ctxDone
    <3>1. CASE transport[owner[t]] = transport[call[c].s]
      <4>1. owner[t] = call[c].s
        BY <1>0, <1>r, <2>2, <2>3, <3>1 DEF TransportsKnow
      <4> QED BY <1>0, <1>a, <2>2, <2>3, <4>1
    <3>2. CASE transport[owner[t]] # transport[call[c].s]
      BY <1>0, <1>r, <2>1, <2>3, <3>2 DEF TypeOK
    <3> QED BY <3>1, <3>2
  <2> QED BY <1>k, <2>1, <2>3
<1>7. CASE NewAdd(c) \/ Swap(c)
  <2>1. /\ UNCHANGED <<owner, run, ctxDone, parentDone, link>>
        /\ transport' = [transport EXCEPT ![call[c].s] = call[c].x]
        /\ \/ call[c].pc = "add"
           \/ call[c].pc = "swap" /\ active[call[c].s] = None
    BY <1>7 DEF NewAdd, Swap
  <2>2. ASSUME NEW t \in Turns, run[t] \in {"ready", "stream"}
        PROVE  transport'[owner[t]] = transport[owner[t]]
    <3>1. owner[t] # call[c].s
      BY <1>0, <1>a, <1>r, <2>1, <2>2 DEF CallKnows
    <3> QED BY <1>0, <1>r, <2>1, <2>2, <3>1 DEF TypeOK
  <2> QED BY <1>s, <2>1, <2>2 DEF ReleasedTurnsCancelled
<1>8. CASE BeginTurn(c)
  <2>1. /\ UNCHANGED <<transport, ctxDone, parentDone, link>> /\ call[c].pc = "begin"
        /\ owner' = [owner EXCEPT ![call[c].t] = call[c].s]
        /\ run' = [run EXCEPT ![call[c].t] = "ready"]
    BY <1>8 DEF BeginTurn
  <2>2. call[c].t \in Turns /\ call[c].s \in registry /\ link[transport[call[c].s]] = "connected"
    BY <1>0, <2>1 DEF CallKnows, CallHolds, TransportsKnow
  <2>3. ASSUME NEW t \in Turns, t # call[c].t PROVE run'[t] = run[t] /\ owner'[t] = owner[t]
    BY <1>0, <2>1, <2>3 DEF TypeOK
  <2>4. owner'[call[c].t] = call[c].s
    BY <1>0, <2>1, <2>2 DEF TypeOK
  <2> QED BY <1>s, <2>1, <2>2, <2>3, <2>4 DEF ReleasedTurnsCancelled
<1> QED
  BY <1>1, <1>2, <1>3, <1>4, <1>5, <1>6, <1>7, <1>8 DEF Next, CallStep
-----------------------------------------------------------------------------
\* At the start there are no sessions and no turns, and nothing is called.
LEMMA InitOInv == ASSUME NEW c \in Callers, Init PROVE OInv(c)
<1>1. call[c] = IdleCall
  BY DEF Init
<1>2. CallHolds(c)
  BY <1>1 DEF CallHolds, Holding, Cleaning, IdleCall
<1>3. TransportsKnow /\ NothingLost(c)
  BY DEF Init, TransportsKnow, NothingLost
<1>4. NoPhantomCancelFailure /\ ReleasedTurnsCancelled
  BY ServiceAssumption DEF Init, NoPhantomCancelFailure, ReleasedTurnsCancelled, Answers
<1> QED BY <1>2, <1>3, <1>4 DEF OInv

\* Every step keeps the invariant of the one caller.
LEMMA NextOInv ==
    ASSUME NEW c, Callers = {c}, IInv, OInv(c), [Next]_vars
    PROVE  OInv(c)'
<1>1. CASE Next
  <2>1. CallHolds(c)' /\ TransportsKnow' /\ NothingLost(c)'
    BY <1>1, RequestHolds, CallStepHolds, TurnHolds DEF Next
  <2>2. NoPhantomCancelFailure' /\ ReleasedTurnsCancelled'
    BY <1>1, PhantomKeeps, ReleasedKeeps
  <2> QED BY <2>1, <2>2 DEF OInv
<1>2. CASE UNCHANGED vars
  <2> USE <1>2 DEF vars, sessionVars, cancelVars, runVars, OInv
  <2>1. CallHolds(c)' /\ TransportsKnow' /\ NothingLost(c)'
    BY DEF CallHolds, TransportsKnow, NothingLost, Holding, Cleaning
  <2>2. NoPhantomCancelFailure' /\ ReleasedTurnsCancelled'
    BY DEF NoPhantomCancelFailure, ReleasedTurnsCancelled, CtxDone
  <2> QED BY <2>1, <2>2
<1> QED BY <1>1, <1>2

\* The invariant of the one caller, on top of the service's.
LEMMA OneCallerInvariance ==
    ASSUME NEW c, Callers = {c}
    PROVE  Spec => [](IInv /\ OInv(c))
<1>1. Init => OInv(c)
  BY InitOInv
<1>2. IInv /\ OInv(c) /\ [Next]_vars => OInv(c)'
  BY NextOInv
<1> QED BY <1>1, <1>2, Invariance, PTL DEF Spec

\* A prompt reports a failed cancellation only if it was itself cancelled: the
\* turn a late cancel result lands on is the one its call saw, or none.
THEOREM NoPhantom ==
    ASSUME NEW c, Callers = {c}
    PROVE  Spec => []NoPhantomCancelFailure
<1>1. OInv(c) => NoPhantomCancelFailure
  BY DEF OInv
<1> QED BY <1>1, OneCallerInvariance, PTL

\* A turn on a transport that was disconnected is cancelled: a cleanup takes
\* the session out of the registry and cancels its turn before it disconnects.
THEOREM ReleasedCancelled ==
    ASSUME NEW c, Callers = {c}
    PROVE  Spec => []ReleasedTurnsCancelled
<1>1. OInv(c) => ReleasedTurnsCancelled
  BY DEF OInv
<1> QED BY <1>1, OneCallerInvariance, PTL
=============================================================================
