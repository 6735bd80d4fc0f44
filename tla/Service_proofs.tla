--------------------------- MODULE Service_proofs ----------------------------
(***************************************************************************)
(* Theorems about Service, for any number of callers, sessions, turns and  *)
(* transports.                                                             *)
(***************************************************************************)
EXTENDS Service, TLAPS

\* What a call in progress knows: the session, transport, model and turn its
\* next steps use are there.
CallKnows(c) ==
    LET k == call[c]
    IN  /\ k.pc \in {"connect", "add"} =>
              /\ k.op = "new" /\ k.x \in Transports
              /\ k.s \in Sessions /\ transport[k.s] = None
        /\ k.pc \in {"begin", "startcancel", "interrupt", "complete",
                     "disconnect", "setconnect", "swap", "drop"} =>
              k.op # "new" /\ k.s \in Sessions /\ transport[k.s] # None
        /\ k.pc = "begin" => k.t \in Turns /\ run[k.t] = "unused"
        /\ k.pc \in {"interrupt", "complete"} =>
              k.t \in Turns /\ k.t \in cancelling /\ owner[k.t] = k.s
        /\ k.pc \in {"setconnect", "swap", "drop"} => k.x \in Transports
        /\ k.pc \in {"setconnect", "swap"} => k.m \in Models
        /\ k.pc = "next" => k.op = "shutdown"
        /\ \A s \in k.todo : transport[s] # None

CallsKnow == \A c \in Callers : CallKnows(c)

\* No two calls are about to make the same turn or the same session.
Apart(c, d) ==
    /\ call[c].pc = "begin" /\ call[d].pc = "begin" => call[c].t # call[d].t
    /\ call[c].pc \in {"connect", "add"} /\ call[d].pc \in {"connect", "add"}
          => call[c].s # call[d].s

CallsApart == \A c, d \in Callers : c # d => Apart(c, d)

\* What is true of the sessions and the turns themselves.
SessionsKnow == \A s \in registry : transport[s] # None

TurnKnows(t) ==
    /\ run[t] = "unused" =>
          t \notin cancelling /\ t \notin cancelErr /\ t \notin cancelDone
    /\ run[t] # "unused" => owner[t] \in Sessions /\ transport[owner[t]] # None
    /\ run[t] \in {"wait", "blocked", "check"} => outcome[t] # None

TurnsKnow == \A t \in Turns : TurnKnows(t)

IInv ==
    /\ TypeOK
    /\ CallsKnow
    /\ CallsApart
    /\ SessionsKnow
    /\ TurnsKnow
    /\ SlotConsistent
    /\ CancelHasOwner

-----------------------------------------------------------------------------
\* The type of `call'.  Every change of it makes one call another record.

LEMMA BecomeType ==
    ASSUME call \in [Callers -> Calls], NEW c \in Callers, NEW k \in Calls, Become(c, k)
    PROVE  call' \in [Callers -> Calls]
    BY DEF Become
\* A call that is answered at once has a record of the right type.
LEMMA ReplyType ==
    ASSUME call \in [Callers -> Calls], NEW c \in Callers, NEW op \in Ops,
           NEW ret \in {"ok", "error"}, Reply(c, op, ret)
    PROVE  call' \in [Callers -> Calls]
<1>1. [IdleCall EXCEPT !.op = op, !.pc = "return", !.ret = ret] \in Calls
    BY DEF IdleCall, Calls, CallPCs
<1> QED BY <1>1, BecomeType DEF Reply
\* A call that only moves on has a record of the right type.
LEMMA GotoType ==
    ASSUME call \in [Callers -> Calls], NEW c \in Callers, NEW pc \in CallPCs, Goto(c, pc)
    PROVE  call' \in [Callers -> Calls]
<1>1. [call[c] EXCEPT !.pc = pc] \in Calls
    BY DEF Calls
<1> QED BY <1>1, BecomeType DEF Goto
\* A call that returns has a record of the right type.
LEMMA ReturnType ==
    ASSUME call \in [Callers -> Calls], NEW c \in Callers,
           NEW ret \in {"ok", "error"}, Return(c, ret)
    PROVE  call' \in [Callers -> Calls]
<1>1. call[c].op \in Ops BY DEF Calls
<1> QED BY <1>1, ReplyType DEF Return

\* The other changes of a record, one by one.
LEMMA FieldTypes ==
    ASSUME NEW k \in Calls
    PROVE  /\ \A t \in Turns : [k EXCEPT !.t = t, !.pc = "interrupt"] \in Calls
           /\ \A err \in BOOLEAN : [k EXCEPT !.err = err, !.pc = "complete"] \in Calls
           /\ \A x \in Transports \cup {None} :
                 [k EXCEPT !.x = x, !.pc = "drop"] \in Calls
           /\ \A s \in Sessions :
                 [k EXCEPT !.s = s, !.todo = @ \ {s}, !.pc = "startcancel"] \in Calls
<1> USE DEF Calls, CallPCs
<1>1. \A t \in Turns : [k EXCEPT !.t = t, !.pc = "interrupt"] \in Calls
    OBVIOUS
<1>2. \A err \in BOOLEAN : [k EXCEPT !.err = err, !.pc = "complete"] \in Calls
    OBVIOUS
<1>3. \A x \in Transports \cup {None} : [k EXCEPT !.x = x, !.pc = "drop"] \in Calls
    OBVIOUS
<1>4. \A s \in Sessions :
          [k EXCEPT !.s = s, !.todo = @ \ {s}, !.pc = "startcancel"] \in Calls
    OBVIOUS
<1> QED BY <1>1, <1>2, <1>3, <1>4

\* The record of a call that takes a step is one of Calls.
LEMMA CallTypeStep ==
    ASSUME TypeOK, NEW c \in Callers, CallKnows(c), CallStep(c)
    PROVE  call' \in [Callers -> Calls]
<1> USE DEF TypeOK
<1>0. call[c] \in Calls
  OBVIOUS
<1>1. CASE NewConnect(c) \/ SetConnect(c)
  BY <1>1, GotoType DEF NewConnect, SetConnect, CallPCs
<1>2. CASE NewConnectFails(c) \/ NewAdd(c) \/ BeginTurn(c) \/ BeginTurnBusy(c) \/ ShutdownEnds(c) \/ SetConnectFails(c) \/ SwapRefused(c) \/ DropOld(c)
  BY <1>2, ReturnType DEF NewConnectFails, NewAdd, BeginTurn, BeginTurnBusy, ShutdownEnds, SetConnectFails, SwapRefused, DropOld
<1>3. CASE NothingToCancel(c)
  BY <1>3, ReturnType, GotoType DEF NothingToCancel, CallPCs
<1>4. CASE CompleteCancel(c)
  BY <1>4, ReturnType, GotoType DEF CompleteCancel, CallPCs
<1>5. CASE Disconnect(c)
  <2>1. [IdleCall EXCEPT !.op = "shutdown", !.todo = call[c].todo, !.pc = "next"] \in Calls
    BY DEF Calls, IdleCall, Ops, CallPCs
  <2> QED BY <1>5, <2>1, ReturnType, BecomeType DEF Disconnect
<1>6. CASE StartCancel(c)
  <2>1. [call[c] EXCEPT !.t = active[call[c].s], !.pc = "interrupt"] \in Calls
    BY <1>0, <1>6, FieldTypes DEF StartCancel, CallKnows, At
  <2> QED BY <1>6, <2>1, BecomeType DEF StartCancel
<1>7. ASSUME NEW err \in BOOLEAN, Interrupt(c, err) PROVE call' \in [Callers -> Calls]
  <2>1. [call[c] EXCEPT !.err = err, !.pc = "complete"] \in Calls
    BY <1>0, FieldTypes
  <2> QED BY <1>7, <2>1, BecomeType DEF Interrupt
<1>8. CASE Swap(c)
  <2>1. [call[c] EXCEPT !.x = transport[call[c].s], !.pc = "drop"] \in Calls
    BY <1>0, <1>8, FieldTypes DEF Swap, CallKnows, At
  <2> QED BY <1>8, <2>1, BecomeType DEF Swap
<1>9. ASSUME NEW s \in Sessions, ShutdownNext(c, s) PROVE call' \in [Callers -> Calls]
  <2>1. [call[c] EXCEPT !.s = s, !.todo = @ \ {s}, !.pc = "startcancel"] \in Calls
    BY <1>0, FieldTypes
  <2> QED BY <1>9, <2>1, BecomeType DEF ShutdownNext
<1> QED BY <1>1, <1>2, <1>3, <1>4, <1>5, <1>6, <1>7, <1>8, <1>9 DEF CallStep

\* The records of the calls that are entered.
LEMMA EnterTypes ==
    /\ IdleCall \in Calls
    /\ \A s \in Sessions, x \in Transports :
          [IdleCall EXCEPT !.op = "new", !.s = s, !.x = x, !.pc = "connect"] \in Calls
    /\ \A s \in Sessions, t \in Turns :
          [IdleCall EXCEPT !.op = "prompt", !.s = s, !.t = t, !.pc = "begin"] \in Calls
    /\ \A s \in Sessions, op \in {"cancel", "close"} :
          [IdleCall EXCEPT !.op = op, !.s = s, !.pc = "startcancel"] \in Calls
    /\ \A s \in Sessions, m \in Models, x \in Transports :
          [IdleCall EXCEPT !.op = "set", !.s = s, !.x = x, !.m = m,
                           !.pc = "setconnect"] \in Calls
    /\ \A S \in SUBSET Sessions :
          [IdleCall EXCEPT !.op = "shutdown", !.todo = S, !.pc = "next"] \in Calls
<1> USE DEF IdleCall, Calls, Ops, CallPCs
<1>1. IdleCall \in Calls
  OBVIOUS
<1>2. ASSUME NEW s \in Sessions, NEW x \in Transports
      PROVE  [IdleCall EXCEPT !.op = "new", !.s = s, !.x = x, !.pc = "connect"] \in Calls
  OBVIOUS
<1>3. ASSUME NEW s \in Sessions, NEW t \in Turns
      PROVE  [IdleCall EXCEPT !.op = "prompt", !.s = s, !.t = t, !.pc = "begin"] \in Calls
  OBVIOUS
<1>4. ASSUME NEW s \in Sessions, NEW op \in {"cancel", "close"}
      PROVE  [IdleCall EXCEPT !.op = op, !.s = s, !.pc = "startcancel"] \in Calls
  OBVIOUS
<1>5. ASSUME NEW s \in Sessions, NEW m \in Models, NEW x \in Transports
      PROVE  [IdleCall EXCEPT !.op = "set", !.s = s, !.x = x, !.m = m,
                              !.pc = "setconnect"] \in Calls
  OBVIOUS
<1>6. ASSUME NEW S \in SUBSET Sessions
      PROVE  [IdleCall EXCEPT !.op = "shutdown", !.todo = S, !.pc = "next"] \in Calls
  OBVIOUS
<1> HIDE DEF IdleCall, Calls, Ops, CallPCs
<1> QED BY <1>1, <1>2, <1>3, <1>4, <1>5, <1>6

\* The record of a call that is entered, or over, is one of Calls.
LEMMA RequestTypeStep ==
    ASSUME TypeOK, NEW c \in Callers, Request(c) \/ Shutdown(c) \/ Resume(c)
    PROVE  call' \in [Callers -> Calls]
<1> USE DEF TypeOK
<1>1. CASE Initialize(c)
    BY <1>1, ReplyType DEF Initialize, Ops
<1>2. CASE \/ \E valid \in BOOLEAN : NewRefused(c, valid)
           \/ \E s \in Sessions, valid \in BOOLEAN :
                 PromptRefused(c, s, valid) \/ SetRefused(c, s, valid)
           \/ \E s \in Sessions : CloseUnknown(c, s)
    BY <1>2, ReplyType DEF NewRefused, PromptRefused, SetRefused, CloseUnknown,
                           Refuse, Ops
<1>3. CASE \E s \in Sessions : \/ CancelUnknown(c, s) \/ SameModel(c, s)
                               \/ \E mode \in ToolModes : SetConfigValue(c, s, mode)
    BY <1>3, ReplyType DEF CancelUnknown, SameModel, SetConfigValue, Ops
<1>4. CASE \E s \in Sessions : \/ CancelSession(c, s) \/ CloseSession(c, s)
    BY <1>4, EnterTypes, BecomeType DEF CancelSession, CloseSession
<1>5. CASE \E s \in Sessions, x \in Transports, withMcp \in BOOLEAN :
              NewSession(c, s, x, withMcp)
    BY <1>5, EnterTypes, BecomeType DEF NewSession
<1>6. CASE \E s \in Sessions, t \in Turns : StartPrompt(c, s, t)
    BY <1>6, EnterTypes, BecomeType DEF StartPrompt
<1>7. CASE \E s \in Sessions, m \in Models, x \in Transports :
              SetSessionModel(c, s, m, x)
    BY <1>7, EnterTypes, BecomeType DEF SetSessionModel
<1>8. CASE Shutdown(c) \/ Resume(c)
    BY <1>8, EnterTypes, BecomeType DEF Shutdown, Resume
<1> QED BY <1>1, <1>2, <1>3, <1>4, <1>5, <1>6, <1>7, <1>8 DEF Request

-----------------------------------------------------------------------------
\* The other variables keep their types, action by action.
LEMMA TypeStep == IInv /\ [Next]_vars => TypeOK'
<1> SUFFICES ASSUME IInv, [Next]_vars PROVE TypeOK'
    OBVIOUS
<1> USE DEF TypeOK, sessionVars, cancelVars, runVars
<1>t. TypeOK
    BY DEF IInv
<1>k. \A c \in Callers : CallKnows(c)
    BY DEF IInv, CallsKnow
<1>1. ASSUME NEW c \in Callers, Request(c) \/ Shutdown(c) \/ Resume(c) PROVE TypeOK'
    <2>0. call' \in [Callers -> Calls]
        BY <1>t, <1>1, RequestTypeStep
    <2>1. CASE \E s \in Sessions, x \in Transports, withMcp \in BOOLEAN :
                  NewSession(c, s, x, withMcp)
        BY <1>t, <2>0, <2>1 DEF NewSession, Links
    <2>2. CASE \E s \in Sessions, m \in Models, x \in Transports :
                  SetSessionModel(c, s, m, x)
        BY <1>t, <2>0, <2>2 DEF SetSessionModel, Links
    <2>3. ASSUME NEW s \in Sessions, NEW mode \in ToolModes, SetConfigValue(c, s, mode)
          PROVE  TypeOK'
        <3>1. [config[s] EXCEPT !.tools = mode] \in Configs
            BY <1>t DEF Configs
        <3> QED BY <1>t, <2>0, <2>3, <3>1 DEF SetConfigValue
    <2>4. CASE Initialize(c) \/ Shutdown(c) \/ Resume(c)
        BY <1>t, <2>0, <2>4 DEF Initialize, Shutdown, Resume
    <2>5. CASE \/ \E valid \in BOOLEAN : NewRefused(c, valid)
               \/ \E s \in Sessions, valid \in BOOLEAN :
                     PromptRefused(c, s, valid) \/ SetRefused(c, s, valid)
               \/ \E s \in Sessions : CloseUnknown(c, s)
        BY <1>t, <2>0, <2>5 DEF NewRefused, PromptRefused, SetRefused,
                                CloseUnknown, Refuse
    <2>6. CASE \E s \in Sessions : \/ CancelUnknown(c, s) \/ SameModel(c, s)
                                   \/ CancelSession(c, s) \/ CloseSession(c, s)
                                   \/ \E t \in Turns : StartPrompt(c, s, t)
        BY <1>t, <2>0, <2>6 DEF CancelUnknown, SameModel, CancelSession,
                                CloseSession, StartPrompt
    <2> QED BY <1>1, <2>1, <2>2, <2>3, <2>4, <2>5, <2>6 DEF Request
<1>2. ASSUME NEW c \in Callers, CallStep(c) PROVE TypeOK'
    <2>0. call' \in [Callers -> Calls]
        BY <1>t, <1>k, <1>2, CallTypeStep
    <2>1. call[c] \in Calls /\ CallKnows(c)
        BY <1>t, <1>k
    <2> USE DEF CallKnows, At
    <2>2. CASE NewConnect(c) \/ NewConnectFails(c) \/ SetConnect(c)
        BY <1>t, <2>0, <2>1, <2>2 DEF NewConnect, NewConnectFails, SetConnect, Links
    <2>3. CASE SetConnectFails(c) \/ SwapRefused(c) \/ DropOld(c)
        BY <1>t, <2>0, <2>1, <2>3 DEF SetConnectFails, SwapRefused, DropOld, Links
    <2>4. CASE NewAdd(c)
        BY <1>t, <2>0, <2>1, <2>4 DEF NewAdd
    <2>5. CASE BeginTurn(c)
        BY <1>t, <2>0, <2>1, <2>5 DEF BeginTurn, RunPCs
    <2>6. CASE \/ BeginTurnBusy(c) \/ ShutdownEnds(c) \/ NothingToCancel(c)
               \/ \E err \in BOOLEAN : Interrupt(c, err)
        BY <1>t, <2>0, <2>1, <2>6 DEF BeginTurnBusy, ShutdownEnds,
                                      NothingToCancel, Interrupt
    <2>7. CASE \E s \in Sessions : ShutdownNext(c, s)
        BY <1>t, <2>0, <2>1, <2>7 DEF ShutdownNext
    <2>8. CASE StartCancel(c)
        BY <1>t, <2>0, <2>1, <2>8 DEF StartCancel
    <2>9. CASE CompleteCancel(c)
        BY <1>t, <2>0, <2>1, <2>9 DEF CompleteCancel
    <2>10. CASE Disconnect(c)
        BY <1>t, <2>0, <2>1, <2>10 DEF Disconnect, Links
    <2>11. CASE Swap(c)
        <3>1. transport' = [transport EXCEPT ![call[c].s] = call[c].x]
              /\ config' = [config EXCEPT ![call[c].s].model = call[c].m]
              /\ UNCHANGED <<closing, parentDone, registry, mcp, link, active,
                             cancelVars, runVars>>
            BY <2>11 DEF Swap
        <3>2. call[c].s \in Sessions /\ call[c].x \in Transports /\ call[c].m \in Models
            BY <2>1, <2>11 DEF Swap, At, CallKnows
        <3>3. config' \in [Sessions -> Configs]
            <4>1. [config[call[c].s] EXCEPT !.model = call[c].m] \in Configs
                BY <1>t, <3>2 DEF Configs
            <4>2. config' = [config EXCEPT ![call[c].s] =
                                 [config[call[c].s] EXCEPT !.model = call[c].m]]
                BY <3>1
            <4> QED BY <1>t, <3>2, <4>1, <4>2
        <3>4. transport' \in [Sessions -> Transports \cup {None}]
            BY <1>t, <3>1, <3>2
        <3> HIDE DEF TypeOK
        <3>5. UNCHANGED <<closing, parentDone, registry, mcp, link, active>>
            BY <3>1
        <3>6. UNCHANGED <<cancelling, cancelErr, cancelDone, ctxDone>>
            BY <3>1
        <3>7. UNCHANGED <<owner, run, stream, emitted, outcome, answer>>
            BY <3>1
        <3> QED BY <1>t, <2>0, <3>3, <3>4, <3>5, <3>6, <3>7 DEF TypeOK
    <2> QED BY <1>2, <2>2, <2>3, <2>4, <2>5, <2>6, <2>7, <2>8, <2>9, <2>10,
               <2>11 DEF CallStep
<1>3. ASSUME NEW t \in Turns, RunStep(t) PROVE TypeOK'
    <2>0. TurnKnows(t)
        BY DEF IInv, TurnsKnow
    <2> USE DEF RunPCs
    <2>1. CASE RunStart(t) \/ RunDone(t)
        BY <1>t, <2>1 DEF RunStart, RunDone
    <2>2. CASE RunEvent(t)
        BY <1>t, <2>2 DEF RunEvent
    <2>3. CASE RunWait(t) \/ RunUnblock(t)
        BY <1>t, <2>3 DEF RunWait, RunUnblock, AfterWait, Answers
    <2>4. CASE RunCheck(t)
        <3>1. outcome[t] \in OutcomeRecords
            BY <1>t, <2>0, <2>4 DEF RunCheck, TurnKnows
        <3>2. \A r \in OutcomeRecords, b \in BOOLEAN : StopReason(r, b) \in Answers
            BY DEF StopReason, OutcomeRecords, Lasts, Answers, StopReasons
        <3>3. answer' \in [Turns -> Answers \cup {None}]
            BY <1>t, <2>4, <3>1, <3>2 DEF RunCheck, Answers, CtxDone
        <3> QED BY <1>t, <2>4, <3>3 DEF RunCheck
    <2>5. CASE RunFinish(t)
        BY <1>t, <2>5 DEF RunFinish
    <2> QED BY <1>3, <2>1, <2>2, <2>3, <2>4, <2>5 DEF RunStep
<1>4. ASSUME NEW t \in Turns, TransportStep(t) PROVE TypeOK'
    <2>1. CASE \E kind \in EventKinds : TurnEmits(t, kind)
        BY <1>t, <2>1, ServiceAssumption DEF TurnEmits
    <2>2. CASE \E result \in Outcomes : TurnEnds(t, result)
        BY <1>t, <2>2, ServiceAssumption DEF TurnEnds
    <2> QED BY <1>4, <2>1, <2>2 DEF TransportStep
<1>5. CASE CancelParent
    BY <1>t, <1>5 DEF CancelParent
<1>6. CASE UNCHANGED vars
    BY <1>t, <1>6 DEF vars
<1> QED BY <1>1, <1>2, <1>3, <1>4, <1>5, <1>6 DEF Next

-----------------------------------------------------------------------------
\* Most steps change nothing but the record of one call, what was done to a
\* transport, a file, or take sessions out of the registry.
Frame(c) ==
    /\ UNCHANGED <<active, owner, run, outcome, cancelling, cancelErr, cancelDone>>
    /\ \A s \in Sessions : (transport'[s] = None) <=> (transport[s] = None)
    /\ registry' \subseteq registry
    /\ \A d \in Callers : d # c => call'[d] = call[d]

\* The call that owes a turn its cancel result still does.
KeepsDuty(c) ==
    call[c].pc \in {"interrupt", "complete"} =>
        call'[c].pc \in {"interrupt", "complete"} /\ call'[c].t = call[c].t

\* A step of the frame kind preserves the invariant when the types are kept and
\* the record of its own caller is in order.
LEMMA FrameStep ==
    ASSUME IInv, TypeOK', NEW c \in Callers, Frame(c), KeepsDuty(c), CallKnows(c)',
           \A d \in Callers : d # c => Apart(c, d)'
    PROVE  IInv'
<1> USE DEF IInv
<1>1. \A d \in Callers : d # c => call'[d] = call[d]
    BY DEF Frame
<1>2. CallsKnow'
    <2> SUFFICES ASSUME NEW d \in Callers, d # c PROVE CallKnows(d)'
        BY DEF CallsKnow
    <2> QED BY <1>1 DEF CallsKnow, CallKnows, Frame, TypeOK, Calls
<1>3. CallsApart'
    BY <1>1 DEF CallsApart, Apart
<1>4. SessionsKnow' /\ TurnsKnow'
    BY DEF SessionsKnow, TurnsKnow, TurnKnows, Frame, TypeOK
<1>5. SlotConsistent'
    BY DEF SlotConsistent, Running, Frame
<1>6. CancelHasOwner'
    BY <1>1 DEF CancelHasOwner, Running, Frame, KeepsDuty
<1> QED BY <1>2, <1>3, <1>4, <1>5, <1>6

\* The steps of that kind when a call is entered or over.
LEMMA RequestStep ==
    ASSUME IInv, TypeOK', NEW c \in Callers, Request(c) \/ Shutdown(c) \/ Resume(c)
    PROVE  IInv'
<1> USE DEF Become, IdleCall, sessionVars,
            cancelVars, runVars, Idle, At
<1>t. TypeOK /\ CallKnows(c)
    BY DEF IInv, CallsKnow
<1>1. ASSUME NEW op, NEW ret, Idle(c), Reply(c, op, ret),
             UNCHANGED <<registry, transport, active, owner, run, outcome,
                         cancelling, cancelErr, cancelDone>>
      PROVE  IInv'
    <2>1. call'[c] = [IdleCall EXCEPT !.op = op, !.pc = "return", !.ret = ret]
        BY <1>t, <1>1 DEF Reply, TypeOK
    <2>2. Frame(c) /\ KeepsDuty(c)
        BY <1>t, <1>1, <2>1 DEF Reply, TypeOK, Frame, KeepsDuty
    <2>k. CallKnows(c)'
        BY <1>t, <1>1, <2>1 DEF Reply, CallKnows
    <2>3. \A d \in Callers : d # c => Apart(c, d)'
        BY <2>1 DEF Apart
    <2> QED BY <2>2, <2>k, <2>3, FrameStep
<1>2. CASE Initialize(c)
    BY <1>1, <1>2 DEF Initialize
<1>3. CASE \E valid \in BOOLEAN : NewRefused(c, valid)
    BY <1>1, <1>3 DEF NewRefused, Refuse
<1>4. CASE \E s \in Sessions, valid \in BOOLEAN :
              PromptRefused(c, s, valid) \/ SetRefused(c, s, valid)
    BY <1>1, <1>4 DEF PromptRefused, SetRefused, Refuse
<1>5. CASE \E s \in Sessions : \/ CloseUnknown(c, s) \/ CancelUnknown(c, s)
                               \/ SameModel(c, s)
                               \/ \E mode \in ToolModes : SetConfigValue(c, s, mode)
    BY <1>1, <1>5 DEF CloseUnknown, Refuse, CancelUnknown, SameModel, SetConfigValue
<1>6. ASSUME NEW s \in Sessions, NEW x \in Transports, NEW withMcp \in BOOLEAN,
             NewSession(c, s, x, withMcp)
      PROVE  IInv'
    <2>1. call'[c] = [IdleCall EXCEPT !.op = "new", !.s = s, !.x = x, !.pc = "connect"]
        BY <1>t, <1>6 DEF NewSession, TypeOK
    <2>2. Frame(c) /\ KeepsDuty(c)
        BY <1>t, <1>6, <2>1 DEF NewSession, FreshSession, TypeOK, Frame, KeepsDuty
    <2>k. CallKnows(c)'
        BY <1>t, <1>6, <2>1 DEF NewSession, FreshSession, CallKnows
    <2>3. \A d \in Callers : d # c => Apart(c, d)'
        BY <1>t, <1>6, <2>1 DEF NewSession, FreshSession, IInv, CallsKnow,
                                   CallKnows, TypeOK, Apart
    <2> QED BY <2>2, <2>k, <2>3, FrameStep
<1>7. ASSUME NEW s \in Sessions, NEW t \in Turns, StartPrompt(c, s, t) PROVE IInv'
    <2>1. call'[c] = [IdleCall EXCEPT !.op = "prompt", !.s = s, !.t = t, !.pc = "begin"]
        BY <1>t, <1>7 DEF StartPrompt, TypeOK
    <2>2. Frame(c) /\ KeepsDuty(c)
        BY <1>t, <1>7, <2>1 DEF StartPrompt, FreshTurn, IInv, SessionsKnow, TypeOK, Frame, KeepsDuty
    <2>k. CallKnows(c)'
        BY <1>t, <1>7, <2>1 DEF StartPrompt, FreshTurn, IInv, SessionsKnow, CallKnows
    <2>3. \A d \in Callers : d # c => Apart(c, d)'
        BY <1>t, <1>7, <2>1 DEF StartPrompt, FreshTurn, TypeOK, Apart
    <2> QED BY <2>2, <2>k, <2>3, FrameStep
<1>8. ASSUME NEW s \in Sessions, CancelSession(c, s) \/ CloseSession(c, s) PROVE IInv'
    <2>1. \E op \in {"cancel", "close"} :
              call'[c] = [IdleCall EXCEPT !.op = op, !.s = s, !.pc = "startcancel"]
        BY <1>t, <1>8 DEF CancelSession, CloseSession, TypeOK
    <2>2. Frame(c) /\ KeepsDuty(c)
        BY <1>t, <1>8, <2>1 DEF CancelSession, CloseSession, IInv, SessionsKnow, TypeOK, Frame, KeepsDuty
    <2>k. CallKnows(c)'
        BY <1>t, <1>8, <2>1 DEF CancelSession, CloseSession, IInv, SessionsKnow, CallKnows
    <2>3. \A d \in Callers : d # c => Apart(c, d)'
        BY <2>1 DEF Apart
    <2> QED BY <2>2, <2>k, <2>3, FrameStep
<1>9. ASSUME NEW s \in Sessions, NEW m \in Models, NEW x \in Transports,
             SetSessionModel(c, s, m, x)
      PROVE  IInv'
    <2>1. call'[c] = [IdleCall EXCEPT !.op = "set", !.s = s, !.x = x, !.m = m,
                                      !.pc = "setconnect"]
        BY <1>t, <1>9 DEF SetSessionModel, TypeOK
    <2>2. Frame(c) /\ KeepsDuty(c)
        BY <1>t, <1>9, <2>1 DEF SetSessionModel, IInv, SessionsKnow, TypeOK, Frame, KeepsDuty
    <2>k. CallKnows(c)'
        BY <1>t, <1>9, <2>1 DEF SetSessionModel, IInv, SessionsKnow, CallKnows
    <2>3. \A d \in Callers : d # c => Apart(c, d)'
        BY <2>1 DEF Apart
    <2> QED BY <2>2, <2>k, <2>3, FrameStep
<1>10. CASE Shutdown(c)
    <2>1. call'[c] = [IdleCall EXCEPT !.op = "shutdown", !.todo = registry,
                                      !.pc = "next"]
        BY <1>t, <1>10 DEF Shutdown, TypeOK
    <2>2. Frame(c) /\ KeepsDuty(c)
        BY <1>t, <1>10, <2>1 DEF Shutdown, TypeOK, Frame, KeepsDuty
    <2>k. CallKnows(c)'
        BY <1>t, <1>10, <2>1 DEF Shutdown, IInv, SessionsKnow, CallKnows
    <2>3. \A d \in Callers : d # c => Apart(c, d)'
        BY <2>1 DEF Apart
    <2> QED BY <2>2, <2>k, <2>3, FrameStep
<1>11. CASE Resume(c)
    <2>1. call'[c] = IdleCall
        BY <1>t, <1>11 DEF Resume, TypeOK
    <2>2. Frame(c) /\ KeepsDuty(c)
        BY <1>t, <1>11, <2>1 DEF Resume, TypeOK, Frame, KeepsDuty
    <2>k. CallKnows(c)'
        BY <1>t, <1>11, <2>1 DEF Resume, IInv, SessionsKnow, CallKnows
    <2>3. \A d \in Callers : d # c => Apart(c, d)'
        BY <2>1 DEF Apart
    <2> QED BY <2>2, <2>k, <2>3, FrameStep
<1> QED BY <1>2, <1>3, <1>4, <1>5, <1>6, <1>7, <1>8, <1>9, <1>10,
           <1>11 DEF Request

\* The steps of a call in progress.
LEMMA CallStepKeeps ==
    ASSUME IInv, TypeOK', NEW c \in Callers, CallStep(c)
    PROVE  IInv'
<1> USE DEF Become, IdleCall, sessionVars, cancelVars, runVars, At, Goto
<1>t. TypeOK /\ CallKnows(c)
    BY DEF IInv, CallsKnow
<1>1. ASSUME NEW ret, Return(c, ret), call[c].pc \notin {"interrupt", "complete"},
             registry' \subseteq registry,
             UNCHANGED <<transport, active, owner, run, outcome, cancelling,
                         cancelErr, cancelDone>>
      PROVE  IInv'
    <2>1. call'[c] = [IdleCall EXCEPT !.op = call[c].op, !.pc = "return", !.ret = ret]
        BY <1>t, <1>1 DEF Return, Reply, TypeOK
    <2>2. Frame(c) /\ KeepsDuty(c)
        BY <1>t, <1>1, <2>1 DEF Return, Reply, TypeOK, Frame, KeepsDuty
    <2>k. CallKnows(c)'
        BY <1>t, <1>1, <2>1 DEF CallKnows
    <2>3. \A d \in Callers : d # c => Apart(c, d)'
        BY <2>1 DEF Apart
    <2> QED BY <2>2, <2>k, <2>3, FrameStep
<1>2. CASE NewConnectFails(c) \/ BeginTurnBusy(c) \/ ShutdownEnds(c)
           \/ SetConnectFails(c) \/ SwapRefused(c) \/ DropOld(c)
    BY <1>1, <1>2 DEF NewConnectFails, BeginTurnBusy, ShutdownEnds,
                      SetConnectFails, SwapRefused, DropOld
<1>3. CASE NewConnect(c)
    <2>1. call'[c] = [call[c] EXCEPT !.pc = "add"]
        BY <1>t, <1>3 DEF NewConnect, TypeOK
    <2>2. Frame(c) /\ KeepsDuty(c)
        BY <1>t, <1>3, <2>1 DEF NewConnect, TypeOK, Frame, KeepsDuty
    <2>k. CallKnows(c)'
        BY <1>t, <1>3, <2>1 DEF NewConnect, TypeOK, CallKnows
    <2>3. \A d \in Callers : d # c => Apart(c, d)'
        BY <1>t, <1>3, <2>1, <2>2 DEF NewConnect, IInv, CallsApart, Apart, Frame
    <2> QED BY <2>2, <2>k, <2>3, FrameStep
<1>4. ASSUME NEW s \in Sessions, ShutdownNext(c, s) PROVE IInv'
    <2>1. call'[c] = [call[c] EXCEPT !.s = s, !.todo = @ \ {s},
                                     !.pc = "startcancel"]
        BY <1>t, <1>4 DEF ShutdownNext, TypeOK
    <2>2. Frame(c) /\ KeepsDuty(c)
        BY <1>t, <1>4, <2>1 DEF ShutdownNext, TypeOK, Frame, KeepsDuty
    <2>k. CallKnows(c)'
        BY <1>t, <1>4, <2>1 DEF ShutdownNext, TypeOK, CallKnows, Calls
    <2>3. \A d \in Callers : d # c => Apart(c, d)'
        BY <2>1 DEF Apart
    <2> QED BY <2>2, <2>k, <2>3, FrameStep
<1>5. CASE NothingToCancel(c)
    <2>1. CASE call[c].op = "cancel"
        BY <1>1, <1>5, <2>1 DEF NothingToCancel
    <2>2. CASE call[c].op # "cancel"
        <3>1. call'[c] = [call[c] EXCEPT !.pc = "disconnect"]
            BY <1>t, <1>5, <2>2 DEF NothingToCancel, TypeOK
        <3>2. Frame(c) /\ KeepsDuty(c)
            BY <1>t, <1>5, <2>2, <3>1 DEF NothingToCancel, TypeOK, Frame, KeepsDuty
        <3>3. CallKnows(c)'
            BY <1>t, <1>5, <3>1 DEF NothingToCancel, TypeOK, CallKnows, Calls
        <3>4. \A d \in Callers : d # c => Apart(c, d)'
            BY <3>1 DEF Apart
        <3> QED BY <3>2, <3>3, <3>4, FrameStep
    <2> QED BY <2>1, <2>2
<1>6. ASSUME NEW err \in BOOLEAN, Interrupt(c, err) PROVE IInv'
    <2>1. call'[c] = [call[c] EXCEPT !.err = err, !.pc = "complete"]
        BY <1>t, <1>6 DEF Interrupt, TypeOK
    <2>2. Frame(c) /\ KeepsDuty(c)
        BY <1>t, <1>6, <2>1 DEF Interrupt, TypeOK, Frame, KeepsDuty
    <2>k. CallKnows(c)'
        BY <1>t, <1>6, <2>1 DEF Interrupt, TypeOK, CallKnows, Calls
    <2>3. \A d \in Callers : d # c => Apart(c, d)'
        BY <2>1 DEF Apart
    <2> QED BY <2>2, <2>k, <2>3, FrameStep
<1>7. CASE Disconnect(c)
    <2>1. CASE call[c].op = "shutdown"
        <3>1. call'[c] = [IdleCall EXCEPT !.op = "shutdown", !.todo = call[c].todo,
                                          !.pc = "next"]
            BY <1>t, <1>7, <2>1 DEF Disconnect, TypeOK
        <3>2. Frame(c) /\ KeepsDuty(c)
            BY <1>t, <1>7, <2>1, <3>1 DEF Disconnect, TypeOK, Frame, KeepsDuty
        <3>3. CallKnows(c)'
            BY <1>t, <1>7, <3>1 DEF Disconnect, TypeOK, CallKnows
        <3>4. \A d \in Callers : d # c => Apart(c, d)'
            BY <3>1 DEF Apart
        <3> QED BY <3>2, <3>3, <3>4, FrameStep
    <2>2. CASE call[c].op # "shutdown"
        BY <1>1, <1>7, <2>2 DEF Disconnect
    <2> QED BY <2>1, <2>2
<1>8. CASE SetConnect(c)
    <2>1. call'[c] = [call[c] EXCEPT !.pc = "swap"]
        BY <1>t, <1>8 DEF SetConnect, TypeOK
    <2>2. Frame(c) /\ KeepsDuty(c)
        BY <1>t, <1>8, <2>1 DEF SetConnect, TypeOK, Frame, KeepsDuty
    <2>k. CallKnows(c)'
        BY <1>t, <1>8, <2>1 DEF SetConnect, TypeOK, CallKnows, Calls
    <2>3. \A d \in Callers : d # c => Apart(c, d)'
        BY <2>1 DEF Apart
    <2> QED BY <2>2, <2>k, <2>3, FrameStep
<1>9. CASE Swap(c)
    <2>1. call'[c] = [call[c] EXCEPT !.x = transport[call[c].s], !.pc = "drop"]
        BY <1>t, <1>9 DEF Swap, TypeOK
    <2>2. Frame(c) /\ KeepsDuty(c)
        BY <1>t, <1>9, <2>1, ServiceAssumption DEF Swap, TypeOK, Frame, KeepsDuty, CallKnows
    <2>k. CallKnows(c)'
        BY <1>t, <1>9, <2>1, ServiceAssumption DEF Swap, TypeOK, CallKnows, Calls
    <2>3. \A d \in Callers : d # c => Apart(c, d)'
        BY <2>1 DEF Apart
    <2> QED BY <2>2, <2>k, <2>3, FrameStep
<1>10. CASE NewAdd(c)
    <2>c. call'[c].pc = "return" /\ call'[c].todo = {}
        BY <1>t, <1>10 DEF NewAdd, Return, Reply, TypeOK
    <2>o. \A d \in Callers : d # c => call'[d] = call[d]
        BY <1>t, <1>10 DEF NewAdd, Return, Reply, TypeOK
    <2>f. /\ UNCHANGED <<run, owner, cancelling>>
          /\ transport' = [transport EXCEPT ![call[c].s] = call[c].x]
          /\ call[c].x \in Transports /\ call[c].s \in Sessions
        BY <1>t, <1>10 DEF NewAdd, TypeOK, CallKnows
    <2>1. CallsKnow'
        <3> SUFFICES ASSUME NEW d \in Callers PROVE CallKnows(d)'
            BY DEF CallsKnow
        <3>k. CallKnows(d)
            BY DEF IInv, CallsKnow
        <3>1. CASE d = c
            BY <1>t, <2>c, <2>f, <3>1 DEF CallKnows
        <3>2. CASE d # c
            <4>1. \A s \in Sessions :
                      /\ transport[s] # None => transport'[s] # None
                      /\ s # call[c].s => transport'[s] = transport[s]
                BY <1>t, <2>f, ServiceAssumption DEF TypeOK
            <4>2. call[d].pc \in {"connect", "add"} => call[d].s # call[c].s
                BY <1>10, <3>2 DEF NewAdd, IInv, CallsApart, Apart
            <4>3. call'[d] = call[d] /\ call[d] \in Calls
                BY <1>t, <2>o, <3>2 DEF TypeOK
            <4> QED BY <2>f, <3>k, <4>1, <4>2, <4>3 DEF CallKnows, Calls
        <3> QED BY <3>1, <3>2
    <2>2. CallsApart'
        <3> SUFFICES ASSUME NEW d \in Callers, NEW e \in Callers, d # e
                     PROVE  Apart(d, e)'
            BY DEF CallsApart
        <3> QED BY <2>c, <2>o DEF IInv, CallsApart, Apart
    <2>3. SessionsKnow'
        BY <1>t, <1>10, <2>f, ServiceAssumption DEF NewAdd, IInv, SessionsKnow,
           TypeOK
    <2>4. TurnsKnow'
        BY <1>t, <1>10, <2>f DEF NewAdd, IInv, TurnsKnow, TurnKnows, TypeOK, CallKnows
    <2>5. SlotConsistent'
        BY <1>t, <1>10, <2>f, ServiceAssumption DEF NewAdd, IInv, SlotConsistent,
           TypeOK, Running, CallKnows
    <2>6. CancelHasOwner'
        BY <1>10, <2>c, <2>o DEF NewAdd, IInv, CancelHasOwner, Running
    <2> QED BY <2>1, <2>2, <2>3, <2>4, <2>5, <2>6 DEF IInv
<1>11. CASE BeginTurn(c)
    <2>c. call'[c].pc = "return" /\ call'[c].todo = {}
        BY <1>t, <1>11 DEF BeginTurn, Return, Reply, TypeOK
    <2>o. \A d \in Callers : d # c => call'[d] = call[d]
        BY <1>t, <1>11 DEF BeginTurn, Return, Reply, TypeOK
    <2>f. /\ UNCHANGED <<transport, cancelling>>
          /\ call[c].t \in Turns /\ call[c].s \in Sessions
          /\ run[call[c].t] = "unused" /\ call[c].pc = "begin"
          /\ run' = [run EXCEPT ![call[c].t] = "ready"]
          /\ owner' = [owner EXCEPT ![call[c].t] = call[c].s]
        BY <1>t, <1>11 DEF BeginTurn, TypeOK, CallKnows
    <2>1. CallsKnow'
        <3> SUFFICES ASSUME NEW d \in Callers PROVE CallKnows(d)'
            BY DEF CallsKnow
        <3>k. CallKnows(d)
            BY DEF IInv, CallsKnow
        <3>1. CASE d = c
            BY <1>t, <2>c, <2>f, <3>1 DEF CallKnows
        <3>2. CASE d # c
            BY <1>t, <2>o, <2>f, <3>2, <3>k DEF CallKnows, IInv, CallsApart, Apart, BeginTurn, TypeOK, TurnsKnow, TurnKnows
        <3> QED BY <3>1, <3>2
    <2>2. CallsApart'
        <3> SUFFICES ASSUME NEW d \in Callers, NEW e \in Callers, d # e
                     PROVE  Apart(d, e)'
            BY DEF CallsApart
        <3> QED BY <2>c, <2>o DEF IInv, CallsApart, Apart
    <2>3. SessionsKnow'
        BY <1>t, <1>11, <2>f DEF BeginTurn, IInv, SessionsKnow, TypeOK, CallKnows
    <2>4. TurnsKnow'
        BY <1>t, <1>11, <2>f DEF BeginTurn, IInv, TurnsKnow, TurnKnows, TypeOK, CallKnows
    <2>5. SlotConsistent'
        BY <1>t, <1>11, <2>f, ServiceAssumption DEF BeginTurn, IInv, SlotConsistent,
           TypeOK, Running, CallKnows
    <2>6. CancelHasOwner'
        <3> SUFFICES ASSUME NEW t \in Turns, Running(t)', t \in cancelling,
                            t \notin cancelDone
                     PROVE  \E d \in Callers :
                                /\ call'[d].pc \in {"interrupt", "complete"}
                                /\ call'[d].t = t
            BY <1>11, <2>f DEF BeginTurn, CancelHasOwner
        <3>1. t # call[c].t
            BY <2>f DEF IInv, TurnsKnow, TurnKnows
        <3>2. Running(t)
            BY <1>t, <2>f, <3>1 DEF Running, TypeOK
        <3>3. PICK d \in Callers : call[d].pc \in {"interrupt", "complete"}
                                   /\ call[d].t = t
            BY <3>2 DEF IInv, CancelHasOwner
        <3> QED BY <2>f, <2>o, <3>3
    <2> QED BY <2>1, <2>2, <2>3, <2>4, <2>5, <2>6 DEF IInv
<1>12. CASE StartCancel(c)
    <2>1. CallsKnow'
        BY <1>12, ServiceAssumption DEF StartCancel, IInv, TypeOK, CallsApart, Apart, CallsKnow, SessionsKnow, TurnsKnow,
                             CallKnows, SlotConsistent, TurnKnows, Calls, CancelHasOwner,
                             Running
    <2>2. CallsApart'
        BY <1>12, ServiceAssumption DEF StartCancel, IInv, TypeOK, CallsApart, Apart, CallsKnow, SessionsKnow, TurnsKnow,
                             CallKnows, SlotConsistent, TurnKnows, Calls, CancelHasOwner,
                             Running
    <2>3. SessionsKnow'
        BY <1>12, ServiceAssumption DEF StartCancel, IInv, TypeOK, CallsApart, Apart, CallsKnow, SessionsKnow, TurnsKnow,
                             CallKnows, SlotConsistent, TurnKnows, Calls, CancelHasOwner,
                             Running
    <2>4. TurnsKnow'
        BY <1>12, ServiceAssumption DEF StartCancel, IInv, TypeOK, CallsApart, Apart, CallsKnow, SessionsKnow, TurnsKnow,
                             CallKnows, SlotConsistent, TurnKnows, Calls, CancelHasOwner,
                             Running
    <2>5. SlotConsistent'
        BY <1>12, ServiceAssumption DEF StartCancel, IInv, TypeOK, CallsApart, Apart, CallsKnow, SessionsKnow, TurnsKnow,
                             CallKnows, SlotConsistent, TurnKnows, Calls, CancelHasOwner,
                             Running
    <2>6. CancelHasOwner'
        BY <1>12, ServiceAssumption DEF StartCancel, IInv, TypeOK, CallsApart, Apart, CallsKnow, SessionsKnow, TurnsKnow,
                             CallKnows, SlotConsistent, TurnKnows, Calls, CancelHasOwner,
                             Running
    <2> QED BY <2>1, <2>2, <2>3, <2>4, <2>5, <2>6 DEF IInv
<1>13. CASE CompleteCancel(c)
    <2>c. /\ call'[c].pc \in {"return", "disconnect"}
          /\ call'[c].todo \subseteq call[c].todo
          /\ call'[c].pc = "disconnect" => call'[c] = [call[c] EXCEPT !.pc = "disconnect"]
        <3>1. CASE call[c].op = "cancel"
            <4>1. PICK ret \in {"error", "ok"} : Return(c, ret)
                BY <1>13, <3>1 DEF CompleteCancel
            <4>2. call'[c] = [IdleCall EXCEPT !.op = call[c].op, !.pc = "return",
                                              !.ret = ret]
                BY <1>t, <4>1 DEF Return, Reply, TypeOK
            <4> QED BY <4>2
        <3>2. CASE call[c].op # "cancel"
            <4>1. call'[c] = [call[c] EXCEPT !.pc = "disconnect"]
                BY <1>t, <1>13, <3>2 DEF CompleteCancel, TypeOK
            <4> QED BY <1>t, <4>1 DEF TypeOK, Calls
        <3> QED BY <3>1, <3>2
    <2>o. \A d \in Callers : d # c => call'[d] = call[d]
        BY <1>t, <1>13 DEF CompleteCancel, Return, Reply, TypeOK
    <2>f. /\ UNCHANGED <<transport, run, owner, cancelling, active, registry, outcome>>
          /\ call[c].pc = "complete"
          /\ call[c].t \in Turns /\ owner[call[c].t] = call[c].s
        BY <1>t, <1>13 DEF CompleteCancel, TypeOK, CallKnows
    <2>1. CallsKnow'
        <3> SUFFICES ASSUME NEW d \in Callers PROVE CallKnows(d)'
            BY DEF CallsKnow
        <3>k. CallKnows(d)
            BY DEF IInv, CallsKnow
        <3>1. CASE d = c
            <4>1. call[c] \in Calls /\ CallKnows(c)
                BY <1>t DEF TypeOK
            <4>2. CASE call'[c].pc = "return"
                BY <2>c, <2>f, <3>1, <4>1, <4>2 DEF CallKnows
            <4>3. CASE call'[c] = [call[c] EXCEPT !.pc = "disconnect"]
                BY <2>f, <3>1, <4>1, <4>3 DEF CallKnows, Calls
            <4> QED BY <2>c, <4>2, <4>3
        <3>2. CASE d # c
            BY <1>t, <2>o, <2>f, <3>2, <3>k DEF CallKnows
        <3> QED BY <3>1, <3>2
    <2>2. CallsApart'
        <3> SUFFICES ASSUME NEW d \in Callers, NEW e \in Callers, d # e
                     PROVE  Apart(d, e)'
            BY DEF CallsApart
        <3> QED BY <2>c, <2>o DEF IInv, CallsApart, Apart
    <2>3. SessionsKnow'
        BY <1>t, <1>13, <2>f DEF CompleteCancel, IInv, SessionsKnow, TypeOK, CallKnows
    <2>4. TurnsKnow'
        <3>1. active[call[c].s] \in Turns => run[active[call[c].s]] # "unused"
            <4>1. call[c].s \in Sessions
                BY <1>t, <2>f DEF CallKnows
            <4> QED BY <4>1, ServiceAssumption DEF IInv, SlotConsistent, Running
        <3> QED BY <1>t, <1>13, <2>f, <3>1 DEF CompleteCancel, IInv, TurnsKnow,
                                               TurnKnows, TypeOK
    <2>5. SlotConsistent'
        BY <1>t, <1>13, <2>f, ServiceAssumption DEF CompleteCancel, IInv, SlotConsistent,
           TypeOK, Running, CallKnows
    <2>6. CancelHasOwner'
        <3> SUFFICES ASSUME NEW t \in Turns, Running(t)', t \in cancelling',
                            t \notin cancelDone'
                     PROVE  \E d \in Callers :
                                /\ call'[d].pc \in {"interrupt", "complete"}
                                /\ call'[d].t = t
            BY DEF CancelHasOwner
        <3>1. Running(t) /\ t \in cancelling /\ t \notin cancelDone
            BY <1>13, <2>f DEF CompleteCancel, Running
        <3>2. PICK d \in Callers : call[d].pc \in {"interrupt", "complete"}
                                   /\ call[d].t = t
            BY <3>1 DEF IInv, CancelHasOwner
        <3>3. active[owner[t]] = t
            BY <3>1 DEF IInv, SlotConsistent
        <3>4. t # call[c].t
            BY <1>13, <2>f, <3>3, ServiceAssumption DEF CompleteCancel
        <3> QED BY <2>o, <3>2, <3>4
    <2> QED BY <2>1, <2>2, <2>3, <2>4, <2>5, <2>6 DEF IInv
<1> QED BY <1>2, <1>3, <1>4, <1>5, <1>6, <1>7, <1>8, <1>9, <1>10, <1>11, <1>12,
           <1>13
           DEF CallStep
-----------------------------------------------------------------------------
\* The steps of a turn leave the calls and the sessions alone.
LEMMA RunStepKeeps ==
    ASSUME IInv, TypeOK', NEW t \in Turns, RunStep(t) \/ TransportStep(t)
    PROVE  IInv'
<1> USE DEF sessionVars, cancelVars, runVars
<1>t. TypeOK
    BY DEF IInv
<1>1. /\ UNCHANGED <<registry, transport, owner, cancelling, cancelErr,
                     cancelDone, call>>
      /\ run[t] \notin {"unused", "returned"}
      /\ \E p \in RunPCs \ {"unused"} : run' = [run EXCEPT ![t] = p]
    <2>1. CASE RunStart(t) \/ RunEvent(t) \/ RunDone(t)
        BY <1>t, <2>1 DEF RunStart, RunEvent, RunDone, RunPCs, TypeOK
    <2>2. CASE RunWait(t)
        BY <1>t, <2>2 DEF RunWait, AfterWait, RunPCs, TypeOK
    <2>3. CASE RunUnblock(t)
        BY <1>t, <2>3 DEF RunUnblock, AfterWait, RunPCs, TypeOK
    <2>4. CASE RunCheck(t) \/ RunFinish(t)
        BY <1>t, <2>4 DEF RunCheck, RunFinish, RunPCs, TypeOK
    <2>5. CASE TransportStep(t)
        BY <1>t, <2>5 DEF TransportStep, TurnEmits, TurnEnds, RunPCs, TypeOK
    <2> QED BY <2>1, <2>2, <2>3, <2>4, <2>5 DEF RunStep
<1>2. PICK p \in RunPCs \ {"unused"} : run' = [run EXCEPT ![t] = p]
    BY <1>1
<1>3. run'[t] = p /\ \A u \in Turns : u # t => run'[u] = run[u]
    BY <1>t, <1>2 DEF TypeOK
<1>4. \/ p # "returned" /\ active' = active
      \/ p = "returned" /\ active' = [active EXCEPT ![owner[t]] = None]
    <2>1. CASE RunFinish(t)
        BY <1>t, <2>1, <1>3 DEF RunFinish, TypeOK
    <2>2. CASE RunStart(t) \/ RunEvent(t) \/ RunDone(t)
        BY <1>t, <2>2, <1>1, <1>3 DEF RunStart, RunEvent, RunDone, TypeOK
    <2>3. CASE RunWait(t)
        BY <1>t, <2>3, <1>3 DEF RunWait, AfterWait, TypeOK
    <2>4. CASE RunUnblock(t)
        BY <1>t, <2>4, <1>3 DEF RunUnblock, AfterWait, TypeOK
    <2>5. CASE RunCheck(t)
        BY <1>t, <2>5, <1>3 DEF RunCheck, TypeOK
    <2>6. CASE TransportStep(t)
        BY <1>t, <2>6, <1>1, <1>3 DEF TransportStep, TurnEmits, TurnEnds, TypeOK
    <2> QED BY <2>1, <2>2, <2>3, <2>4, <2>5, <2>6 DEF RunStep
<1>5. CallsKnow'
    BY <1>1, <1>3 DEF IInv, CallsKnow, CallKnows
<1>6. CallsApart' /\ SessionsKnow'
    BY <1>1 DEF IInv, CallsApart, Apart, SessionsKnow
<1>7. TurnsKnow'
    <2> SUFFICES ASSUME NEW u \in Turns PROVE TurnKnows(u)'
        BY DEF TurnsKnow
    <2>1. TurnKnows(u)
        BY DEF IInv, TurnsKnow
    <2>2. CASE u # t
        <3>1. outcome'[u] = outcome[u]
            BY <1>t, <2>2 DEF RunStep, TransportStep, RunStart, RunEvent, RunDone,
               RunWait, RunUnblock, RunCheck, RunFinish, TurnEmits, TurnEnds, TypeOK
        <3> QED BY <1>1, <1>3, <2>1, <2>2, <3>1 DEF TurnKnows
    <2>3. CASE u = t
        <3>1. p \in {"wait", "blocked", "check"} => outcome'[t] # None
            <4>1. CASE RunStart(t) \/ RunEvent(t) \/ RunDone(t)
                BY <1>t, <1>3, <4>1 DEF RunStart, RunEvent, RunDone, TypeOK
            <4>2. CASE RunWait(t) \/ RunUnblock(t)
                BY <2>1, <2>3, <4>2 DEF RunWait, RunUnblock, TurnKnows
            <4>3. CASE RunCheck(t) \/ RunFinish(t)
                BY <1>t, <1>3, <4>3 DEF RunCheck, RunFinish, TypeOK
            <4>4. CASE TransportStep(t)
                BY <1>t, <1>3, <4>4 DEF TransportStep, TurnEmits, TurnEnds, TypeOK
            <4> QED BY <4>1, <4>2, <4>3, <4>4 DEF RunStep
        <3> QED BY <1>1, <1>3, <2>1, <2>3, <3>1 DEF TurnKnows
    <2> QED BY <2>2, <2>3
<1>8. owner[t] \in Sessions /\ active[owner[t]] = t
    BY <1>1 DEF IInv, TurnsKnow, TurnKnows, SlotConsistent, Running
<1>9. SlotConsistent'
    <2>1. ASSUME NEW u \in Turns, Running(u)' PROVE active'[owner'[u]] = u
        <3>1. Running(u) /\ owner'[u] = owner[u]
            BY <1>1, <1>3, <2>1 DEF Running
        <3>2. active[owner[u]] = u
            BY <3>1 DEF IInv, SlotConsistent
        <3>3. CASE active' = active
            BY <3>1, <3>2, <3>3
        <3>4. CASE p = "returned" /\ active' = [active EXCEPT ![owner[t]] = None]
            <4>1. u # t
                BY <1>3, <2>1, <3>4 DEF Running
            <4>2. owner[u] # owner[t]
                BY <1>8, <3>2, <4>1
            <4>3. owner[u] \in Sessions
                BY <3>1 DEF IInv, TurnsKnow, TurnKnows, Running
            <4> QED BY <1>t, <3>1, <3>2, <3>4, <4>2, <4>3 DEF TypeOK
        <3> QED BY <1>4, <3>3, <3>4
    <2>2. ASSUME NEW s \in Sessions, active'[s] # None
          PROVE  /\ run'[active'[s]] \notin {"unused", "returned"}
                 /\ owner'[active'[s]] = s
        <3>1. active[s] = active'[s]
            BY <1>t, <1>4, <1>8, <2>2 DEF TypeOK
        <3>2. Running(active[s]) /\ owner[active[s]] = s /\ active[s] \in Turns
            BY <1>t, <2>2, <3>1 DEF IInv, SlotConsistent, TypeOK
        <3>3. active[s] = t => p # "returned"
            <4> SUFFICES ASSUME active[s] = t, p = "returned" PROVE FALSE
                OBVIOUS
            <4> QED BY <1>t, <1>4, <1>8, <2>2, <3>1, <3>2 DEF TypeOK
        <3>4. run'[active[s]] \notin {"unused", "returned"}
            BY <1>1, <1>3, <3>1, <3>2, <3>3 DEF Running
        <3> QED BY <1>1, <3>1, <3>2, <3>4
    <2> QED BY <2>1, <2>2 DEF SlotConsistent, Running
<1>10. CancelHasOwner'
    <2>1. \A u \in Turns : Running(u)' => Running(u)
        BY <1>1, <1>3 DEF Running
    <2> QED BY <1>1, <2>1 DEF IInv, CancelHasOwner
<1> QED BY <1>5, <1>6, <1>7, <1>9, <1>10 DEF IInv

-----------------------------------------------------------------------------
\* The initial state satisfies the inductive invariant.
LEMMA InitIInv == Init => IInv
<1> SUFFICES ASSUME Init PROVE IInv
    OBVIOUS
<1>1. TypeOK
    <2>1. call \in [Callers -> Calls]
        BY EnterTypes DEF Init
    <2>2. config \in [Sessions -> Configs]
        BY ServiceAssumption DEF Init, Configs, ToolModes
    <2>3. stream \in [Turns -> Seq(EventKinds)] /\ emitted \in [Turns -> 0 .. MaxEvents]
        BY ServiceAssumption DEF Init
    <2>4. link \in [Transports -> Links] /\ run \in [Turns -> RunPCs]
        BY DEF Init, Links, RunPCs
    <2> QED BY <2>1, <2>2, <2>3, <2>4 DEF Init, TypeOK
<1>2. CallsKnow /\ CallsApart
    BY DEF Init, CallsKnow, CallKnows, CallsApart, Apart, IdleCall
<1>3. SessionsKnow /\ TurnsKnow
    BY DEF Init, SessionsKnow, TurnsKnow, TurnKnows
<1>4. SlotConsistent /\ CancelHasOwner
    BY DEF Init, SlotConsistent, CancelHasOwner, Running
<1> QED BY <1>1, <1>2, <1>3, <1>4 DEF IInv

\* Every step preserves it: one lemma for the types, one per kind of step.
LEMMA NextIInv == IInv /\ [Next]_vars => IInv'
<1> SUFFICES ASSUME IInv, [Next]_vars PROVE IInv'
    OBVIOUS
<1>t. TypeOK'
    BY TypeStep
<1>1. ASSUME NEW c \in Callers, Request(c) \/ Shutdown(c) \/ Resume(c) PROVE IInv'
    BY <1>t, <1>1, RequestStep
<1>2. ASSUME NEW c \in Callers, CallStep(c) PROVE IInv'
    BY <1>t, <1>2, CallStepKeeps
<1>3. ASSUME NEW t \in Turns, RunStep(t) \/ TransportStep(t) PROVE IInv'
    BY <1>t, <1>3, RunStepKeeps
<1>4. CASE CancelParent \/ UNCHANGED vars
    <2>1. UNCHANGED <<sessionVars, active, cancelVars, runVars, call>>
        BY <1>4 DEF CancelParent, vars
    <2> USE <2>1 DEF sessionVars, cancelVars, runVars, IInv
    <2>2. CallsKnow' /\ CallsApart' /\ SessionsKnow'
        BY DEF CallsKnow, CallKnows, CallsApart, Apart, SessionsKnow
    <2>3. TurnsKnow' /\ SlotConsistent' /\ CancelHasOwner'
        BY DEF TurnsKnow, TurnKnows, SlotConsistent, CancelHasOwner, Running
    <2> QED BY <1>t, <2>2, <2>3
<1> QED BY <1>1, <1>2, <1>3, <1>4 DEF Next

\* So it holds in every reachable state.
LEMMA Invariance == Spec => []IInv
BY InitIInv, NextIInv, PTL DEF Spec

\* The variables keep their types, whatever the calls and turns do.
THEOREM TypeCorrect == Spec => []TypeOK
<1>1. IInv => TypeOK
    BY DEF IInv
<1> QED BY <1>1, Invariance, PTL

\* Session.active is the one turn of the session that runs (beginTurn,
\* finishTurn, completeCancel, waitCancelResult), for any number of callers.
THEOREM SlotExclusive == Spec => []SlotConsistent
<1>1. IInv => SlotConsistent
    BY DEF IInv
<1> QED BY <1>1, Invariance, PTL

\* Whenever a running turn is marked by startCancel and cancelDone is still
\* open, some call is on its way to the completeCancel that closes it.
THEOREM CancelNeverStranded == Spec => []CancelHasOwner
<1>1. IInv => CancelHasOwner
    BY DEF IInv
<1> QED BY <1>1, Invariance, PTL

-----------------------------------------------------------------------------
\* The transport and the configuration that Run reads without the lock do not
\* change while the turn runs: every writer found the session's slot free.
FrozenStep ==
    \A t \in Turns : Running(t) /\ Running(t)' =>
        /\ transport'[owner[t]] = transport[owner[t]]
        /\ config'[owner[t]] = config[owner[t]]

\* One step changes nothing of a session whose turn runs before and after it.
LEMMA FrozenKeeps == IInv /\ [Next]_vars => FrozenStep
<1> SUFFICES ASSUME IInv, [Next]_vars, NEW t \in Turns, Running(t)
             PROVE  /\ transport'[owner[t]] = transport[owner[t]]
                    /\ config'[owner[t]] = config[owner[t]]
    BY DEF FrozenStep
<1> USE DEF sessionVars, cancelVars, runVars
<1>0. /\ TypeOK
      /\ owner[t] \in Sessions /\ transport[owner[t]] # None
      /\ active[owner[t]] = t /\ t # None
    BY ServiceAssumption DEF IInv, TurnsKnow, TurnKnows, SlotConsistent, Running
<1>1. ASSUME NEW c \in Callers, NEW s \in Sessions, NEW mode \in ToolModes,
             SetConfigValue(c, s, mode)
      PROVE  config'[owner[t]] = config[owner[t]] /\ transport' = transport
    BY <1>0, <1>1 DEF SetConfigValue, TypeOK
<1>2. ASSUME NEW c \in Callers, Swap(c)
      PROVE  /\ transport'[owner[t]] = transport[owner[t]]
             /\ config'[owner[t]] = config[owner[t]]
    BY <1>0, <1>2 DEF Swap, TypeOK
<1>3. ASSUME NEW c \in Callers, NewAdd(c)
      PROVE  transport'[owner[t]] = transport[owner[t]] /\ config' = config
    <2>1. transport[call[c].s] = None
        BY <1>3 DEF IInv, CallsKnow, CallKnows, NewAdd, At
    <2> QED BY <1>0, <1>3, <2>1 DEF NewAdd, TypeOK
<1>4. ASSUME NEW c \in Callers, Request(c) \/ Shutdown(c) \/ Resume(c),
             ~ \E s \in Sessions, mode \in ToolModes : SetConfigValue(c, s, mode)
      PROVE  UNCHANGED <<transport, config>>
    BY <1>4 DEF Request, Shutdown, Resume, Initialize, NewRefused, Refuse,
       NewSession, PromptRefused, StartPrompt, CancelUnknown, CancelSession,
       CloseUnknown, CloseSession, SetRefused, SameModel, SetSessionModel
<1>5. ASSUME NEW c \in Callers, CallStep(c), ~Swap(c), ~NewAdd(c)
      PROVE  UNCHANGED <<transport, config>>
    BY <1>5 DEF CallStep, NewConnect, NewConnectFails, BeginTurn, BeginTurnBusy,
       ShutdownNext, ShutdownEnds, NothingToCancel, StartCancel, Interrupt,
       CompleteCancel, Disconnect, SetConnect, SetConnectFails, SwapRefused,
       DropOld
<1>6. ASSUME NEW u \in Turns, RunStep(u) \/ TransportStep(u)
      PROVE  UNCHANGED <<transport, config>>
    BY <1>6 DEF RunStep, TransportStep, RunStart, RunEvent, RunDone, RunWait,
       RunUnblock, RunCheck, RunFinish, TurnEmits, TurnEnds
<1>7. CASE CancelParent \/ UNCHANGED vars
    BY <1>7 DEF CancelParent, vars
<1> QED BY <1>1, <1>2, <1>3, <1>4, <1>5, <1>6, <1>7 DEF Next

\* A prompt runs to its end on the transport and the configuration it started
\* with, whatever other callers set meanwhile (SetSessionModel's swap).
THEOREM TurnConfigFrozen == Spec => ConfigFrozen
<1>1. IInv /\ [Next]_vars => [FrozenStep]_vars
    BY FrozenKeeps
<1>2. ConfigFrozen <=> [][FrozenStep]_vars
    BY PTL DEF ConfigFrozen, FrozenStep
<1> QED BY <1>1, <1>2, Invariance, PTL DEF Spec
=============================================================================
