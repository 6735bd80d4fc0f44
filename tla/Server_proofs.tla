---------------------------- MODULE Server_proofs ----------------------------
(***************************************************************************)
(* The server implements the service: what is proved of any callers of the *)
(* service holds of it behind the server, whatever the client writes.      *)
(***************************************************************************)
EXTENDS Server, OneCaller_proofs, FiniteSetTheorems

\* A step of the server, seen by the service, is a call of its one caller, a
\* step of a turn, the cancellation of the context, or nothing.
LEMMA StepImplements == [ServerNext]_allVars => [Next]_vars
<1> SUFFICES ASSUME [ServerNext]_allVars PROVE [Next]_vars
    OBVIOUS
<1>d. Dispatcher \in Callers
    BY ServerAssumption
<1>1. CASE ClientCloses \/ ScanStep \/ Terminated \/ UNCHANGED allVars
    BY <1>1 DEF ClientCloses, ScanStep, ScanLine, ScanFails, ScanEnds, ScanPut,
                ScanCancelled, Terminated, allVars
<1>2. CASE Signal \/ SelectEof \/ Unwind
    BY <1>2 DEF Signal, SelectEof, Unwind, Next
<1>3. CASE \/ HandleGarbage
           \/ \E notification \in BOOLEAN : HandleUndecodable(notification)
           \/ SelectDone \/ SelectError \/ Waited
    BY <1>3 DEF HandleGarbage, HandleUndecodable, SelectDone, SelectError, Waited
<1>4. CASE \/ \E notification \in BOOLEAN : HandleRequest(notification)
           \/ DispatchStep \/ Respond \/ Stop \/ Stopped
    BY <1>d, <1>4 DEF HandleRequest, DispatchStep, Respond, Stop, Stopped, Next
<1>5. ASSUME NEW t \in Turns, HandlerStep(t) PROVE [Next]_vars
    BY <1>5 DEF HandlerStep, HandlerRuns, HandlerResponds, Next
<1>6. ASSUME NEW t \in Turns, Backend(t) PROVE [Next]_vars
    BY <1>6 DEF Backend, Next
<1> QED BY <1>1, <1>2, <1>3, <1>4, <1>5, <1>6 DEF ServerNext, ServeStep

\* Serve and its goroutines use the service only through its operations, so
\* every behaviour of the server is a behaviour of the service.
THEOREM ServerRefinesService == ServerSpec => ServerImplementsService
<1>1. ServerInit => Init
    BY DEF ServerInit
<1> QED BY <1>1, StepImplements, PTL DEF ServerSpec, ServerImplementsService, Spec

\* Behind the server too, a session's slot is held by its one running turn
\* and nobody waits on cancelDone forever.
THEOREM ServerKeepsSlots == ServerSpec => [](SlotConsistent /\ CancelHasOwner)
<1>1. ServerSpec => Spec
    BY ServerRefinesService DEF ServerImplementsService
<1> QED BY <1>1, SlotExclusive, CancelNeverStranded, PTL

-----------------------------------------------------------------------------
\* What the service's steps do to the turns and to the one call, as far as the
\* server is concerned.
CallOf == call[Dispatcher]

\* A request leaves the turns alone, and only a prompt is about to begin one.
LEMMA RequestSeen ==
    ASSUME IInv, Dispatcher \in Callers, Request(Dispatcher) \/ Shutdown(Dispatcher)
    PROVE  /\ run' = run /\ CallOf.pc = "idle"
           /\ CallOf'.pc = "begin" => CallOf'.op = "prompt"
           /\ Shutdown(Dispatcher) => CallOf'.op = "shutdown" /\ CallOf'.pc = "next"
           /\ CallOf'.pc # "return" \/ CallOf'.op # "prompt" \/ CallOf'.ret # "ok"
<1> USE DEF CallOf, runVars, Idle, Become, IdleCall
<1>0. DOMAIN call = Callers
  BY DEF IInv, TypeOK
<1>1. CASE Shutdown(Dispatcher)
  BY <1>0, <1>1 DEF Shutdown
<1>2. CASE Request(Dispatcher) /\ ~Shutdown(Dispatcher)
  <2>1. CASE \/ Initialize(Dispatcher) \/ \E valid \in BOOLEAN : NewRefused(Dispatcher, valid)
    BY <1>0, <1>2, <2>1 DEF Initialize, NewRefused, Refuse, Reply
  <2>2. ASSUME NEW s \in Sessions, NEW x \in Transports, NEW withMcp \in BOOLEAN,
               NewSession(Dispatcher, s, x, withMcp)
        PROVE  /\ run' = run /\ CallOf.pc = "idle" /\ CallOf'.pc = "connect"
    BY <1>0, <2>2 DEF NewSession
  <2>3. ASSUME NEW s \in Sessions, NEW valid \in BOOLEAN,
               PromptRefused(Dispatcher, s, valid) \/ SetRefused(Dispatcher, s, valid)
        PROVE  /\ run' = run /\ CallOf.pc = "idle" /\ CallOf'.pc = "return" /\ CallOf'.ret = "error"
    BY <1>0, <2>3 DEF PromptRefused, SetRefused, Refuse, Reply
  <2>4. ASSUME NEW s \in Sessions, NEW t \in Turns, StartPrompt(Dispatcher, s, t)
        PROVE  /\ run' = run /\ CallOf.pc = "idle" /\ CallOf'.pc = "begin" /\ CallOf'.op = "prompt"
    BY <1>0, <2>4 DEF StartPrompt
  <2>5. ASSUME NEW s \in Sessions, CancelUnknown(Dispatcher, s) \/ CancelSession(Dispatcher, s)
               \/ CloseUnknown(Dispatcher, s) \/ CloseSession(Dispatcher, s)
        PROVE  /\ run' = run /\ CallOf.pc = "idle" /\ CallOf'.pc \in {"return", "startcancel"}
               /\ CallOf'.op # "prompt"
    <3>1. CASE CancelUnknown(Dispatcher, s)
      BY <1>0, <3>1 DEF CancelUnknown, Refuse, Reply
    <3>2. CASE CancelSession(Dispatcher, s)
      BY <1>0, <3>2 DEF CancelSession
    <3>3. CASE CloseUnknown(Dispatcher, s)
      BY <1>0, <3>3 DEF CloseUnknown, Refuse, Reply
    <3>4. CASE CloseSession(Dispatcher, s)
      BY <1>0, <3>4 DEF CloseSession
    <3> QED BY <2>5, <3>1, <3>2, <3>3, <3>4
  <2>6. ASSUME NEW s \in Sessions, NEW mode \in ToolModes,
               SetConfigValue(Dispatcher, s, mode)
        PROVE  /\ run' = run /\ CallOf.pc = "idle" /\ CallOf'.pc = "return" /\ CallOf'.op = "set"
    BY <1>0, <2>6 DEF SetConfigValue, Reply
  <2>7. ASSUME NEW s \in Sessions, SameModel(Dispatcher, s)
        PROVE  /\ run' = run /\ CallOf.pc = "idle" /\ CallOf'.pc = "return" /\ CallOf'.op = "set"
    BY <1>0, <2>7 DEF SameModel, Reply
  <2>8. ASSUME NEW s \in Sessions, NEW m \in Models, NEW x \in Transports,
               SetSessionModel(Dispatcher, s, m, x)
        PROVE  /\ run' = run /\ CallOf.pc = "idle" /\ CallOf'.pc = "setconnect"
    BY <1>0, <2>8 DEF SetSessionModel
  <2> QED BY <1>2, <2>1, <2>2, <2>3, <2>4, <2>5, <2>6, <2>7, <2>8 DEF Request
<1> QED BY <1>1, <1>2

\* A step of the call makes at most the turn it was about to begin, keeps what
\* it is, and does not come from an answer.
LEMMA CallSeen ==
    ASSUME IInv, Dispatcher \in Callers, CallStep(Dispatcher)
    PROVE  /\ \/ run' = run
              \/ /\ CallOf.pc = "begin" /\ CallOf.t \in Turns /\ run[CallOf.t] = "unused"
                 /\ run' = [run EXCEPT ![CallOf.t] = "ready"]
                 /\ CallOf'.pc = "return" /\ CallOf'.ret = "ok"
           /\ CallOf'.pc \notin {"begin", "idle"} /\ CallOf'.op = CallOf.op
           /\ CallOf.pc \notin {"idle", "return"}
<1> USE DEF CallOf, runVars, At, Become, IdleCall
<1>0. call \in [Callers -> Calls] /\ CallKnows(Dispatcher)
  BY DEF IInv, TypeOK, CallsKnow
<1>1. call[Dispatcher] \in Calls
  BY <1>0
<1>2. ASSUME NEW ret, Return(Dispatcher, ret)
      PROVE  CallOf'.pc = "return" /\ CallOf'.op = CallOf.op /\ CallOf'.ret = ret
  BY <1>0, <1>1, <1>2 DEF Return, Reply, Calls
<1>3. ASSUME NEW pc, Goto(Dispatcher, pc) PROVE CallOf'.pc = pc /\ CallOf'.op = CallOf.op
  BY <1>0, <1>1, <1>3 DEF Goto, Calls
<1>4. CASE NewConnect(Dispatcher) \/ SetConnect(Dispatcher)
  BY <1>3, <1>4 DEF NewConnect, SetConnect
<1>5. CASE NewConnectFails(Dispatcher) \/ NewAdd(Dispatcher) \/ BeginTurnBusy(Dispatcher)
           \/ ShutdownEnds(Dispatcher) \/ SetConnectFails(Dispatcher)
           \/ SwapRefused(Dispatcher) \/ DropOld(Dispatcher)
  BY <1>2, <1>5 DEF NewConnectFails, NewAdd, BeginTurnBusy, ShutdownEnds,
     SetConnectFails, SwapRefused, DropOld
<1>6. CASE BeginTurn(Dispatcher)
  <2>1. CallOf'.pc = "return" /\ CallOf'.op = CallOf.op /\ CallOf'.ret = "ok"
    BY <1>2, <1>6 DEF BeginTurn
  <2> QED BY <1>0, <1>6, <2>1 DEF BeginTurn, CallKnows
<1>7. CASE \E s \in Sessions : ShutdownNext(Dispatcher, s)
  BY <1>0, <1>1, <1>7 DEF ShutdownNext, Calls
<1>8. CASE NothingToCancel(Dispatcher)
  BY <1>2, <1>3, <1>8 DEF NothingToCancel
<1>9. CASE StartCancel(Dispatcher)
  BY <1>0, <1>1, <1>9 DEF StartCancel, Calls
<1>10. CASE Swap(Dispatcher)
  BY <1>0, <1>1, <1>10 DEF Swap, Calls
<1>11. CASE \E err \in BOOLEAN : Interrupt(Dispatcher, err)
  BY <1>0, <1>1, <1>11 DEF Interrupt, Calls
<1>12. CASE CompleteCancel(Dispatcher)
  <2>1. CallOf'.pc \in {"return", "disconnect"} /\ CallOf'.op = CallOf.op
    <3>1. CASE CallOf.op = "cancel"
      <4>1. \E ret \in {"ok", "error"} : Return(Dispatcher, ret)
        BY <1>12, <3>1 DEF CompleteCancel
      <4> QED BY <1>2, <4>1
    <3>2. CASE CallOf.op # "cancel"
      BY <1>3, <1>12, <3>2 DEF CompleteCancel
    <3> QED BY <3>1, <3>2
  <2> QED BY <1>12, <2>1 DEF CompleteCancel
<1>13. CASE Disconnect(Dispatcher)
  <2>1. CallOf'.pc \in {"return", "next"} /\ CallOf'.op = CallOf.op
    <3>1. CASE CallOf.op = "shutdown"
      BY <1>0, <1>13, <3>1 DEF Disconnect
    <3>2. CASE CallOf.op # "shutdown"
      BY <1>2, <1>13, <3>2 DEF Disconnect
    <3> QED BY <3>1, <3>2
  <2> QED BY <1>13, <2>1 DEF Disconnect
<1> QED
  BY <1>4, <1>5, <1>6, <1>7, <1>8, <1>9, <1>10, <1>11, <1>12, <1>13 DEF CallStep

\* A step of a turn, or of its transport, keeps the turn begun and the calls.
LEMMA TurnSeen ==
    ASSUME IInv, NEW t \in Turns, RunStep(t) \/ TransportStep(t)
    PROVE  /\ call' = call
           /\ run[t] \notin {"unused", "returned"} /\ run'[t] # "unused"
           /\ \A u \in Turns : u # t => run'[u] = run[u]
<1>0. run \in [Turns -> RunPCs]
  BY DEF IInv, TypeOK
<1>1. CASE RunStep(t)
  BY <1>0, <1>1 DEF RunStep, RunStart, RunEvent, RunDone, RunWait, RunUnblock, RunCheck, RunFinish,
                    AfterWait
<1>2. CASE TransportStep(t)
  BY <1>0, <1>2 DEF TransportStep, TurnEmits, TurnEnds
<1> QED BY <1>1, <1>2

-----------------------------------------------------------------------------
\* A line that is on its way to Serve, or that the client has yet to write: an
\* id that nothing was done about.
Coming(i) ==
    \/ i > scanned
    \/ scan = "put" /\ i = scanned
    \/ \E k \in DOMAIN lines : lines[k] = i

LineInv ==
    /\ scan = "put" => scanned \in Ids
    /\ \A k \in DOMAIN lines : lines[k] # ScanError =>
           lines[k] <= scanned /\ (scan = "put" => lines[k] < scanned)

\* Serve and its one call: only while it dispatches a request, or shuts the
\* service down, is it in a call.
DispatchInv ==
    /\ serve = "call" => current \in Ids
    /\ serve # "call" => current = NoRequest
    /\ serve \notin {"call", "stopping"} => CallOf.pc = "idle"
    /\ serve = "stopping" => CallOf.op = "shutdown"
    /\ CallOf.pc = "begin" => CallOf.op = "prompt"
    /\ serve = "unwind" => why = "error"

\* The turns and the requests they belong to.  A turn of the current request
\* was made by the call that is about to return.
RequestInv ==
    /\ \A t \in Turns : IF Begun(t) THEN request[t] \in Ids ELSE request[t] = NoRequest
    /\ \A t, u \in Turns : Begun(t) /\ request[t] = request[u] => t = u
    /\ \A t \in finished : run[t] = "returned"
    /\ \A t \in Turns : Begun(t) /\ request[t] = current =>
           CallOf.op = "prompt" /\ CallOf.pc = "return" /\ CallOf.ret = "ok"
    /\ serve = "returned" /\ why = "eof" => \A t \in Turns : Begun(t) => t \in finished
    /\ \A i \in Ids : Coming(i) =>
           i \notin silent /\ i # current /\ \A t \in Turns : request[t] # i

\* The answers there are to a request, by what is known of it.
CountInv ==
    \A i \in Ids :
        /\ Responses(i) <= 1
        /\ i \in silent \/ Coming(i) => Responses(i) = 0
        /\ i = current /\ (\A t \in Turns : Begun(t) => request[t] # i) => Responses(i) = 0
        /\ \A t \in Turns : Begun(t) /\ request[t] = i /\ i \notin silent =>
               Responses(i) = (IF t \in finished THEN 1 ELSE 0)

SInv == ServerTypeOK /\ LineInv /\ DispatchInv /\ RequestInv /\ CountInv

-----------------------------------------------------------------------------
\* Counting the answers of a request.
LEMMA CountType ==
    ASSUME out \in Seq(Messages), NEW i
    PROVE  /\ Responses(i) \in Nat
           /\ Responses(i) = 0 <=> \A k \in DOMAIN out : out[k] # Response(i)
<1> DEFINE S == {k \in DOMAIN out : out[k] = Response(i)}
<1>1. Len(out) \in Nat /\ DOMAIN out = 1 .. Len(out)
  OBVIOUS
<1>2. IsFiniteSet(1 .. Len(out))
  BY <1>1, FS_Interval
<1>3. S \subseteq 1 .. Len(out)
  BY <1>1
<1>4. IsFiniteSet(S)
  BY <1>2, <1>3, FS_Subset
<1>5. Cardinality(S) \in Nat /\ (Cardinality(S) = 0 <=> S = {})
  BY <1>4, FS_CardinalityType, FS_EmptySet
<1> QED BY <1>5 DEF Responses

\* A message that is written adds one to the count of the request it answers.
LEMMA CountAppend ==
    ASSUME out \in Seq(Messages), NEW m \in Messages, out' = Append(out, m), NEW i
    PROVE  Responses(i)' = Responses(i) + (IF m = Response(i) THEN 1 ELSE 0)
<1> DEFINE S == {k \in DOMAIN out : out[k] = Response(i)}
           n == Len(out) + 1
<1>1. Len(out) \in Nat /\ DOMAIN out = 1 .. Len(out) /\ DOMAIN out' = 1 .. n
  OBVIOUS
<1>2. (\A k \in DOMAIN out : out'[k] = out[k]) /\ out'[n] = m
  OBVIOUS
<1>3. S \subseteq 1 .. Len(out) /\ IsFiniteSet(1 .. Len(out))
  BY <1>1, FS_Interval
<1>4. IsFiniteSet(S) /\ n \notin S
  BY <1>1, <1>3, FS_Subset
<1>5. {k \in DOMAIN out' : out'[k] = Response(i)} = IF m = Response(i) THEN S \cup {n} ELSE S
  BY <1>1, <1>2
<1>6. Cardinality(S \cup {n}) = Cardinality(S) + 1 /\ Cardinality(S) \in Nat
  BY <1>4, FS_AddElement, FS_CardinalityType
<1>7. Responses(i)' = Cardinality({k \in DOMAIN out' : out'[k] = Response(i)})
  BY DEF Responses, Response
<1>8. Responses(i) = Cardinality(S)
  BY DEF Responses
<1> HIDE DEF S, n
<1>9. CASE m = Response(i)
  BY <1>5, <1>6, <1>7, <1>8, <1>9
<1>10. CASE m # Response(i)
  <2>1. Responses(i)' = Cardinality(S)
    BY <1>5, <1>7, <1>10
  <2> QED BY <1>6, <1>8, <1>10, <2>1
<1> QED BY <1>9, <1>10

\* Two answers are the same only if they answer the same, and no update is one.
LEMMA Distinct ==
    /\ \A i, j : Response(i) = Response(j) => i = j
    /\ \A i, j : Update(i) # Response(j)
<1>1. ASSUME NEW i, NEW j, Response(i) = Response(j) PROVE i = j
  <2>1. Response(i).id = i /\ Response(j).id = j
    BY DEF Response
  <2> QED BY <1>1, <2>1
<1>2. ASSUME NEW i, NEW j, Update(i) = Response(j) PROVE FALSE
  <2>1. Update(i).type = "update" /\ Response(j).type = "response"
    BY DEF Update, Response
  <2> QED BY <1>2, <2>1
<1> QED BY <1>1, <1>2

\* What is written is a message.
LEMMA MessageTypes ==
    ASSUME MaxLines \in Nat, NEW i \in 0 .. MaxLines
    PROVE  Update(i) \in Messages /\ Response(i) \in Messages
  BY DEF Update, Response, Messages

-----------------------------------------------------------------------------
\* The types of the server.
LEMMA ServerTypeStep == ASSUME IInv, ServerTypeOK, ServerNext PROVE ServerTypeOK'
<1> USE DEF ServerTypeOK, inputVars, serverVars
<1>a. MaxLines \in Nat /\ NoRequest \in 0 .. MaxLines /\ NullId \in 0 .. MaxLines
      /\ ScanError \in 0 .. MaxLines /\ Ids \subseteq 0 .. MaxLines
  BY ServerAssumption DEF NoRequest, NullId, ScanError, Ids
<1>b. ASSUME NEW i \in 0 .. MaxLines
      PROVE  /\ Append(out, Response(i)) \in Seq(Messages)
             /\ Append(out, Update(i)) \in Seq(Messages)
  BY <1>a, MessageTypes
<1>c. ASSUME Take PROVE Head(lines) \in Ids /\ lines' \in Seq(0 .. MaxLines) /\ Len(lines') <= 1
  <2>1. Head(lines) \in 0 .. MaxLines
    <3>1. lines \in Seq(0 .. MaxLines) /\ lines # <<>>
      BY <1>c DEF Take
    <3>2. ASSUME NEW S, NEW s \in Seq(S), s # <<>> PROVE Head(s) \in S
      BY <3>2
    <3> QED BY <3>1, <3>2
  <2>2. Head(lines) # 0
    BY <1>c DEF Take, ScanError
  <2>3. Head(lines) \in Ids
    BY <1>a, <2>1, <2>2 DEF Ids
  <2>4. lines' \in Seq(0 .. MaxLines) /\ Len(lines') <= 1
    BY <1>c DEF Take
  <2> QED BY <2>3, <2>4
<1>1. CASE ClientCloses \/ Signal \/ Terminated
  BY <1>1 DEF ClientCloses, Signal, Terminated, allVars
<1>2. CASE ScanStep
  <2>1. CASE ScanLine
    BY <1>a, <2>1 DEF ScanLine
  <2>2. CASE ScanPut
    <3>1. lines' \in Seq(0 .. MaxLines) /\ Len(lines') <= 1
      BY <1>a, <2>2 DEF ScanPut
    <3>2. scan' \in {"scan", "closed"}
      BY <2>2 DEF ScanPut
    <3> QED BY <2>2, <3>1, <3>2 DEF ScanPut
  <2>3. CASE ScanFails \/ ScanEnds \/ ScanCancelled
    BY <2>3 DEF ScanFails, ScanEnds, ScanCancelled
  <2> QED BY <1>2, <2>1, <2>2, <2>3 DEF ScanStep
<1>3. CASE HandleGarbage
  BY <1>a, <1>b, <1>c, <1>3 DEF HandleGarbage, Take
<1>4. ASSUME NEW notification \in BOOLEAN, HandleUndecodable(notification) PROVE ServerTypeOK'
  <2>1. silent' \subseteq Ids /\ out' \in Seq(Messages)
    BY <1>a, <1>b, <1>c, <1>4 DEF HandleUndecodable
  <2> QED BY <1>c, <1>4, <2>1 DEF HandleUndecodable, Take
<1>5. ASSUME NEW notification \in BOOLEAN, HandleRequest(notification) PROVE ServerTypeOK'
  <2>1. silent' \subseteq Ids /\ current' \in 0 .. MaxLines
    BY <1>a, <1>c, <1>5 DEF HandleRequest
  <2> QED BY <1>c, <1>5, <2>1 DEF HandleRequest, Take
<1>6. CASE DispatchStep
  <2>1. request' \in [Turns -> 0 .. MaxLines]
    BY <1>6 DEF DispatchStep
  <2> QED BY <1>6, <2>1 DEF DispatchStep
<1>7. CASE Respond
  <2>1. out' \in Seq(Messages)
    BY <1>b, <1>7 DEF Respond
  <2> QED BY <1>a, <1>7, <2>1 DEF Respond
<1>8. CASE SelectDone \/ SelectEof
  BY <1>8 DEF SelectDone, SelectEof
<1>9. CASE SelectError
  <2>1. lines' \in Seq(0 .. MaxLines) /\ Len(lines') <= 1
    BY <1>9 DEF SelectError
  <2> QED BY <1>9, <2>1 DEF SelectError
<1>10. CASE Stop \/ Unwind \/ Waited
  BY <1>10 DEF Stop, Unwind, Waited
<1>11. CASE Stopped
  BY <1>11 DEF Stopped
<1>12. ASSUME NEW t \in Turns, HandlerStep(t) PROVE ServerTypeOK'
  <2>1. out' \in Seq(Messages)
    BY <1>b, <1>12 DEF HandlerStep, HandlerRuns, HandlerResponds
  <2> QED BY <1>12, <2>1 DEF HandlerStep, HandlerRuns, HandlerResponds
<1>13. ASSUME NEW t \in Turns, Backend(t) PROVE ServerTypeOK'
  BY <1>13 DEF Backend
<1> QED
  BY <1>1, <1>2, <1>3, <1>4, <1>5, <1>6, <1>7, <1>8, <1>9, <1>10, <1>11, <1>12, <1>13
     DEF ServerNext, ServeStep

-----------------------------------------------------------------------------
\* Nothing comes twice, and what Serve takes comes no more.
LEMMA LineKeeps ==
    ASSUME ServerTypeOK, LineInv, ServerNext
    PROVE  /\ LineInv'
           /\ \A i \in Ids : Coming(i)' => Coming(i)
<1> USE DEF ServerTypeOK, inputVars, serverVars
<1>a. MaxLines \in Nat /\ scanned \in Nat /\ \A k \in DOMAIN lines : lines[k] \in Nat
  BY ServerAssumption
<1>1. CASE UNCHANGED <<scanned, scan, lines>>
  BY <1>1 DEF LineInv, Coming
<1>2. CASE ScanLine
  BY <1>a, <1>2 DEF ScanLine, LineInv, Coming, Ids
<1>3. CASE ScanFails \/ ScanEnds \/ ScanCancelled
  BY <1>3 DEF ScanFails, ScanEnds, ScanCancelled, LineInv, Coming
<1>4. CASE ScanPut
  <2> DEFINE l == IF scan = "fail" THEN ScanError ELSE scanned
  <2>1. lines' = <<l>> /\ scan' # "put" /\ scanned' = scanned /\ scan \in {"put", "fail"}
    BY <1>4 DEF ScanPut
  <2>2. DOMAIN lines' = {1} /\ lines'[1] = l
    BY <2>1
  <2>3. LineInv'
    BY <1>a, <2>1, <2>2 DEF LineInv, ScanError
  <2>4. ASSUME NEW i \in Ids, Coming(i)' PROVE Coming(i)
    BY <2>1, <2>2, <2>4 DEF Coming, ScanError, Ids
  <2> QED BY <2>3, <2>4
<1>5. CASE Take \/ SelectError
  <2>1. lines' = <<>> /\ UNCHANGED <<scanned, scan>>
    BY <1>5 DEF Take, SelectError
  <2> QED BY <2>1 DEF LineInv, Coming
<1>6. UNCHANGED <<scanned, scan, lines>> \/ ScanStep \/ Take \/ SelectError
  BY DEF ServerNext, ServeStep, ClientCloses, Signal, Terminated, allVars, HandleGarbage,
         HandleUndecodable, HandleRequest, DispatchStep, Respond, SelectDone, SelectEof, Stop,
         Stopped, Unwind, Waited, HandlerStep, HandlerRuns, HandlerResponds, Backend
<1> QED BY <1>1, <1>2, <1>3, <1>4, <1>5, <1>6 DEF ScanStep

\* The line Serve takes is a request that nothing was done about.
LEMMA TakenComes ==
    ASSUME ServerTypeOK, LineInv, Take
    PROVE  /\ Head(lines) \in Ids
           /\ \A i : i = Head(lines) => i \in Ids /\ Coming(i) /\ ~Coming(i)'
<1> SUFFICES ASSUME NEW i, i = Head(lines) PROVE i \in Ids /\ Coming(i) /\ ~Coming(i)'
  OBVIOUS
<1>1. lines \in Seq(0 .. MaxLines) /\ lines # <<>> /\ i # 0 /\ lines' = <<>>
  BY DEF Take, ScanError, ServerTypeOK
<1>2. 1 \in DOMAIN lines /\ i = lines[1]
  BY <1>1
<1>3. i \in 0 .. MaxLines
  <2>1. ASSUME NEW S, NEW s \in Seq(S), NEW k \in DOMAIN s PROVE s[k] \in S
    BY <2>1
  <2> QED BY <1>1, <1>2, <2>1
<1>4. i \in Ids
  BY <1>1, <1>3, ServerAssumption DEF Ids
<1>5. i <= scanned /\ (scan = "put" => i < scanned)
  BY <1>1, <1>2 DEF LineInv, ScanError
<1>6. UNCHANGED <<scanned, scan>> /\ scanned \in Nat /\ i \in Nat
  BY <1>3, ServerAssumption DEF Take, ServerTypeOK
<1>7. ~Coming(i)'
  BY <1>1, <1>5, <1>6 DEF Coming
<1> QED BY <1>2, <1>4, <1>7 DEF Coming

\* Serve and its call keep together.
LEMMA DispatchKeeps ==
    ASSUME IInv, ServerTypeOK, LineInv, DispatchInv, ServerNext
    PROVE  DispatchInv'
<1> USE DEF serverVars, CallOf
<1>a. Dispatcher \in Callers /\ DOMAIN call = Callers
  BY ServerAssumption DEF IInv, TypeOK
<1>1. CASE UNCHANGED <<serve, why, current, call>>
  BY <1>1 DEF DispatchInv
<1>2. CASE ClientCloses \/ ScanStep \/ Terminated \/ HandleGarbage \/ Signal
           \/ \E notification \in BOOLEAN : HandleUndecodable(notification)
  BY <1>1, <1>2 DEF ClientCloses, ScanStep, ScanLine, ScanFails, ScanEnds, ScanPut, ScanCancelled,
     Terminated, HandleGarbage, Signal, CancelParent, HandleUndecodable, vars, allVars
<1>3. ASSUME NEW t \in Turns, HandlerStep(t) \/ Backend(t) PROVE DispatchInv'
  <2>1. call' = call
    BY <1>3, TurnSeen DEF HandlerStep, HandlerRuns, HandlerResponds, Backend, vars
  <2> QED BY <1>1, <1>3, <2>1 DEF HandlerStep, HandlerRuns, HandlerResponds, Backend
<1>4. ASSUME NEW notification \in BOOLEAN, HandleRequest(notification) PROVE DispatchInv'
  <2>1. Head(lines) \in Ids
    BY <1>4, TakenComes DEF HandleRequest
  <2> QED BY <1>a, <1>4, <2>1, RequestSeen DEF HandleRequest, DispatchInv
<1>5. CASE DispatchStep
  BY <1>a, <1>5, CallSeen DEF DispatchStep, DispatchInv
<1>6. ASSUME Resume(Dispatcher) PROVE CallOf'.pc = "idle"
  BY <1>a, <1>6 DEF Resume, Become, IdleCall
<1>7. CASE Respond
  BY <1>6, <1>7 DEF Respond, DispatchInv
<1>8. CASE Stopped
  <2>1. serve' = "unwind" => why = "error"
    BY <1>8 DEF Stopped
  <2>2. serve' \in {"wait", "unwind", "returned"}
    BY <1>8 DEF Stopped
  <2> QED BY <1>6, <1>8, <2>1, <2>2 DEF Stopped, DispatchInv
<1>9. CASE Stop
  BY <1>a, <1>9, RequestSeen DEF Stop, DispatchInv
<1>10. CASE SelectDone \/ SelectEof \/ SelectError \/ Unwind \/ Waited
  <2>1. call' = call
    BY <1>10 DEF SelectDone, SelectEof, SelectError, Unwind, Waited, CancelParent, vars
  <2> QED BY <1>10, <2>1 DEF SelectDone, SelectEof, SelectError, Unwind, Waited, DispatchInv
<1> QED
  BY <1>2, <1>3, <1>4, <1>5, <1>7, <1>8, <1>9, <1>10 DEF ServerNext, ServeStep

-----------------------------------------------------------------------------
\* A step that begins no turn keeps the turns' requests, when it finishes only
\* turns that returned and does nothing about a request that is to come.
LEMMA RequestFrame ==
    ASSUME RequestInv, request' = request, finished \subseteq finished',
           \A t \in Turns : Begun(t)' = Begun(t),
           \A t \in finished' : run'[t] = "returned",
           \A t \in Turns : Begun(t) /\ request[t] = current' =>
               CallOf'.op = "prompt" /\ CallOf'.pc = "return" /\ CallOf'.ret = "ok",
           serve' = "returned" /\ why' = "eof" =>
               \A t \in Turns : Begun(t) => t \in finished',
           \A i \in Ids : Coming(i)' => Coming(i) /\ i \notin silent' /\ i # current'
    PROVE  RequestInv'
<1>1. \A t \in Turns : IF Begun(t)' THEN request'[t] \in Ids ELSE request'[t] = NoRequest
  BY DEF RequestInv
<1>2. \A t, u \in Turns : Begun(t)' /\ request'[t] = request'[u] => t = u
  BY DEF RequestInv
<1>3. \A i \in Ids : Coming(i)' => \A t \in Turns : request'[t] # i
  BY DEF RequestInv
<1> QED BY <1>1, <1>2, <1>3 DEF RequestInv

\* Every turn keeps to the request it was begun for.
LEMMA RequestKeeps ==
    ASSUME IInv, SInv, ServerNext
    PROVE  RequestInv'
<1> USE DEF serverVars, inputVars
<1>a. Dispatcher \in Callers /\ NoRequest \notin Ids
  BY ServerAssumption DEF NoRequest, Ids
<1>b. ServerTypeOK /\ LineInv /\ DispatchInv /\ RequestInv
  BY DEF SInv
<1>c. \A i \in Ids : Coming(i)' => Coming(i)
  BY <1>b, LineKeeps
<1>d. \A i \in Ids : Coming(i) => i \notin silent /\ i # current
  BY <1>b DEF RequestInv
<1>e. \A t \in Turns : Begun(t) => request[t] # NoRequest
  BY <1>a, <1>b DEF RequestInv
<1>f. \A t \in finished : run[t] = "returned"
  BY <1>b DEF RequestInv
<1>1. ASSUME UNCHANGED <<request, finished, run, silent>>,
             UNCHANGED <<current, CallOf>> \/ current' = NoRequest,
             serve' = "returned" /\ why' = "eof" =>
                 (serve = "returned" /\ why = "eof") \/ Handlers = {}
      PROVE  RequestInv'
  <2>1. \A t \in Turns : Begun(t)' = Begun(t)
    BY <1>1 DEF Begun
  <2>2. \A t \in Turns : Begun(t) /\ request[t] = current' =>
            CallOf'.op = "prompt" /\ CallOf'.pc = "return" /\ CallOf'.ret = "ok"
    BY <1>1, <1>b, <1>e DEF RequestInv
  <2>3. serve' = "returned" /\ why' = "eof" => \A t \in Turns : Begun(t) => t \in finished'
    BY <1>1, <1>b DEF RequestInv, Handlers, Begun
  <2>4. \A i \in Ids : Coming(i)' => Coming(i) /\ i \notin silent' /\ i # current'
    BY <1>1, <1>a, <1>c, <1>d
  <2> QED BY <1>1, <1>b, <1>f, <2>1, <2>2, <2>3, <2>4, RequestFrame
<1>2. CASE ClientCloses \/ Signal \/ ScanStep \/ Terminated \/ HandleGarbage
  <2>1. UNCHANGED <<request, finished, run, silent, current, CallOf, serve, why>>
    BY <1>2 DEF ClientCloses, Signal, CancelParent, ScanStep, ScanLine, ScanFails, ScanEnds,
       ScanPut, ScanCancelled, Terminated, HandleGarbage, vars, runVars, allVars, CallOf
  <2> QED BY <1>1, <2>1
<1>3. CASE SelectDone \/ SelectEof \/ SelectError \/ Unwind \/ Waited
  <2>1. UNCHANGED <<request, finished, run, silent, current, CallOf>>
    BY <1>3 DEF SelectDone, SelectEof, SelectError, Unwind, Waited, CancelParent, vars, runVars,
       CallOf
  <2>2. serve' = "returned" /\ why' = "eof" => Handlers = {}
    BY <1>3, <1>b DEF SelectDone, SelectEof, SelectError, Unwind, Waited, DispatchInv
  <2> QED BY <1>1, <2>1, <2>2
<1>4. CASE Stop \/ Stopped
  <2>1. UNCHANGED <<request, finished, run, silent>>
    BY <1>4 DEF Stop, Stopped, Shutdown, Resume, runVars
  <2>2. current' = NoRequest
    BY <1>4, <1>b DEF Stop, Stopped, DispatchInv
  <2>3. ~(serve' = "returned" /\ why' = "eof")
    BY <1>4 DEF Stop, Stopped
  <2> QED BY <1>1, <2>1, <2>2, <2>3
<1>5. CASE Respond
  <2>1. UNCHANGED <<request, finished, run, silent>> /\ current' = NoRequest /\ serve' = "select"
    BY <1>5 DEF Respond, Resume, runVars
  <2> QED BY <1>1, <2>1
<1>6. ASSUME NEW notification \in BOOLEAN, HandleUndecodable(notification) \/ HandleRequest(notification)
      PROVE  RequestInv'
  <2> PICK i : i = Head(lines)
    OBVIOUS
  <2>1. /\ UNCHANGED <<request, finished, run>>
        /\ silent' \subseteq silent \cup {i} /\ current' \in {current, i}
        /\ serve' # "returned"
    BY <1>6, <1>a, RequestSeen DEF HandleUndecodable, HandleRequest, Take, vars, runVars
  <2>2. i \in Ids /\ Coming(i) /\ ~Coming(i)' /\ current = NoRequest
    BY <1>6, <1>b, TakenComes DEF HandleUndecodable, HandleRequest, Take, DispatchInv
  <2>3. \A j \in Ids : Coming(j)' => Coming(j) /\ j \notin silent' /\ j # current'
    <3>1. ASSUME NEW j \in Ids, Coming(j)' PROVE Coming(j) /\ j \notin silent' /\ j # current'
      <4>1. j # i
        BY <2>2, <3>1
      <4> QED BY <1>c, <1>d, <2>1, <3>1, <4>1
    <3> QED BY <3>1
  <2>4. \A t \in Turns : Begun(t) => request[t] # current'
    BY <1>b, <1>e, <2>1, <2>2 DEF RequestInv
  <2>5. \A t \in Turns : Begun(t)' = Begun(t)
    BY <2>1 DEF Begun
  <2> QED BY <1>b, <1>f, <2>1, <2>3, <2>4, <2>5, RequestFrame
<1>7. CASE DispatchStep
  <2>1. CallStep(Dispatcher) /\ UNCHANGED <<serve, why, current, silent, finished>>
    BY <1>7 DEF DispatchStep
  <2>2. CallOf.pc \notin {"idle", "return"} /\ CallOf'.op = CallOf.op
    BY <1>a, <2>1, CallSeen
  <2>3. \A t \in Turns : Begun(t) => request[t] # current
    BY <1>b, <2>2 DEF RequestInv
  <2>4. serve # "returned"
    BY <1>b, <2>2 DEF DispatchInv
  <2>5. request \in [Turns -> 0 .. MaxLines] /\ run \in [Turns -> RunPCs]
    BY <1>b DEF ServerTypeOK, IInv, TypeOK
  <2>6. CASE run' = run
    <3>1. request' = request
      BY <1>7, <2>5, <2>6 DEF DispatchStep
    <3>2. \A t \in Turns : Begun(t)' = Begun(t)
      BY <2>6 DEF Begun
    <3> QED BY <1>b, <1>c, <1>d, <1>f, <2>1, <2>3, <2>4, <2>6, <3>1, <3>2, RequestFrame
  <2>7. CASE run' # run
    <3> PICK n \in Turns : /\ n = CallOf.t /\ CallOf.pc = "begin" /\ run[n] = "unused"
                           /\ run' = [run EXCEPT ![n] = "ready"]
                           /\ CallOf'.pc = "return" /\ CallOf'.ret = "ok"
      BY <1>a, <2>1, <2>7, CallSeen
    <3>1. CallOf'.op = "prompt" /\ current \in Ids
      BY <1>b, <2>2 DEF DispatchInv
    <3>2. \A t \in Turns : request'[t] = IF t = n THEN current ELSE request[t]
      BY <1>7, <2>5 DEF DispatchStep
    <3>3. \A t \in Turns : Begun(t)' = (t = n \/ Begun(t))
      BY <2>5 DEF Begun
    <3>4. ~Begun(n) /\ n \notin finished
      BY <1>f DEF Begun
    <3>5. \A t \in Turns : IF Begun(t)' THEN request'[t] \in Ids ELSE request'[t] = NoRequest
      BY <1>b, <3>1, <3>2, <3>3 DEF RequestInv
    <3>6. \A t, u \in Turns : Begun(t)' /\ request'[t] = request'[u] => t = u
      <4>1. \A t \in Turns : request[t] # current
        BY <1>a, <1>b, <2>3, <3>1 DEF RequestInv
      <4>2. \A t, u \in Turns : Begun(t) /\ request[t] = request[u] => t = u
        BY <1>b DEF RequestInv
      <4>3. ASSUME NEW t \in Turns, NEW u \in Turns, Begun(t)', request'[t] = request'[u] PROVE t = u
        <5>1. CASE t = n \/ u = n
          BY <3>2, <4>1, <4>3, <5>1
        <5>2. CASE t # n /\ u # n
          BY <3>2, <3>3, <4>2, <4>3, <5>2
        <5> QED BY <5>1, <5>2
      <4> QED BY <4>3
    <3>7. \A t \in finished' : run'[t] = "returned"
      BY <1>f, <2>1, <2>5, <3>4
    <3>8. \A i \in Ids : Coming(i)' =>
              i \notin silent' /\ i # current' /\ \A t \in Turns : request'[t] # i
      BY <1>b, <1>c, <1>d, <2>1, <3>2 DEF RequestInv
    <3> QED BY <2>1, <2>4, <3>1, <3>5, <3>6, <3>7, <3>8 DEF RequestInv
  <2> QED BY <2>6, <2>7
<1>8. ASSUME NEW t \in Turns, HandlerRuns(t) \/ Backend(t) PROVE RequestInv'
  <2>1. UNCHANGED <<serve, why, current, silent, request, finished>>
    BY <1>8 DEF HandlerRuns, Backend
  <2>2. /\ call' = call
        /\ run[t] \notin {"unused", "returned"} /\ run'[t] # "unused"
        /\ \A u \in Turns : u # t => run'[u] = run[u]
    BY <1>8, TurnSeen DEF HandlerRuns, Backend
  <2>3. \A u \in Turns : Begun(u)' = Begun(u)
    BY <2>2 DEF Begun
  <2>4. \A u \in finished' : run'[u] = "returned"
    BY <1>b, <1>f, <2>1, <2>2 DEF ServerTypeOK
  <2>5. \A u \in Turns : Begun(u) /\ request[u] = current' =>
            CallOf'.op = "prompt" /\ CallOf'.pc = "return" /\ CallOf'.ret = "ok"
    BY <1>b, <2>1, <2>2 DEF RequestInv, CallOf
  <2>6. serve' = "returned" /\ why' = "eof" => \A u \in Turns : Begun(u) => u \in finished'
    BY <1>b, <2>1 DEF RequestInv
  <2> QED BY <1>b, <1>c, <1>d, <2>1, <2>3, <2>4, <2>5, <2>6, RequestFrame
<1>9. ASSUME NEW t \in Turns, HandlerResponds(t) PROVE RequestInv'
  <2>1. /\ UNCHANGED <<serve, why, current, silent, request, run, CallOf>>
        /\ finished' = finished \cup {t} /\ run[t] = "returned"
    BY <1>9 DEF HandlerResponds, vars, runVars, CallOf
  <2>2. \A u \in Turns : Begun(u)' = Begun(u)
    BY <2>1 DEF Begun
  <2>3. \A u \in Turns : Begun(u) /\ request[u] = current' =>
            CallOf'.op = "prompt" /\ CallOf'.pc = "return" /\ CallOf'.ret = "ok"
    BY <1>b, <2>1 DEF RequestInv
  <2>4. serve' = "returned" /\ why' = "eof" => \A u \in Turns : Begun(u) => u \in finished'
    BY <1>b, <2>1 DEF RequestInv
  <2> QED BY <1>b, <1>c, <1>d, <1>f, <2>1, <2>2, <2>3, <2>4, RequestFrame
<1> QED
  BY <1>2, <1>3, <1>4, <1>5, <1>6, <1>7, <1>8, <1>9 DEF ServerNext, ServeStep, HandlerStep

-----------------------------------------------------------------------------
\* A step that answers nobody, begins and finishes no turn keeps the counts,
\* when all it takes up is a request that was to come.
LEMMA CountFrame ==
    ASSUME CountInv, \A i \in Ids : Responses(i)' = Responses(i),
           request' = request, finished' = finished, \A t \in Turns : Begun(t)' = Begun(t),
           \A i \in Ids : Coming(i)' => Coming(i),
           \A i \in Ids : i \in silent' => i \in silent \/ Coming(i), silent \subseteq silent',
           \A i \in Ids : i = current' => i = current \/ Coming(i)
    PROVE  CountInv'
<1> SUFFICES ASSUME NEW i \in Ids
             PROVE  /\ Responses(i) <= 1
                    /\ i \in silent' \/ Coming(i)' => Responses(i) = 0
                    /\ i = current' /\ (\A t \in Turns : Begun(t) => request[t] # i)
                          => Responses(i) = 0
                    /\ \A t \in Turns : Begun(t) /\ request[t] = i /\ i \notin silent' =>
                          Responses(i) = (IF t \in finished THEN 1 ELSE 0)
  BY DEF CountInv
<1> QED BY DEF CountInv

\* The answers are counted right.
LEMMA CountKeeps ==
    ASSUME IInv, SInv, ServerNext
    PROVE  CountInv'
<1> USE DEF serverVars, inputVars
<1>a. Dispatcher \in Callers /\ NoRequest \notin Ids /\ NullId \notin Ids /\ MaxLines \in Nat
  BY ServerAssumption DEF NoRequest, NullId, Ids
<1>b. ServerTypeOK /\ LineInv /\ DispatchInv /\ RequestInv /\ CountInv
  BY DEF SInv
<1>c. \A i \in Ids : Coming(i)' => Coming(i)
  BY <1>b, LineKeeps
<1>d. out \in Seq(Messages) /\ Ids \subseteq 0 .. MaxLines /\ NullId \in 0 .. MaxLines
  BY <1>a, <1>b DEF ServerTypeOK, Ids, NullId
<1>e. \A i \in Ids : Responses(i) \in Nat
  BY <1>d, CountType
<1>f. ASSUME NEW i \in 0 .. MaxLines, out' = Append(out, Response(i)), NEW j \in Ids
      PROVE  Responses(j)' = Responses(j) + (IF j = i THEN 1 ELSE 0)
  <2>1. Response(i) \in Messages
    BY <1>a, MessageTypes
  <2>2. Response(i) = Response(j) <=> i = j
    BY Distinct
  <2> QED BY <1>d, <1>f, <2>1, <2>2, CountAppend
<1>1. ASSUME UNCHANGED <<request, finished, silent>>, \A t \in Turns : Begun(t)' = Begun(t),
             \A i \in Ids : Responses(i)' = Responses(i),
             current' = current \/ current' = NoRequest
      PROVE  CountInv'
  BY <1>1, <1>a, <1>b, <1>c, CountFrame
<1>2. ASSUME out' = out PROVE \A i \in Ids : Responses(i)' = Responses(i)
  BY <1>2 DEF Responses
<1>3. CASE \/ ClientCloses \/ Signal \/ ScanStep \/ Terminated \/ SelectDone \/ SelectEof
           \/ SelectError \/ Unwind \/ Waited \/ Stop \/ Stopped
  <2>1. UNCHANGED <<request, finished, silent, current, out, run>>
    BY <1>3 DEF ClientCloses, Signal, CancelParent, ScanStep, ScanLine, ScanFails, ScanEnds,
       ScanPut, ScanCancelled, Terminated, SelectDone, SelectEof, SelectError, Unwind, Waited,
       Stop, Stopped, Shutdown, Resume, vars, runVars, allVars
  <2> QED BY <1>1, <1>2, <2>1 DEF Begun
<1>4. CASE HandleGarbage
  <2>1. UNCHANGED <<request, finished, silent, current, run>> /\ out' = Append(out, Response(NullId))
    BY <1>4 DEF HandleGarbage, vars, runVars
  <2>2. ASSUME NEW i \in Ids PROVE Responses(i)' = Responses(i)
    BY <1>a, <1>d, <1>e, <1>f, <2>1
  <2> QED BY <1>1, <2>1, <2>2 DEF Begun
<1>5. ASSUME NEW notification \in BOOLEAN, HandleRequest(notification) PROVE CountInv'
  <2> PICK i : i = Head(lines)
    OBVIOUS
  <2>1. /\ UNCHANGED <<request, finished, run, out>>
        /\ silent' \subseteq silent \cup {i} /\ silent \subseteq silent' /\ current' = i
    BY <1>5, <1>a, RequestSeen DEF HandleRequest
  <2>2. i \in Ids /\ Coming(i)
    BY <1>5, <1>b, TakenComes DEF HandleRequest
  <2> QED BY <1>b, <1>c, <1>2, <2>1, <2>2, CountFrame DEF Begun
<1>6. ASSUME HandleUndecodable(TRUE) PROVE CountInv'
  <2> PICK i : i = Head(lines)
    OBVIOUS
  <2>1. UNCHANGED <<request, finished, run, out, current>> /\ silent' = silent \cup {i}
    BY <1>6 DEF HandleUndecodable, vars, runVars
  <2>2. i \in Ids /\ Coming(i)
    BY <1>6, <1>b, TakenComes DEF HandleUndecodable
  <2> QED BY <1>b, <1>c, <1>2, <2>1, <2>2, CountFrame DEF Begun
<1>7. ASSUME HandleUndecodable(FALSE) PROVE CountInv'
  <2> PICK i : i = Head(lines)
    OBVIOUS
  <2>1. UNCHANGED <<request, finished, run, current, silent>> /\ out' = Append(out, Response(i))
    BY <1>7 DEF HandleUndecodable, vars, runVars
  <2>2. i \in Ids /\ Coming(i) /\ ~Coming(i)'
    BY <1>7, <1>b, TakenComes DEF HandleUndecodable
  <2>3. Responses(i) = 0 /\ i \notin silent /\ i # current /\ \A t \in Turns : request[t] # i
    BY <1>b, <2>2 DEF RequestInv, CountInv
  <2>4. \A j \in Ids : Responses(j)' = Responses(j) + (IF j = i THEN 1 ELSE 0)
    BY <1>d, <1>f, <2>1, <2>2
  <2>5. ASSUME NEW j \in Ids
        PROVE  /\ Responses(j)' <= 1
               /\ j \in silent' \/ Coming(j)' => Responses(j)' = 0
               /\ j = current' /\ (\A t \in Turns : Begun(t)' => request'[t] # j) => Responses(j)' = 0
               /\ \A t \in Turns : Begun(t)' /\ request'[t] = j /\ j \notin silent' =>
                     Responses(j)' = (IF t \in finished' THEN 1 ELSE 0)
    <3>1. CASE j = i
      BY <2>1, <2>2, <2>3, <2>4, <3>1
    <3>2. CASE j # i
      <4>1. Responses(j)' = Responses(j)
        BY <1>e, <2>4, <3>2
      <4> QED BY <1>b, <1>c, <2>1, <4>1 DEF CountInv, Begun
    <3> QED BY <3>1, <3>2
  <2> QED BY <2>5 DEF CountInv
<1>8. CASE DispatchStep
  <2>1. CallStep(Dispatcher) /\ UNCHANGED <<current, silent, finished, out>>
    BY <1>8 DEF DispatchStep
  <2>2. CallOf.pc \notin {"idle", "return"}
    BY <1>a, <2>1, CallSeen
  <2>3. \A t \in Turns : Begun(t) => request[t] # current
    BY <1>b, <2>2 DEF RequestInv
  <2>4. request \in [Turns -> 0 .. MaxLines] /\ run \in [Turns -> RunPCs]
    BY <1>b DEF ServerTypeOK, IInv, TypeOK
  <2>5. CASE run' = run
    <3>1. request' = request
      BY <1>8, <2>4, <2>5 DEF DispatchStep
    <3> QED BY <1>1, <1>2, <2>1, <2>5, <3>1 DEF Begun
  <2>6. CASE run' # run
    <3> PICK n \in Turns : run[n] = "unused" /\ run' = [run EXCEPT ![n] = "ready"]
      BY <1>a, <2>1, <2>6, CallSeen
    <3>1. \A t \in Turns : request'[t] = IF t = n THEN current ELSE request[t]
      BY <1>8, <2>4 DEF DispatchStep
    <3>2. \A t \in Turns : Begun(t)' = (t = n \/ Begun(t))
      BY <2>4 DEF Begun
    <3>3. n \notin finished /\ ~Begun(n)
      BY <1>b DEF RequestInv, Begun
    <3>4. ASSUME NEW j \in Ids
          PROVE  /\ Responses(j)' <= 1
                 /\ j \in silent' \/ Coming(j)' => Responses(j)' = 0
                 /\ j = current' /\ (\A t \in Turns : Begun(t)' => request'[t] # j) => Responses(j)' = 0
                 /\ \A t \in Turns : Begun(t)' /\ request'[t] = j /\ j \notin silent' =>
                       Responses(j)' = (IF t \in finished' THEN 1 ELSE 0)
      <4>1. Responses(j)' = Responses(j)
        BY <1>2, <2>1
      <4>2. j = current => Responses(j) = 0
        BY <1>b, <2>3 DEF CountInv
      <4>3. /\ Responses(j) <= 1
            /\ j \in silent \/ Coming(j) => Responses(j) = 0
            /\ \A t \in Turns : Begun(t) /\ request[t] = j /\ j \notin silent =>
                  Responses(j) = (IF t \in finished THEN 1 ELSE 0)
        BY <1>b DEF CountInv
      <4>4. ASSUME NEW t \in Turns, Begun(t)', request'[t] = j, j \notin silent'
            PROVE  Responses(j) = (IF t \in finished THEN 1 ELSE 0)
        <5>1. CASE t = n
          BY <3>1, <3>3, <4>2, <4>4, <5>1
        <5>2. CASE t # n
          BY <2>1, <3>1, <3>2, <4>3, <4>4, <5>2
        <5> QED BY <5>1, <5>2
      <4> QED BY <1>c, <2>1, <4>1, <4>2, <4>3, <4>4
    <3> QED BY <3>4 DEF CountInv
  <2> QED BY <2>5, <2>6
<1>9. CASE Respond
  <2>1. /\ UNCHANGED <<request, finished, silent, run>> /\ current' = NoRequest /\ serve = "call"
        /\ out' \in {out, Append(out, Response(current))}
    BY <1>9 DEF Respond, Resume, runVars
  <2>2. current \in Ids /\ ~Coming(current)
    BY <1>b, <2>1 DEF DispatchInv, RequestInv
  <2>3. CASE out' = out
    BY <1>1, <1>2, <2>1, <2>3 DEF Begun
  <2>4. CASE out' # out
    <3>1. /\ out' = Append(out, Response(current)) /\ current \notin silent
          /\ ~(CallOf.op = "prompt" /\ CallOf.ret = "ok")
      BY <1>9, <2>4 DEF Respond, CallOf
    <3>2. \A t \in Turns : Begun(t) => request[t] # current
      BY <1>b, <3>1 DEF RequestInv
    <3>3. Responses(current) = 0
      BY <1>b, <2>2, <3>2 DEF CountInv
    <3>4. \A j \in Ids : Responses(j)' = Responses(j) + (IF j = current THEN 1 ELSE 0)
      BY <1>d, <1>f, <2>2, <3>1
    <3>5. ASSUME NEW j \in Ids
          PROVE  /\ Responses(j)' <= 1
                 /\ j \in silent' \/ Coming(j)' => Responses(j)' = 0
                 /\ j = current' /\ (\A t \in Turns : Begun(t)' => request'[t] # j) => Responses(j)' = 0
                 /\ \A t \in Turns : Begun(t)' /\ request'[t] = j /\ j \notin silent' =>
                       Responses(j)' = (IF t \in finished' THEN 1 ELSE 0)
      <4>1. CASE j = current
        <5>1. Responses(j)' = 1
          BY <3>3, <3>4, <4>1
        <5>2. ~Coming(j)'
          BY <1>c, <2>2, <4>1
        <5> QED BY <1>a, <2>1, <3>1, <3>2, <4>1, <5>1, <5>2 DEF Begun
      <4>2. CASE j # current
        <5>1. Responses(j)' = Responses(j)
          BY <1>e, <3>4, <4>2
        <5> QED BY <1>a, <1>b, <1>c, <2>1, <5>1 DEF CountInv, Begun
      <4> QED BY <4>1, <4>2
    <3> QED BY <3>5 DEF CountInv
  <2> QED BY <2>3, <2>4
<1>10. ASSUME NEW t \in Turns, HandlerRuns(t) \/ Backend(t) PROVE CountInv'
  <2>1. UNCHANGED <<current, silent, request, finished>> /\ out' \in {out, Append(out, Update(request[t]))}
    BY <1>10 DEF HandlerRuns, Backend
  <2>2. ASSUME NEW u \in Turns PROVE Begun(u)' = Begun(u)
    BY <1>10, TurnSeen DEF HandlerRuns, Backend, Begun
  <2>3. ASSUME NEW i \in Ids PROVE Responses(i)' = Responses(i)
    <3>1. CASE out' = out
      BY <1>2, <3>1
    <3>2. CASE out' # out
      <4>1. Update(request[t]) \in Messages /\ Update(request[t]) # Response(i)
        BY <1>a, <1>b, MessageTypes, Distinct DEF ServerTypeOK
      <4> QED BY <1>d, <1>e, <2>1, <3>2, <4>1, CountAppend
    <3> QED BY <3>1, <3>2
  <2> QED BY <1>1, <2>1, <2>2, <2>3
<1>11. ASSUME NEW t \in Turns, HandlerResponds(t) PROVE CountInv'
  <2> PICK i : i = request[t]
    OBVIOUS
  <2>1. /\ UNCHANGED <<current, silent, request, run>> /\ finished' = finished \cup {t}
        /\ t \notin finished /\ run[t] = "returned"
        /\ out' = IF i \in silent THEN out ELSE Append(out, Response(i))
    BY <1>11 DEF HandlerResponds, vars, runVars
  <2>2. Begun(t) /\ i \in Ids /\ ~Coming(i)
    BY <1>b, <2>1 DEF RequestInv, Begun
  <2>3. \A u \in Turns : Begun(u) /\ request[u] = i => u = t
    BY <1>b DEF RequestInv
  <2>4. Responses(i) = 0
    BY <1>b, <2>1, <2>2 DEF CountInv
  <2>5. ASSUME NEW j \in Ids
        PROVE  /\ Responses(j)' <= 1
               /\ j \in silent' \/ Coming(j)' => Responses(j)' = 0
               /\ j = current' /\ (\A u \in Turns : Begun(u)' => request'[u] # j) => Responses(j)' = 0
               /\ \A u \in Turns : Begun(u)' /\ request'[u] = j /\ j \notin silent' =>
                     Responses(j)' = (IF u \in finished' THEN 1 ELSE 0)
    <3>1. Responses(j)' = IF j = i /\ i \notin silent THEN 1 ELSE Responses(j)
      <4>1. CASE i \in silent
        BY <1>2, <2>1, <4>1
      <4>2. CASE i \notin silent
        BY <1>d, <1>e, <1>f, <2>1, <2>2, <2>4, <4>2
      <4> QED BY <4>1, <4>2
    <3>2. CASE j = i
      BY <1>c, <2>1, <2>2, <2>3, <2>4, <3>1, <3>2 DEF Begun
    <3>3. CASE j # i
      BY <1>b, <1>c, <2>1, <3>1, <3>3 DEF CountInv, Begun
    <3> QED BY <3>2, <3>3
  <2> QED BY <2>5 DEF CountInv
<1> QED
  BY <1>3, <1>4, <1>5, <1>6, <1>7, <1>8, <1>9, <1>10, <1>11 DEF ServerNext, ServeStep, HandlerStep

-----------------------------------------------------------------------------
\* At the start nothing is written, and every line is yet to come.
LEMMA InitSInv == ServerInit => SInv
<1> SUFFICES ASSUME ServerInit PROVE SInv
  OBVIOUS
<1>a. MaxLines \in Nat /\ Dispatcher \in Callers
  BY ServerAssumption
<1>1. ServerTypeOK
  <2>1. <<>> \in Seq(0 .. MaxLines) /\ <<>> \in Seq(Messages) /\ Len(<<>>) = 0
    OBVIOUS
  <2>2. request \in [Turns -> 0 .. MaxLines]
    BY <1>a DEF ServerInit, NoRequest
  <2>3. lines \in Seq(0 .. MaxLines) /\ Len(lines) <= 1 /\ out \in Seq(Messages)
    BY <2>1 DEF ServerInit
  <2>4. /\ scanned \in 0 .. MaxLines /\ current \in 0 .. MaxLines
        /\ silent \subseteq Ids /\ finished \subseteq Turns
    BY <1>a DEF ServerInit, NoRequest
  <2> QED BY <2>2, <2>3, <2>4 DEF ServerInit, ServerTypeOK
<1>2. LineInv
  BY DEF ServerInit, LineInv
<1>3. DispatchInv
  BY <1>a DEF ServerInit, Init, DispatchInv, CallOf, IdleCall
<1>4. RequestInv
  BY <1>a DEF ServerInit, Init, RequestInv, Begun, NoRequest, Ids
<1>5. CountInv
  <2>1. ASSUME NEW i \in Ids PROVE Responses(i) = 0
    BY <1>1, CountType DEF ServerInit, ServerTypeOK
  <2> QED BY <2>1 DEF CountInv, ServerInit, Init, Begun
<1> QED BY <1>1, <1>2, <1>3, <1>4, <1>5 DEF SInv

\* The invariant of the server, on top of the service's.
LEMMA ServerInvariance == ServerSpec => [](IInv /\ SInv)
<1>1. IInv /\ SInv /\ [ServerNext]_allVars => SInv'
  <2> SUFFICES ASSUME IInv, SInv, [ServerNext]_allVars PROVE SInv'
    OBVIOUS
  <2>1. CASE ServerNext
    BY <2>1, ServerTypeStep, LineKeeps, DispatchKeeps, RequestKeeps, CountKeeps DEF SInv
  <2>2. CASE UNCHANGED allVars
    <3> USE <2>2 DEF allVars, vars, runVars, inputVars, serverVars
    <3>1. ServerTypeOK' /\ LineInv'
      BY DEF SInv, ServerTypeOK, LineInv
    <3>2. DispatchInv'
      BY DEF SInv, DispatchInv, CallOf
    <3>3. RequestInv'
      BY DEF SInv, RequestInv, Begun, Coming, CallOf
    <3>4. CountInv'
      BY DEF SInv, CountInv, Begun, Coming, Responses
    <3> QED BY <3>1, <3>2, <3>3, <3>4 DEF SInv
  <2> QED BY <2>1, <2>2
<1>2. ServerSpec => []IInv
  BY ServerRefinesService, Invariance, PTL DEF ServerImplementsService
<1> QED BY <1>1, <1>2, InitSInv, PTL DEF ServerSpec

\* The server's variables keep their types, the channel its capacity of 1.
THEOREM ServerTypeCorrect == ServerSpec => []ServerTypeOK
<1>1. SInv => ServerTypeOK
  BY DEF SInv
<1> QED BY <1>1, ServerInvariance, PTL

\* A request is answered at most once and a notification never; an accepted
\* prompt is answered exactly when its handler is done.
THEOREM EachAnsweredOnce == ServerSpec => []AnsweredOnce
<1>1. SInv => AnsweredOnce
  <2> SUFFICES ASSUME SInv PROVE AnsweredOnce
    OBVIOUS
  <2>1. ASSUME NEW i \in Ids PROVE Responses(i) <= (IF i \in silent THEN 0 ELSE 1)
    BY DEF SInv, CountInv
  <2>2. ASSUME NEW t \in Turns, Begun(t), request[t] \notin silent
        PROVE  Responses(request[t]) = (IF t \in finished THEN 1 ELSE 0)
    BY <2>2 DEF SInv, RequestInv, CountInv
  <2> QED BY <2>1, <2>2 DEF AnsweredOnce
<1> QED BY <1>1, ServerInvariance, PTL

\* A client that has the answer to a prompt finds the session free: only a
\* turn that Run has returned from is answered, and it holds no slot.
THEOREM SlotFreeBeforeAnswer == ServerSpec => []SlotFreeOnAnswer
<1>1. IInv /\ SInv => SlotFreeOnAnswer
  <2> SUFFICES ASSUME IInv, SInv, NEW t \in Turns, Begun(t), Responses(request[t]) > 0
               PROVE  active[owner[t]] # t
    BY DEF SlotFreeOnAnswer
  <2>1. t \in finished
    <3>1. request[t] \in Ids
      BY DEF SInv, RequestInv
    <3>2. Responses(request[t]) # 0
      OBVIOUS
    <3>3. request[t] \notin silent
      BY <3>1, <3>2 DEF SInv, CountInv
    <3> QED BY <3>1, <3>2, <3>3 DEF SInv, CountInv
  <2>2. ~Running(t)
    BY <2>1 DEF SInv, RequestInv, Running
  <2>3. owner[t] \in Sessions /\ t # None
    BY ServiceAssumption DEF IInv, TurnsKnow, TurnKnows, Begun
  <2> QED BY <2>2, <2>3 DEF IInv, SlotConsistent
<1> QED BY <1>1, ServerInvariance, PTL

\* When the input ended, Serve waits for every handler, so it returns only
\* after every accepted prompt has its answer.
THEOREM EndOfInputAnswers == ServerSpec => []EndOfInputAnswersPrompts
<1>1. SInv => EndOfInputAnswersPrompts
  <2> SUFFICES ASSUME SInv, serve = "returned", why = "eof",
                      NEW t \in Turns, Begun(t), request[t] \notin silent
               PROVE  Responses(request[t]) = 1
    BY DEF EndOfInputAnswersPrompts
  <2> QED BY DEF SInv, RequestInv, CountInv
<1> QED BY <1>1, ServerInvariance, PTL

\* Every update of a prompt is on stdout before its response: a turn sends
\* updates while it runs only, and it is not answered before it returned.
THEOREM UpdatesComeFirst == ServerSpec => []UpdatesPrecedeResponse
<1>1. ServerInit => UpdatesPrecedeResponse
  BY DEF ServerInit, UpdatesPrecedeResponse
<1>2. IInv /\ SInv /\ UpdatesPrecedeResponse /\ [ServerNext]_allVars => UpdatesPrecedeResponse'
  <2> SUFFICES ASSUME IInv, SInv, UpdatesPrecedeResponse, [ServerNext]_allVars
               PROVE  UpdatesPrecedeResponse'
    OBVIOUS
  <2> USE DEF inputVars, serverVars
  <2>t. out \in Seq(Messages) /\ Len(out) \in Nat /\ DOMAIN out = 1 .. Len(out)
        /\ NullId \notin Ids
    BY ServerAssumption DEF SInv, ServerTypeOK, NullId, Ids
  <2>1. ASSUME out' = out PROVE UpdatesPrecedeResponse'
    BY <2>1 DEF UpdatesPrecedeResponse
  <2>2. ASSUME NEW m, out' = Append(out, m),
               \A k \in DOMAIN out :
                   out[k].type = "response" /\ out[k].id # NullId => m # Update(out[k].id)
        PROVE  UpdatesPrecedeResponse'
    <3> DEFINE n == Len(out) + 1
    <3>1. DOMAIN out' = 1 .. n /\ out'[n] = m /\ \A k \in DOMAIN out : out'[k] = out[k]
      BY <2>2, <2>t
    <3> HIDE DEF n
    <3>2. ASSUME NEW k \in DOMAIN out', NEW l \in DOMAIN out', k < l,
                 out'[k].type = "response", out'[k].id # NullId
          PROVE  out'[l] # Update(out'[k].id)
      <4>1. k \in DOMAIN out
        BY <2>t, <3>1, <3>2 DEF n
      <4>2. CASE l \in DOMAIN out
        BY <3>1, <3>2, <4>1, <4>2 DEF UpdatesPrecedeResponse
      <4>3. CASE l = n
        BY <2>2, <3>1, <3>2, <4>1, <4>3
      <4> QED BY <2>t, <3>1, <4>2, <4>3 DEF n
    <3> QED BY <3>2 DEF UpdatesPrecedeResponse
  <2>3. ASSUME NEW i, out' = Append(out, Response(i)) PROVE UpdatesPrecedeResponse'
    BY <2>2, <2>3, Distinct
  <2>4. ASSUME NEW t \in Turns, HandlerRuns(t) PROVE UpdatesPrecedeResponse'
    <3>1. run[t] \notin {"unused", "returned"}
      BY <2>4, TurnSeen DEF HandlerRuns
    <3>2. request[t] \in Ids /\ t \notin finished
      BY <3>1 DEF SInv, RequestInv, Begun
    <3>3. Responses(request[t]) = 0
      BY <3>1, <3>2 DEF SInv, CountInv, Begun
    <3>4. \A k \in DOMAIN out : out[k] # Response(request[t])
      BY <2>t, <3>3, CountType
    <3>5. ASSUME NEW k \in DOMAIN out, out[k].type = "response", Update(request[t]) = Update(out[k].id)
          PROVE  FALSE
      <4>1. out[k].id = request[t]
        <5>1. Update(request[t]).id = request[t] /\ Update(out[k].id).id = out[k].id
          BY DEF Update
        <5> QED BY <3>5, <5>1
      <4>2. out[k] \in Messages
        BY <2>t
      <4>3. out[k] = Response(out[k].id)
        BY <3>5, <4>2 DEF Messages, Response
      <4> QED BY <3>4, <4>1, <4>3
    <3>6. out' = out \/ out' = Append(out, Update(request[t]))
      BY <2>4 DEF HandlerRuns
    <3> QED BY <2>1, <2>2, <3>5, <3>6
  <2>5. CASE out' = out \/ \E i : out' = Append(out, Response(i))
    BY <2>1, <2>3, <2>5
  <2>6. \/ out' = out \/ \E i : out' = Append(out, Response(i))
        \/ \E t \in Turns : HandlerRuns(t)
    BY DEF ServerNext, ServeStep, ScanStep, HandlerStep, ClientCloses, Signal, ScanLine, ScanFails,
       ScanEnds, ScanPut, ScanCancelled, HandleGarbage, HandleUndecodable, HandleRequest,
       DispatchStep, Respond, SelectDone, SelectEof, SelectError, Stop, Stopped, Unwind, Waited,
       HandlerResponds, Backend, Terminated, allVars
  <2> QED BY <2>4, <2>5, <2>6
<1> QED BY <1>1, <1>2, ServerInvariance, PTL DEF ServerSpec
-----------------------------------------------------------------------------
\* Serve is the service's one caller.
LEMMA ServerOneCaller == ServerSpec => [](IInv /\ OInv(Dispatcher))
<1>1. Callers = {Dispatcher}
  BY ServerAssumption
<1>2. Init => OInv(Dispatcher)
  BY <1>1, InitOInv
<1>3. IInv /\ OInv(Dispatcher) /\ [Next]_vars => OInv(Dispatcher)'
  BY <1>1, NextOInv
<1> QED BY <1>2, <1>3, Invariance, ServerRefinesService, PTL DEF ServerImplementsService, Spec

\* Behind the server no prompt reports a cancellation that was not its own, and
\* no turn streams on a disconnected transport with a context that is alive.
THEOREM ServerKeepsTurnsApart ==
    ServerSpec => [](NoPhantomCancelFailure /\ ReleasedTurnsCancelled)
<1>1. OInv(Dispatcher) => NoPhantomCancelFailure /\ ReleasedTurnsCancelled
  BY DEF OInv
<1> QED BY <1>1, ServerOneCaller, PTL

\* After the shutdown no session is registered, and no call is made any more.
LeftInv == serve \in {"wait", "unwind", "returned"} => registry = {}

\* Nothing is registered after the shutdown.
LEMMA LeftKeeps ==
    ASSUME IInv, OInv(Dispatcher), DispatchInv, LeftInv, ServerNext
    PROVE  LeftInv'
<1> USE DEF serverVars, sessionVars
<1>1. CASE serve \in {"wait", "unwind", "returned"}
  <2>1. Dispatcher \in Callers /\ CallOf.pc = "idle"
    BY <1>1, ServerAssumption DEF DispatchInv
  <2>2. ~CallStep(Dispatcher)
    BY <2>1, CallSeen
  <2>3. ~Resume(Dispatcher)
    BY <2>1 DEF Resume, At, CallOf
  <2>4. ASSUME NEW t \in Turns, HandlerStep(t) \/ Backend(t) PROVE registry' = registry
    BY <2>4 DEF HandlerStep, HandlerRuns, HandlerResponds, Backend, RunStep, TransportStep, RunStart,
       RunEvent, RunDone, RunWait, RunUnblock, RunCheck, RunFinish, TurnEmits, TurnEnds, vars
  <2>5. registry' = registry
    BY <1>1, <2>2, <2>3, <2>4 DEF ServerNext, ServeStep, ScanStep, ClientCloses, Signal, ScanLine,
       ScanFails, ScanEnds, ScanPut, ScanCancelled, HandleGarbage, HandleUndecodable, HandleRequest,
       Take, DispatchStep, Respond, SelectDone, SelectEof, SelectError, Stop, Stopped, Unwind,
       Waited, Terminated, CancelParent, vars, allVars
  <2> QED BY <1>1, <2>5 DEF LeftInv
<1>2. CASE Stopped
  <2>1. CallOf.op = "shutdown" /\ CallOf.pc = "return" /\ registry' = registry
    BY <1>2 DEF Stopped, Resume, At, DispatchInv, CallOf
  <2>2. registry = {}
    BY <2>1 DEF OInv, CallHolds, CallOf
  <2> QED BY <2>1, <2>2 DEF LeftInv
<1>3. CASE serve \notin {"wait", "unwind", "returned"} /\ ~Stopped
  <2>1. serve' \notin {"wait", "unwind", "returned"}
    BY <1>3 DEF ServerNext, ServeStep, ScanStep, ClientCloses, Signal, ScanLine,
       ScanFails, ScanEnds, ScanPut, ScanCancelled, HandleGarbage, HandleUndecodable, HandleRequest,
       Take, DispatchStep, Respond, SelectDone, SelectEof, SelectError, Stop, Unwind, HandlerStep,
       HandlerRuns, HandlerResponds, Backend, Waited, Terminated, allVars
  <2> QED BY <2>1 DEF LeftInv
<1> QED BY <1>1, <1>2, <1>3

\* Whichever way Serve returned, the shutdown released every transport and
\* removed every MCP file: what is left belongs to no session and to no call.
THEOREM NothingIsLeft == ServerSpec => []ReturnLeavesNothing
<1>1. ServerInit => LeftInv
  BY DEF ServerInit, LeftInv
<1>2. (IInv /\ OInv(Dispatcher)) /\ (IInv /\ SInv) /\ LeftInv /\ [ServerNext]_allVars => LeftInv'
  <2> SUFFICES ASSUME IInv, OInv(Dispatcher), SInv, LeftInv, [ServerNext]_allVars PROVE LeftInv'
    OBVIOUS
  <2>1. CASE ServerNext
    BY <2>1, LeftKeeps DEF SInv
  <2>2. CASE UNCHANGED allVars
    BY <2>2 DEF LeftInv, allVars, vars, serverVars, sessionVars
  <2> QED BY <2>1, <2>2
<1>3. IInv /\ OInv(Dispatcher) /\ SInv /\ LeftInv => ReturnLeavesNothing
  <2> SUFFICES ASSUME IInv, OInv(Dispatcher), SInv, LeftInv, serve = "returned"
               PROVE  ReturnLeavesNothing
    BY DEF ReturnLeavesNothing
  <2>1. registry = {} /\ CallOf.pc = "idle"
    BY DEF LeftInv, SInv, DispatchInv
  <2>2. ~Holding(Dispatcher) /\ ~Cleaning(Dispatcher)
    BY <2>1 DEF Holding, Cleaning, CallOf
  <2>3. mcp = {}
    BY <2>1, <2>2 DEF OInv, NothingLost, CallOf
  <2>4. link \in [Transports -> Links]
    BY DEF IInv, TypeOK
  <2>5. \A x \in Transports : link[x] \in {"none", "released"}
    BY <2>1, <2>2, <2>4 DEF OInv, NothingLost, Links
  <2> QED BY <2>1, <2>3, <2>5 DEF ReturnLeavesNothing
<1> QED BY <1>1, <1>2, <1>3, ServerOneCaller, ServerInvariance, PTL DEF ServerSpec
=============================================================================
