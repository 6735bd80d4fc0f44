-------------------------- MODULE ClaudeTurn_proofs --------------------------
(***************************************************************************)
(* Theorems about ClaudeTurn, for any number of turns and lines and any    *)
(* capacity of the payload channel.                                        *)
(***************************************************************************)
EXTENDS ClaudeTurn, TLAPS

\* A turn that waits for the prompt sign with a live context has a reader, and
\* so has every turn that came further.
ReaderInv ==
    /\ pc = "ready" /\ ~ctxDone => hasReader
    /\ pc \notin {"idle", "ready"} => hasReader

\* Init and every step keep ReaderInv: the reader is taken by StartTurn, with a
\* live context from a client that has one only, and WaitReady needs that.
LEMMA ReaderStep == ReaderInv /\ [Next]_vars => ReaderInv'
<1> SUFFICES ASSUME ReaderInv, [Next]_vars PROVE ReaderInv'
  OBVIOUS
<1> USE DEF ReaderInv
<1>1. CASE Claude
  BY <1>1 DEF Claude, WriteLine, CompleteLine, EndMessage, StopHook, HooksCollide,
              runner, stopping
<1>2. CASE ReadStop \/ StopReader \/ Disconnect \/ Killed \/ KillFails \/ Cancel
  BY <1>2 DEF ReadStop, StopReader, Disconnect, Killed, KillFails, Cancel, runner, stopping
<1>3. CASE ContextEnds
  BY <1>3 DEF ContextEnds, stopping
<1>4. CASE StartTurn \/ NotConnected
  BY <1>4 DEF StartTurn, NotConnected, At, stopping
<1>5. CASE WaitReady \/ Locate \/ TurnStartOffset \/ Drain \/ Drained \/ WriteCurrentTurn
  BY <1>5 DEF WaitReady, Locate, TurnStartOffset, Drain, Drained, WriteCurrentTurn,
              Moves, At, runner, stopping
<1>6. CASE PastePrompt \/ PasteReturns \/ Enter \/ EnterReturns
  BY <1>6 DEF PastePrompt, PasteReturns, Enter, EnterReturns, Moves, At, stopping
<1>7. CASE PeekPayload \/ PeekTimesOut \/ FindTranscript \/ SelectPayload \/ SelectTimesOut
  BY <1>7 DEF PeekPayload, PeekTimesOut, FindTranscript, SelectPayload, SelectTimesOut,
              Moves, At, stopping
<1>8. CASE ReadNewEvents \/ Emit \/ NotYet
  BY <1>8 DEF ReadNewEvents, Emit, NotYet, Moves, At, stopping
<1>9. CASE WriteFails \/ TmuxFails \/ TranscriptNotFound \/ ReadFails \/ Completes \/ GiveUp
  BY <1>9 DEF WriteFails, TmuxFails, TranscriptNotFound, ReadFails, Completes, GiveUp, Returns, LocalsEnd
<1>10. CASE UNCHANGED vars
  BY <1>10 DEF vars, runner, stopping
<1> QED
  BY <1>1, <1>2, <1>3, <1>4, <1>5, <1>6, <1>7, <1>8, <1>9, <1>10 DEF Next, RunTurn

\* No turn gets to Drain, or further, with the nil stopReader that a failed
\* Disconnect leaves.
THEOREM NilReaderNeverUsed == Spec => []NilReaderUnused
<1>1. Init => ReaderInv
  BY DEF Init, ReaderInv
<1>2. ReaderInv => NilReaderUnused
  BY DEF ReaderInv, NilReaderUnused
<1> QED BY <1>1, <1>2, ReaderStep, PTL DEF Spec

-----------------------------------------------------------------------------
\* The types in three parts, as the variables are grouped.  A turn that runs is
\* one of Turns: the types of the locals need it.
RunnerType ==
    /\ pc \in PCs
    /\ turn \in 0 .. MaxTurns
    /\ pc # "idle" => turn \in Turns
    /\ ctxDone \in BOOLEAN /\ found \in BOOLEAN
    /\ start \in Nat /\ offset \in Nat
    /\ batch \in Seq(Lines) /\ collected \in Seq(Lines)
    /\ sent \in [Turns -> Seq(Lines)]
    /\ result \in [Turns -> Results]
    /\ entered \subseteq Turns

StoppingType ==
    /\ turnFile \in Turns \cup {None}
    /\ pipe \in Seq(Turns \cup {None})
    /\ payloads \in Seq(Turns \cup {None}) /\ Len(payloads) <= PayloadCap
    /\ closed \in BOOLEAN /\ hasReader \in BOOLEAN
    /\ client \in {"connected", "lame", "closing", "gone"}

Messages == [of : SUBSET Turns, phase : {"work", "tail", "stop"}]

OutsideType ==
    /\ input \in Seq(Turns)
    /\ message \in Messages \cup {None}
    /\ file \in Seq(Lines)
    /\ partial \in Lines \cup {None}
    /\ hooks \in Nat

TypeInv == RunnerType /\ StoppingType /\ OutsideType

\* The three parts give the type invariant of the runs.
LEMMA TypeParts == TypeInv => TypeOK
  BY DEF TypeInv, RunnerType, StoppingType, OutsideType, TypeOK, Messages

\* What does not change keeps its type.
LEMMA TypeFrames ==
    /\ RunnerType /\ UNCHANGED runner => RunnerType'
    /\ StoppingType /\ UNCHANGED stopping => StoppingType'
    /\ OutsideType /\ UNCHANGED claude => OutsideType'
<1>1. RunnerType /\ UNCHANGED runner => RunnerType'
  BY DEF RunnerType, runner
<1>2. StoppingType /\ UNCHANGED stopping => StoppingType'
  BY DEF StoppingType, stopping
<1>3. OutsideType /\ UNCHANGED claude => OutsideType'
  BY DEF OutsideType, claude
<1> QED BY <1>1, <1>2, <1>3

\* A message that is interrupted is a message.
LEMMA InterruptType ==
    ASSUME OutsideType, Interrupted, UNCHANGED <<file, partial, hooks>>
    PROVE  OutsideType'
<1>1. input' \in Seq(Turns)
  BY DEF Interrupted
<1>2. message' \in Messages \cup {None}
  BY DEF OutsideType, Interrupted, Messages
<1> QED BY <1>1, <1>2 DEF OutsideType

\* The pane and the file.
LEMMA OutsideStep == ASSUME TypeInv, Next PROVE OutsideType'
<1> USE DEF TypeInv
<1>1. CASE \E kind \in Kinds : WriteLine(kind)
  <2>1. message \in Messages
    BY <1>1 DEF WriteLine, OutsideType
  <2>2. partial' \in Lines
    BY <1>1, <2>1 DEF WriteLine, Messages, Lines
  <2> QED BY <1>1, <2>2 DEF WriteLine, OutsideType
<1>2. CASE CompleteLine
  <2>1. partial \in Lines
    BY <1>2 DEF CompleteLine, OutsideType
  <2>3. file' \in Seq(Lines)
    BY <1>2, <2>1 DEF CompleteLine, OutsideType
  <2>4. message # None => [message EXCEPT !.phase = "tail"] \in Messages
    BY DEF OutsideType, Messages
  <2>5. message' \in Messages \cup {None}
    BY <1>2, <2>4 DEF CompleteLine, OutsideType
  <2>6. hooks' \in Nat /\ partial' = None /\ input' = input
    BY <1>2 DEF CompleteLine, OutsideType
  <2> QED BY <2>3, <2>5, <2>6 DEF OutsideType
<1>3. CASE EndMessage
  BY <1>3 DEF EndMessage, OutsideType
<1>4. CASE StopHook \/ HooksCollide
  <2>1. hooks' \in Nat
    BY <1>4 DEF StopHook, HooksCollide, OutsideType
  <2> QED BY <1>4, <2>1 DEF StopHook, HooksCollide, OutsideType
<1>5. CASE ReadStop \/ StopReader \/ Disconnect \/ ContextEnds \/ StartTurn \/ NotConnected
  BY <1>5, TypeFrames DEF ReadStop, StopReader, Disconnect, ContextEnds, StartTurn, NotConnected
<1>6. CASE Killed
  BY <1>6 DEF Killed, OutsideType
<1>7. CASE KillFails \/ Cancel
  BY <1>7, InterruptType, TypeFrames DEF KillFails, Cancel, claude
<1>8. ASSUME NEW r \in Results, Returns(r) PROVE OutsideType'
  BY <1>8, InterruptType, TypeFrames DEF Returns, claude
<1>9. CASE WriteFails \/ TmuxFails \/ TranscriptNotFound \/ ReadFails \/ Completes \/ GiveUp
  BY <1>8, <1>9 DEF WriteFails, TmuxFails, TranscriptNotFound, ReadFails, Completes, GiveUp, Results
<1>10. CASE PastePrompt
  <2>1. turn \in Turns
    BY <1>10 DEF PastePrompt, Moves, At, RunnerType
  <2> QED BY <1>10, <2>1 DEF PastePrompt, Moves, OutsideType
<1>11. CASE Enter
  <2>1. ASSUME input # <<>> PROVE message' \in Messages
    <3>1. {input[k] : k \in DOMAIN input} \subseteq Turns
      BY DEF OutsideType
    <3> QED BY <1>11, <2>1, <3>1 DEF Enter, Messages
  <2>2. message' \in Messages \cup {None}
    BY <1>11, <2>1 DEF Enter, OutsideType
  <2> QED BY <1>11, <2>2 DEF Enter, OutsideType
<1>12. CASE WaitReady \/ Locate \/ TurnStartOffset \/ Drained \/ WriteCurrentTurn \/ PasteReturns
  BY <1>12, TypeFrames DEF WaitReady, Locate, TurnStartOffset, Drained, WriteCurrentTurn,
                           PasteReturns, Moves, claude
<1>13. CASE EnterReturns \/ PeekPayload \/ PeekTimesOut \/ FindTranscript
  BY <1>13, TypeFrames DEF EnterReturns, PeekPayload, PeekTimesOut, FindTranscript,
                           Moves, claude
<1>14. CASE ReadNewEvents \/ NotYet \/ SelectPayload \/ SelectTimesOut \/ Drain \/ Emit
  BY <1>14, TypeFrames DEF ReadNewEvents, NotYet, SelectPayload, SelectTimesOut, Drain,
                           Emit, Moves, claude
<1> QED
  BY <1>1, <1>2, <1>3, <1>4, <1>5, <1>6, <1>7, <1>9, <1>10, <1>11, <1>12, <1>13, <1>14
     DEF Next, Claude, RunTurn

\* The result of a turn that returns: given up with Claude interrupted, or what
\* it failed with.
LEMMA ReturnResult ==
    ASSUME NEW r \in Results, Returns(r)
    PROVE  \E s \in Results :
              /\ result' = [result EXCEPT ![turn] = s]
              /\ s = "ok" <=> r = "ok"
              /\ s = "gaveup" => r = "gaveup" /\ (turn \in entered /\ ctxDone => Interrupted)
<1>1. "failed" \in Results
  BY DEF Results
<1>2. CASE result' = [result EXCEPT ![turn] = r]
           /\ (r # "ok" /\ turn \in entered /\ ctxDone => Interrupted)
  BY <1>2
<1>3. CASE r # "ok" /\ r # "gaveup" /\ result' = [result EXCEPT ![turn] = r]
  BY <1>3
<1>4. CASE r = "gaveup" /\ result' = [result EXCEPT ![turn] = "failed"]
  BY <1>1, <1>4
<1> QED BY <1>2, <1>3, <1>4 DEF Returns

\* The FIFO and the stopReader.
LEMMA StoppingStep == ASSUME TypeInv, Next PROVE StoppingType'
<1> USE DEF TypeInv
<1>1. CASE (\E kind \in Kinds : WriteLine(kind)) \/ CompleteLine \/ EndMessage \/ HooksCollide
  BY <1>1, TypeFrames DEF WriteLine, CompleteLine, EndMessage, HooksCollide
<1>2. CASE StopHook
  <2>1. pipe' \in Seq(Turns \cup {None})
    BY <1>2 DEF StopHook, StoppingType
  <2> QED BY <1>2, <2>1 DEF StopHook, StoppingType
<1>3. CASE ReadStop
  <2>1. Head(pipe) \in Turns \cup {None} /\ pipe' \in Seq(Turns \cup {None})
    BY <1>3 DEF ReadStop, StoppingType
  <2>2. payloads' \in Seq(Turns \cup {None}) /\ Len(payloads') = Len(payloads) + 1
    BY <1>3, <2>1 DEF ReadStop, StoppingType
  <2>3. Len(payloads') <= PayloadCap
    BY <1>3, <2>2, TurnAssumption DEF ReadStop, StoppingType
  <2> QED BY <1>3, <2>1, <2>2, <2>3 DEF ReadStop, StoppingType
<1>4. CASE StopReader \/ Disconnect \/ Killed \/ KillFails
  <2>1. CASE StopReader \/ Disconnect \/ KillFails
    BY <2>1 DEF StopReader, Disconnect, KillFails, StoppingType
  <2>2. CASE Killed
    <3>1. pipe' \in Seq(Turns \cup {None})
      BY <2>2 DEF Killed
    <3> QED BY <2>2, <3>1 DEF Killed, StoppingType
  <2> QED BY <1>4, <2>1, <2>2
<1>5. CASE Cancel \/ ContextEnds \/ NotConnected
  BY <1>5, TypeFrames DEF Cancel, ContextEnds, NotConnected
<1>6. CASE StartTurn
  BY <1>6 DEF StartTurn, StoppingType
<1>7. ASSUME payloads # <<>>, payloads' = Tail(payloads)
      PROVE  payloads' \in Seq(Turns \cup {None}) /\ Len(payloads') <= PayloadCap
  BY <1>7, TurnAssumption DEF StoppingType
<1>8. CASE Drain
  BY <1>7, <1>8 DEF Drain, StoppingType
<1>9. CASE PeekPayload \/ SelectPayload
  <2>1. payloads' \in Seq(Turns \cup {None}) /\ Len(payloads') <= PayloadCap
    BY <1>7, <1>9 DEF PeekPayload, SelectPayload, Receive, StoppingType
  <2> QED BY <1>9, <2>1 DEF PeekPayload, SelectPayload, StoppingType
<1>10. CASE WriteCurrentTurn
  <2>1. turn \in Turns
    BY <1>10 DEF WriteCurrentTurn, Moves, At, RunnerType
  <2> QED BY <1>10, <2>1 DEF WriteCurrentTurn, StoppingType
<1>11. CASE WriteFails \/ TmuxFails \/ TranscriptNotFound \/ ReadFails \/ Completes \/ GiveUp
  BY <1>11 DEF WriteFails, TmuxFails, TranscriptNotFound, ReadFails, Completes, GiveUp,
               Returns, LocalsEnd, StoppingType
<1>12. CASE WaitReady \/ Locate \/ TurnStartOffset \/ Drained \/ PastePrompt \/ PasteReturns
            \/ Enter \/ EnterReturns
  BY <1>12, TypeFrames DEF WaitReady, Locate, TurnStartOffset, Drained, PastePrompt,
                           PasteReturns, Enter, EnterReturns
<1>13. CASE PeekTimesOut \/ FindTranscript \/ ReadNewEvents \/ Emit \/ NotYet \/ SelectTimesOut
  BY <1>13, TypeFrames DEF PeekTimesOut, FindTranscript, ReadNewEvents, Emit, NotYet,
                           SelectTimesOut
<1> QED
  BY <1>1, <1>2, <1>3, <1>4, <1>5, <1>6, <1>8, <1>9, <1>10, <1>11, <1>12, <1>13
     DEF Next, Claude, RunTurn

\* runTurn and its locals.
LEMMA RunnerStep == ASSUME TypeInv, Next PROVE RunnerType'
<1> USE DEF TypeInv
<1>1. CASE Claude
  BY <1>1, TypeFrames DEF Claude, WriteLine, CompleteLine, EndMessage, StopHook, HooksCollide
<1>2. CASE ReadStop \/ StopReader \/ Disconnect \/ Killed \/ KillFails \/ Cancel \/ Drain
  BY <1>2, TypeFrames DEF ReadStop, StopReader, Disconnect, Killed, KillFails, Cancel, Drain
<1>3. CASE ContextEnds
  BY <1>3 DEF ContextEnds, RunnerType
<1>4. CASE StartTurn \/ NotConnected
  <2>1. turn + 1 \in Turns /\ turn + 1 \in 0 .. MaxTurns
    BY <1>4, TurnAssumption DEF StartTurn, NotConnected, RunnerType, Turns
  <2>2. CASE StartTurn
    <3>1. ctxDone' \in BOOLEAN
      BY <2>2 DEF StartTurn
    <3> QED BY <2>1, <2>2, <3>1 DEF StartTurn, At, RunnerType, PCs
  <2>3. CASE NotConnected
    BY <2>1, <2>3 DEF NotConnected, At, RunnerType, Results
  <2> QED BY <1>4, <2>2, <2>3
<1>5. ASSUME NEW r \in Results, pc # "idle", Returns(r) PROVE RunnerType'
  <2>1. result' \in [Turns -> Results]
    BY <1>5, ReturnResult DEF RunnerType
  <2>2. batch' \in Seq(Lines) /\ collected' \in Seq(Lines)
    BY <1>5 DEF Returns, LocalsEnd
  <2>3. pc' \in PCs /\ pc' = "idle" /\ start' \in Nat /\ ctxDone' \in BOOLEAN /\ found' \in BOOLEAN
    BY <1>5 DEF Returns, LocalsEnd, PCs
  <2>4. UNCHANGED <<turn, offset, sent, entered>>
    BY <1>5 DEF Returns
  <2> QED BY <2>1, <2>2, <2>3, <2>4 DEF RunnerType
<1>6. CASE WriteFails \/ TmuxFails \/ TranscriptNotFound \/ ReadFails \/ Completes \/ GiveUp
  BY <1>5, <1>6 DEF WriteFails, TmuxFails, TranscriptNotFound, ReadFails, Completes, GiveUp,
                    Results, At
<1>7. Size \in Nat
  BY DEF Size, OutsideType
<1>8. CASE WaitReady \/ Locate \/ TurnStartOffset \/ Drained \/ WriteCurrentTurn
  <2>1. CASE Locate
    <3>1. found' \in BOOLEAN
      BY <2>1 DEF Locate
    <3> QED BY <2>1, <3>1 DEF Locate, Moves, At, RunnerType, PCs
  <2>2. CASE WaitReady \/ Drained \/ WriteCurrentTurn
    BY <2>2 DEF WaitReady, Drained, WriteCurrentTurn, Moves, At, RunnerType, PCs
  <2>3. CASE TurnStartOffset
    <3>1. start' \in Nat
      BY <1>7, <2>3 DEF TurnStartOffset, RunnerType
    <3> QED BY <2>3, <3>1 DEF TurnStartOffset, Moves, At, RunnerType, PCs
  <2> QED BY <1>8, <2>1, <2>2, <2>3
<1>9. CASE PastePrompt \/ PasteReturns \/ Enter \/ EnterReturns
  BY <1>9 DEF PastePrompt, PasteReturns, Enter, EnterReturns, Moves, At, RunnerType, PCs
<1>10. CASE PeekPayload \/ PeekTimesOut \/ FindTranscript \/ NotYet \/ SelectPayload
            \/ SelectTimesOut
  BY <1>10 DEF PeekPayload, PeekTimesOut, FindTranscript, NotYet, SelectPayload,
               SelectTimesOut, Moves, At, RunnerType, PCs
<1>11. CASE ReadNewEvents
  <2>1. batch' \in Seq(Lines)
    <3> DEFINE from == IF start > offset THEN start ELSE offset
               first == 1 + (from + 1) \div 2
    <3>1. first \in Nat /\ first >= 1
      BY DEF RunnerType
    <3>2. batch' = SubSeq(file, first, Len(file))
      BY <1>11 DEF ReadNewEvents
    <3> HIDE DEF first
    <3> QED BY <3>1, <3>2 DEF OutsideType
  <2>2. offset' \in Nat
    BY <1>11 DEF ReadNewEvents, OutsideType
  <2> QED BY <1>11, <2>1, <2>2 DEF ReadNewEvents, Moves, At, RunnerType, PCs
<1>12. CASE Emit
  <2>1. turn \in Turns /\ Head(batch) \in Lines /\ batch' \in Seq(Lines)
    BY <1>12 DEF Emit, At, RunnerType
  <2>2. sent' \in [Turns -> Seq(Lines)]
    BY <1>12, <2>1 DEF Emit, RunnerType
  <2>3. collected' \in Seq(Lines)
    BY <1>12, <2>1 DEF Emit, RunnerType
  <2> QED BY <1>12, <2>1, <2>2, <2>3 DEF Emit, RunnerType
<1> QED
  BY <1>1, <1>2, <1>3, <1>4, <1>6, <1>8, <1>9, <1>10, <1>11, <1>12
     DEF Next, RunTurn

\* The types hold at first.
LEMMA InitType == Init => TypeInv
<1> SUFFICES ASSUME Init PROVE TypeInv
  OBVIOUS
<1>1. sent \in [Turns -> Seq(Lines)] /\ result \in [Turns -> Results]
  BY DEF Init, Results
<1>2. batch \in Seq(Lines) /\ collected \in Seq(Lines)
  BY DEF Init
<1>3. pipe \in Seq(Turns \cup {None}) /\ payloads \in Seq(Turns \cup {None})
  BY DEF Init
<1>4. turn \in 0 .. MaxTurns /\ Len(payloads) <= PayloadCap
  BY TurnAssumption DEF Init
<1>5. RunnerType
  BY <1>1, <1>2, <1>4 DEF Init, RunnerType, PCs
<1>6. StoppingType
  BY <1>3, <1>4 DEF Init, StoppingType
<1>7. input \in Seq(Turns) /\ file \in Seq(Lines)
  BY DEF Init
<1>8. OutsideType
  BY <1>7 DEF Init, OutsideType
<1> QED BY <1>5, <1>6, <1>8 DEF TypeInv

\* So does a step.
LEMMA TypeStep == TypeInv /\ [Next]_vars => TypeInv'
<1>1. TypeInv /\ Next => TypeInv'
  BY RunnerStep, StoppingStep, OutsideStep DEF TypeInv
<1>2. TypeInv /\ UNCHANGED vars => TypeInv'
  BY TypeFrames DEF TypeInv, vars
<1> QED BY <1>1, <1>2

\* Every variable keeps its type, and the stopReader's channel its capacity.
THEOREM TypeCorrect == Spec => []TypeOK
  BY InitType, TypeStep, TypeParts, PTL DEF Spec

-----------------------------------------------------------------------------
\* The lines a turn may read are its own: between the prompt sign and Enter no
\* line is begun, the offset of the turn lies behind what is there, or inside the
\* line that is half written, and the message that Enter starts has the turn's
\* prompt in it, if there is one.
BeforeEnter == {"locate", "offset", "drain", "write", "paste", "pasting", "enter"}
Submitted == {"entering", "peek", "discover", "poll", "emit", "select"}

FileInv ==
    /\ offset <= 2 * Len(file)
    /\ pc = "offset" => found \/ (file = <<>> /\ partial = None)
    /\ pc \in BeforeEnter => message = None
    /\ pc \in {"pasting", "enter"} => input = <<>> \/ \E k \in DOMAIN input : input[k] = turn
    /\ pc \in Submitted /\ message # None => turn \in message.of
    /\ pc \notin {"idle", "ready", "locate", "offset"} =>
           /\ \A k \in DOMAIN file : LineAt(k) >= start => turn \in file[k].of
           /\ partial # None /\ 2 * Len(file) >= start => turn \in partial.of

\* FileInv holds at first.
LEMMA InitFile == Init => FileInv
  BY DEF Init, FileInv, BeforeEnter, Submitted

\* The interrupt and the end of the message leave FileInv as it is.
LEMMA FileFrames ==
    ASSUME TypeInv, FileInv, UNCHANGED <<pc, turn, found, start, offset, file, partial>>,
           \/ UNCHANGED <<input, message>>
           \/ Interrupted
           \/ message' = None /\ input' \in {input, <<>>}
    PROVE  FileInv'
<1>1. input' \in {input, <<>>}
  BY DEF Interrupted
<1>2. message' = None \/ (message # None /\ message'.of = message.of)
  BY DEF Interrupted, TypeInv, OutsideType, Messages
<1> QED BY <1>1, <1>2 DEF FileInv

\* Every step keeps FileInv.
LEMMA FileStep == ASSUME TypeInv, FileInv, Next PROVE FileInv'
<1>1. CASE StopHook \/ HooksCollide \/ EndMessage
  BY <1>1, FileFrames DEF StopHook, HooksCollide, EndMessage, runner
<1>2. CASE \E kind \in Kinds : WriteLine(kind)
  <2>1. message # None /\ partial'.of = message.of /\ UNCHANGED <<runner, file, input, message>>
    BY <1>2 DEF WriteLine
  <2>2. pc \notin BeforeEnter
    BY <2>1 DEF FileInv
  <2>3. pc \notin {"idle", "ready"} => pc \in Submitted
    BY <2>2 DEF TypeInv, RunnerType, PCs, BeforeEnter, Submitted
  <2>4. pc \notin {"idle", "ready"} => turn \in partial'.of
    BY <2>1, <2>3 DEF FileInv
  <2> QED BY <2>1, <2>2, <2>4 DEF FileInv, runner, BeforeEnter
<1>16. CASE CompleteLine
  <2>1. partial \in Lines /\ partial # None /\ file \in Seq(Lines) /\ offset \in Nat
    BY <1>16 DEF CompleteLine, TypeInv, RunnerType, OutsideType
  <2>2. file' = Append(file, partial) /\ partial' = None /\ UNCHANGED runner /\ UNCHANGED input
    BY <1>16 DEF CompleteLine
  <2>3. (message = None => message' = None) /\ (message # None => message'.of = message.of)
    <3>1. message # None => [message EXCEPT !.phase = "tail"].of = message.of
      BY DEF TypeInv, OutsideType, Messages
    <3> QED BY <1>16, <3>1 DEF CompleteLine
  <2>4. Len(file') = Len(file) + 1 /\ DOMAIN file' = 1 .. Len(file) + 1
    BY <2>1, <2>2
  <2>5. offset' <= 2 * Len(file')
    BY <2>1, <2>2, <2>4 DEF FileInv, runner
  <2>6. pc # "offset" \/ found
    BY <2>1 DEF FileInv
  <2>7. ASSUME pc \notin {"idle", "ready", "locate", "offset"}, NEW k \in DOMAIN file',
               LineAt(k) >= start
        PROVE  turn \in file'[k].of
    <3>1. CASE k = Len(file) + 1
      <4>1. file'[k] = partial /\ LineAt(k) = 2 * Len(file)
        BY <2>1, <2>2, <3>1 DEF LineAt
      <4> QED BY <2>1, <2>7, <4>1 DEF FileInv
    <3>2. CASE k \in DOMAIN file
      BY <2>1, <2>2, <2>7, <3>2 DEF FileInv
    <3> QED BY <2>1, <2>4, <3>1, <3>2
  <2> QED
    BY <2>1, <2>2, <2>3, <2>5, <2>6, <2>7 DEF FileInv, runner, BeforeEnter, Submitted, LineAt
<1>3. CASE ReadStop \/ StopReader \/ Disconnect \/ Killed \/ KillFails \/ Cancel \/ Drain
           \/ ContextEnds
  BY <1>3, FileFrames DEF ReadStop, StopReader, Disconnect, Killed, KillFails, Cancel, Drain,
                          ContextEnds, runner, claude
<1>4. CASE StartTurn \/ NotConnected
  BY <1>4 DEF StartTurn, NotConnected, FileInv, claude, At, BeforeEnter, Submitted
<1>5. ASSUME NEW r \in Results, Returns(r) PROVE FileInv'
  BY <1>5 DEF Returns, FileInv, BeforeEnter, Submitted
<1>6. CASE WriteFails \/ TmuxFails \/ TranscriptNotFound \/ ReadFails \/ Completes \/ GiveUp
  BY <1>5, <1>6 DEF WriteFails, TmuxFails, TranscriptNotFound, ReadFails, Completes, GiveUp,
                    Results
<1>7. CASE WaitReady
  BY <1>7 DEF WaitReady, Moves, PaneReady, FileInv, BeforeEnter, Submitted
<1>8. CASE Locate
  <2>1. found' \/ (file = <<>> /\ partial = None)
    <3>1. file \in Seq(Lines) /\ Len(file) \in Nat
      BY DEF TypeInv, OutsideType
    <3>2. ~ (Size > 0) => Len(file) = 0 /\ partial = None
      BY <3>1 DEF Size
    <3>3. found' = (Size > 0)
      BY <1>8 DEF Locate
    <3>4. found' \/ ~ (Size > 0)
      BY <3>3, Zenon
    <3> QED BY <3>1, <3>2, <3>4
  <2> QED BY <1>8, <2>1 DEF Locate, Moves, At, FileInv, BeforeEnter, Submitted
<1>9. CASE TurnStartOffset
  <2>1. offset \in Nat /\ file \in Seq(Lines)
    BY DEF TypeInv, RunnerType, OutsideType
  <2>2. start' >= 2 * Len(file) /\ (partial # None => start' > 2 * Len(file))
    <3>1. CASE found
      BY <1>9, <2>1, <3>1 DEF TurnStartOffset, Size
    <3>2. CASE ~found
      BY <1>9, <2>1, <3>2 DEF TurnStartOffset, Moves, At, FileInv
    <3> QED BY <3>1, <3>2
  <2>3. \A k \in DOMAIN file : ~(LineAt(k) >= start')
    BY <1>9, <2>1, <2>2 DEF LineAt, TurnStartOffset, Size
  <2>4. partial # None => ~(2 * Len(file) >= start')
    <3>1. start' \in Nat
      BY <1>9, <2>1 DEF TurnStartOffset, Size
    <3> QED BY <2>1, <2>2, <3>1
  <2> QED
    BY <1>9, <2>3, <2>4 DEF TurnStartOffset, Moves, At, FileInv, BeforeEnter, Submitted, LineAt
<1>10. CASE Drained \/ WriteCurrentTurn \/ PasteReturns \/ EnterReturns
  BY <1>10 DEF Drained, WriteCurrentTurn, PasteReturns, EnterReturns, Moves, At, FileInv,
               BeforeEnter, Submitted
<1>11. CASE PastePrompt
  <2>1. input'[Len(input) + 1] = turn /\ Len(input) + 1 \in DOMAIN input'
    BY <1>11 DEF PastePrompt, Moves, At, TypeInv, RunnerType, OutsideType
  <2> QED BY <1>11, <2>1 DEF PastePrompt, Moves, At, FileInv, BeforeEnter, Submitted
<1>12. CASE Enter
  <2>1. message' # None => turn \in message'.of
    BY <1>12 DEF Enter, At, FileInv, BeforeEnter
  <2> QED BY <1>12, <2>1 DEF Enter, At, FileInv, BeforeEnter, Submitted
<1>13. CASE PeekPayload \/ PeekTimesOut \/ FindTranscript \/ NotYet
  BY <1>13 DEF PeekPayload, PeekTimesOut, FindTranscript, NotYet, Moves, At, FileInv,
               BeforeEnter, Submitted
<1>14. CASE SelectPayload \/ SelectTimesOut \/ Emit
  BY <1>14 DEF SelectPayload, SelectTimesOut, Emit, Moves, At, FileInv, BeforeEnter, Submitted,
               claude
<1>15. CASE ReadNewEvents
  BY <1>15 DEF ReadNewEvents, Moves, At, FileInv, BeforeEnter, Submitted, TypeInv, OutsideType
<1> QED
  BY <1>1, <1>2, <1>3, <1>4, <1>6, <1>7, <1>8, <1>9, <1>10, <1>11, <1>12, <1>13, <1>14,
     <1>15, <1>16 DEF Next, Claude, RunTurn

\* What is read, sent and collected in a turn is of the turn, and what is
\* collected was sent; a turn that returned has left nothing of it.
EventsInv ==
    /\ pc \in {"idle", "ready"} \cup BeforeEnter => batch = <<>> /\ collected = <<>>
    /\ \A k \in DOMAIN batch : turn \in batch[k].of
    /\ \A k \in DOMAIN collected :
           /\ turn \in collected[k].of
           /\ \E j \in DOMAIN sent[turn] : sent[turn][j] = collected[k]
    /\ CompletedByOwnRecord

\* A step that leaves alone what EventsInv is about, but for where the turn is.
LEMMA EventsFrames ==
    ASSUME EventsInv, UNCHANGED <<turn, batch, collected, sent, result>>,
           pc' \in {"idle", "ready"} \cup BeforeEnter =>
               pc \in {"idle", "ready"} \cup BeforeEnter
    PROVE  EventsInv'
  BY DEF EventsInv, CompletedByOwnRecord, BeforeEnter

\* Emit moves one line of the batch to the stream.
LEMMA EmitEvents == ASSUME TypeInv, EventsInv, Emit PROVE EventsInv'
<1> DEFINE line == Head(batch)
<1>1. turn \in Turns /\ batch \in Seq(Lines) /\ batch # <<>> /\ pc = "emit" /\ pc' = "emit"
  BY DEF Emit, At, TypeInv, RunnerType
<1>2. line \in Lines /\ turn \in line.of
  BY <1>1 DEF EventsInv
<1>3. \A k \in DOMAIN batch' : turn \in batch'[k].of
  BY <1>1 DEF Emit, EventsInv
<1>4. sent \in [Turns -> Seq(Lines)] /\ sent' = [sent EXCEPT ![turn] = Append(@, line)]
  BY DEF Emit, TypeInv, RunnerType
<1>5. /\ Len(sent[turn]) + 1 \in DOMAIN sent'[turn]
      /\ sent'[turn][Len(sent[turn]) + 1] = line
  BY <1>1, <1>2, <1>4
<1>6. ASSUME NEW t \in Turns, NEW j \in DOMAIN sent[t]
      PROVE  j \in DOMAIN sent'[t] /\ sent'[t][j] = sent[t][j]
  BY <1>1, <1>2, <1>4
<1>7. ASSUME NEW k \in DOMAIN collected'
      PROVE  turn \in collected'[k].of /\ \E j \in DOMAIN sent'[turn] : sent'[turn][j] = collected'[k]
  <2>1. collected \in Seq(Lines)
    BY DEF TypeInv, RunnerType
  <2>2. CASE k \in DOMAIN collected /\ collected'[k] = collected[k]
    BY <1>1, <1>6, <2>2 DEF EventsInv
  <2>3. CASE collected'[k] = line
    BY <1>2, <1>5, <2>3
  <2> QED BY <1>2, <2>1, <2>2, <2>3 DEF Emit
<1>8. CompletedByOwnRecord'
  <2> SUFFICES ASSUME NEW t \in Turns, result[t] = "ok"
               PROVE  /\ sent'[t] # <<>>
                      /\ \E k \in DOMAIN sent'[t] :
                             sent'[t][k].kind = "final" /\ t \in sent'[t][k].of
    BY DEF Emit, CompletedByOwnRecord
  <2>1. PICK k \in DOMAIN sent[t] : sent[t][k].kind = "final" /\ t \in sent[t][k].of
    BY DEF EventsInv, CompletedByOwnRecord
  <2>2. k \in DOMAIN sent'[t] /\ sent'[t][k] = sent[t][k]
    BY <1>6
  <2>3. sent'[t] # <<>>
    BY <2>2
  <2> QED BY <2>1, <2>2, <2>3
<1>9. turn' = turn
  BY DEF Emit
<1> QED BY <1>1, <1>3, <1>7, <1>8, <1>9 DEF EventsInv, BeforeEnter

\* ReadNewEvents reads from the turn's offset on.
LEMMA ReadEvents == ASSUME TypeInv, FileInv, EventsInv, ReadNewEvents PROVE EventsInv'
<1> DEFINE from == IF start > offset THEN start ELSE offset
           first == 1 + (from + 1) \div 2
<1>1. file \in Seq(Lines) /\ start \in Nat /\ offset \in Nat
  BY DEF TypeInv, RunnerType, OutsideType
<1>2. first \in Nat /\ first >= 1 /\ 2 * (first - 1) >= start
  BY <1>1
<1>3. batch' = SubSeq(file, first, Len(file))
  BY DEF ReadNewEvents
<1>4. ASSUME NEW k \in DOMAIN file, k >= first PROVE turn \in file[k].of
  <2>1. LineAt(k) >= start
    BY <1>1, <1>2, <1>4 DEF LineAt
  <2> QED BY <2>1 DEF FileInv, ReadNewEvents, Moves, At
<1> HIDE DEF first
<1>5. ASSUME NEW k \in DOMAIN batch'
      PROVE  first + k - 1 \in DOMAIN file /\ first + k - 1 >= first /\ batch'[k] = file[first + k - 1]
  BY <1>1, <1>2, <1>3, <1>5
<1>6. \A k \in DOMAIN batch' : turn \in batch'[k].of
  BY <1>4, <1>5
<1> QED
  BY <1>6 DEF ReadNewEvents, Moves, At, EventsInv, CompletedByOwnRecord, BeforeEnter

\* A turn that returns leaves no events behind, and one that completes did so on
\* the last message it collected.
LEMMA ReturnEvents ==
    ASSUME TypeInv, EventsInv, pc # "idle", NEW r \in Results, Returns(r),
           r = "ok" => HasTerminalAssistant
    PROVE  EventsInv'
<1>1. turn \in Turns /\ result \in [Turns -> Results] /\ collected \in Seq(Lines)
  BY DEF TypeInv, RunnerType
<1>2. batch' = <<>> /\ collected' = <<>> /\ sent' = sent
  BY DEF Returns, LocalsEnd
<1>5. PICK s \in Results : result' = [result EXCEPT ![turn] = s] /\ (s = "ok" <=> r = "ok")
  BY ReturnResult
<1>3. ASSUME r = "ok"
      PROVE  \E k \in DOMAIN sent[turn] : sent[turn][k].kind = "final" /\ turn \in sent[turn][k].of
  <2>1. Len(collected) \in DOMAIN collected /\ collected[Len(collected)].kind = "final"
    BY <1>1, <1>3 DEF HasTerminalAssistant, Last
  <2> QED BY <2>1 DEF EventsInv
<1>4. CompletedByOwnRecord'
  BY <1>1, <1>2, <1>3, <1>5 DEF EventsInv, CompletedByOwnRecord
<1> QED BY <1>2, <1>4 DEF EventsInv

\* Every step keeps EventsInv.
LEMMA EventsStep == ASSUME TypeInv, FileInv, EventsInv, Next PROVE EventsInv'
<1>1. CASE Claude
  BY <1>1, EventsFrames DEF Claude, WriteLine, CompleteLine, EndMessage, StopHook, HooksCollide,
                            runner
<1>2. CASE ReadStop \/ StopReader \/ Disconnect \/ Killed \/ KillFails \/ Cancel \/ Drain
           \/ ContextEnds
  BY <1>2, EventsFrames DEF ReadStop, StopReader, Disconnect, Killed, KillFails, Cancel, Drain,
                            ContextEnds, runner
<1>3. CASE StartTurn
  BY <1>3 DEF StartTurn, At, EventsInv, CompletedByOwnRecord
<1>4. CASE NotConnected
  BY <1>4 DEF NotConnected, At, EventsInv, CompletedByOwnRecord, TypeInv, RunnerType
<1>5. CASE WriteFails \/ TmuxFails \/ TranscriptNotFound \/ ReadFails \/ GiveUp
  BY <1>5, ReturnEvents DEF WriteFails, TmuxFails, TranscriptNotFound, ReadFails, GiveUp,
                            Results, At
<1>6. CASE Completes
  BY <1>6, ReturnEvents DEF Completes, Results, At
<1>7. CASE WaitReady \/ Locate \/ TurnStartOffset \/ Drained \/ WriteCurrentTurn \/ PastePrompt
           \/ PasteReturns \/ Enter
  BY <1>7, EventsFrames DEF WaitReady, Locate, TurnStartOffset, Drained, WriteCurrentTurn,
                            PastePrompt, PasteReturns, Enter, Moves, At, BeforeEnter
<1>8. CASE EnterReturns \/ PeekPayload \/ PeekTimesOut \/ FindTranscript \/ NotYet
           \/ SelectPayload \/ SelectTimesOut
  BY <1>8, EventsFrames DEF EnterReturns, PeekPayload, PeekTimesOut, FindTranscript, NotYet,
                            SelectPayload, SelectTimesOut, Moves, At, BeforeEnter
<1> QED
  BY <1>1, <1>2, <1>3, <1>4, <1>5, <1>6, <1>7, <1>8, ReadEvents, EmitEvents DEF Next, RunTurn

\* A turn succeeds only on a terminal record that was sent to its own stream and
\* was written for its own prompt.
THEOREM OwnRecordCompletes == Spec => []CompletedByOwnRecord
<1> DEFINE Inv == TypeInv /\ FileInv /\ EventsInv
<1>1. Init => Inv
  <2> SUFFICES ASSUME Init PROVE EventsInv
    BY InitType, InitFile
  <2>1. \A t \in Turns : result[t] # "ok"
    BY DEF Init
  <2> QED BY <2>1 DEF Init, EventsInv, CompletedByOwnRecord
<1>2. Inv /\ [Next]_vars => Inv'
  <2>1. Inv /\ Next => FileInv' /\ EventsInv'
    BY FileStep, EventsStep
  <2>2. Inv /\ UNCHANGED vars => FileInv' /\ EventsInv'
    BY FileFrames, EventsFrames DEF vars, runner, claude
  <2> QED BY <2>1, <2>2, TypeStep
<1>3. Inv => CompletedByOwnRecord
  BY DEF EventsInv
<1> QED BY <1>1, <1>2, <1>3, PTL DEF Spec

-----------------------------------------------------------------------------
\* What waits in the input box was not submitted before: a prompt that got as
\* far as Enter and was given up cannot be what Claude takes up later.
Unsubmitted == {"ready", "locate", "offset", "drain", "write", "paste"}

InputInv ==
    /\ \A k \in DOMAIN input :
           /\ input[k] \notin entered
           /\ input[k] <= turn
           /\ pc \notin {"idle", "pasting", "enter"} => input[k] < turn
    /\ \A t \in entered :
           /\ t <= turn
           /\ pc \in Unsubmitted \cup {"pasting", "enter", "entering"} => t < turn
    /\ \A t \in Turns : result[t] # "none" =>
           /\ t <= turn
           /\ pc # "idle" => t < turn
    /\ GivenUpIsInterrupted

\* A step that at most interrupts Claude or ends what it works on.
LEMMA InputFrames ==
    ASSUME TypeInv, InputInv, UNCHANGED <<pc, turn, result, entered>>,
           \/ UNCHANGED <<input, message>>
           \/ Interrupted
           \/ message' = None /\ input' \in {input, <<>>}
    PROVE  InputInv'
<1>1. input' \in {input, <<>>}
  BY DEF Interrupted
<1>2. \/ message' \in {message, None}
      \/ message' # None /\ message'.phase = "stop"
  BY DEF Interrupted, TypeInv, OutsideType, Messages
<1> QED BY <1>1, <1>2 DEF InputInv, GivenUpIsInterrupted

\* A step of runTurn that leaves the input box and Claude alone.
LEMMA InputMoves ==
    ASSUME InputInv, UNCHANGED <<turn, result, entered, input, message>>, pc # "idle",
           pc' \in {"pasting", "enter"} => pc \in {"pasting", "enter"},
           pc \in {"pasting", "enter"} => pc' \in {"pasting", "enter"},
           pc' \in Unsubmitted \cup {"pasting", "enter", "entering"} =>
               pc \in Unsubmitted \cup {"pasting", "enter", "entering"}
    PROVE  InputInv'
  BY DEF InputInv, GivenUpIsInterrupted

\* A turn that returns: it leaves Claude to work on only if its prompt was not
\* sent, or it did not give up.
LEMMA InputReturns ==
    ASSUME TypeInv, InputInv, pc # "idle", NEW r \in Results, Returns(r),
           r = "gaveup" => ctxDone
    PROVE  InputInv'
<1>1. PICK s \in Results :
         /\ result' = [result EXCEPT ![turn] = s]
         /\ s = "gaveup" => r = "gaveup" /\ (turn \in entered /\ ctxDone => Interrupted)
  BY ReturnResult
<1>9. turn \in Turns /\ result \in [Turns -> Results]
  BY DEF TypeInv, RunnerType
<1>2. UNCHANGED <<turn, entered>> /\ pc' = "idle"
  BY DEF Returns
<1>3. UNCHANGED <<input, message>> \/ Interrupted
  BY DEF Returns
<1>4. input' \in {input, <<>>}
  BY <1>3 DEF Interrupted
<1>5. \/ UNCHANGED message
      \/ message # None /\ message'.phase = "stop"
  BY <1>3 DEF Interrupted, TypeInv, OutsideType, Messages
<1>6. turn \in entered /\ s = "gaveup" /\ message' # None => message'.phase # "work"
  BY <1>1, <1>5 DEF Interrupted, TypeInv, OutsideType, Messages
<1>7. GivenUpIsInterrupted'
  BY <1>1, <1>2, <1>5, <1>6, <1>9 DEF InputInv, GivenUpIsInterrupted, TypeInv, RunnerType
<1>8. \A t \in Turns : result'[t] # "none" => t <= turn
  BY <1>1, <1>9 DEF InputInv, Turns
<1> QED BY <1>2, <1>4, <1>7, <1>8 DEF InputInv, Unsubmitted

\* Every step keeps InputInv.
LEMMA InputStep == ASSUME TypeInv, FileInv, InputInv, Next PROVE InputInv'
<1>1. CASE (\E kind \in Kinds : WriteLine(kind)) \/ StopHook \/ HooksCollide \/ EndMessage
  BY <1>1, InputFrames DEF WriteLine, StopHook, HooksCollide, EndMessage, runner
<1>2. CASE CompleteLine
  <2>1. \/ message' = message
        \/ message # None /\ message'.phase = "tail"
    BY <1>2 DEF CompleteLine, TypeInv, OutsideType, Messages
  <2> QED BY <1>2, <2>1 DEF CompleteLine, runner, InputInv, GivenUpIsInterrupted
<1>3. CASE ReadStop \/ StopReader \/ Disconnect \/ Killed \/ KillFails \/ Cancel \/ Drain
           \/ ContextEnds
  BY <1>3, InputFrames DEF ReadStop, StopReader, Disconnect, Killed, KillFails, Cancel, Drain,
                           ContextEnds, runner, claude
<1>4. CASE StartTurn \/ NotConnected
  <2>1. turn + 1 \in Turns /\ turn' = turn + 1 /\ UNCHANGED <<input, message, entered>>
    BY <1>4, TurnAssumption DEF StartTurn, NotConnected, claude, TypeInv, RunnerType, Turns
  <2>2. turn \in Nat /\ entered \subseteq Nat /\ Turns \subseteq Nat
        /\ \A k \in DOMAIN input : input[k] \in Nat
    <3>1. \A k \in DOMAIN input : input[k] \in Turns
      BY DEF TypeInv, OutsideType
    <3> QED BY <3>1 DEF TypeInv, RunnerType, Turns
  <2>3. result' \in {result, [result EXCEPT ![turn + 1] = "failed"]}
    BY <1>4, <2>1 DEF StartTurn, NotConnected
  <2>4. pc = "idle" /\ (result' = result \/ pc' = "idle")
    BY <1>4 DEF StartTurn, NotConnected, At
  <2>5. \A k \in DOMAIN input : input[k] \notin entered /\ input[k] < turn'
    BY <2>1, <2>2 DEF InputInv
  <2>6. \A t \in entered : t < turn'
    BY <2>1, <2>2 DEF InputInv
  <2>7. \A t \in Turns : result'[t] # "none" => t <= turn' /\ (pc' # "idle" => t < turn')
    BY <2>1, <2>2, <2>3, <2>4 DEF InputInv, TypeInv, RunnerType
  <2>8. \A t \in Turns : result'[t] = "gaveup" => result[t] = "gaveup"
    BY <2>1, <2>3 DEF TypeInv, RunnerType
  <2>9. GivenUpIsInterrupted'
    BY <2>1, <2>8 DEF InputInv, GivenUpIsInterrupted, TypeInv, RunnerType
  <2>10. \A t \in Nat : t < turn' => t <= turn'
    BY <2>1, <2>2
  <2> QED BY <2>1, <2>2, <2>5, <2>6, <2>7, <2>9, <2>10 DEF InputInv
<1>5. CASE WriteFails \/ TmuxFails \/ TranscriptNotFound \/ ReadFails \/ Completes \/ GiveUp
  BY <1>5, InputReturns DEF WriteFails, TmuxFails, TranscriptNotFound, ReadFails, Completes,
                            GiveUp, Results, At
<1>6. CASE WaitReady \/ Locate \/ TurnStartOffset \/ Drained \/ WriteCurrentTurn \/ PasteReturns
  BY <1>6, InputMoves DEF WaitReady, Locate, TurnStartOffset, Drained, WriteCurrentTurn,
                          PasteReturns, Moves, At, Unsubmitted
<1>7. CASE PeekPayload \/ PeekTimesOut \/ FindTranscript \/ ReadNewEvents \/ NotYet
           \/ SelectPayload \/ SelectTimesOut \/ Emit
  BY <1>7, InputMoves DEF PeekPayload, PeekTimesOut, FindTranscript, ReadNewEvents, NotYet,
                          SelectPayload, SelectTimesOut, Emit, Moves, At, Unsubmitted, claude
<1>8. CASE PastePrompt
  <2>1. turn \in Turns /\ turn \notin entered /\ input \in Seq(Turns)
    BY <1>8 DEF PastePrompt, Moves, At, TypeInv, RunnerType, OutsideType, InputInv, Unsubmitted,
                Turns
  <2>2. ASSUME NEW k \in DOMAIN input' PROVE input'[k] \notin entered /\ input'[k] <= turn
    <3>1. CASE k \in DOMAIN input
      BY <1>8, <2>1, <3>1 DEF PastePrompt, InputInv
    <3>2. CASE k = Len(input) + 1
      BY <1>8, <2>1, <3>2 DEF PastePrompt, Turns
    <3> QED BY <1>8, <2>1, <3>1, <3>2 DEF PastePrompt
  <2> QED
    BY <1>8, <2>2 DEF PastePrompt, Moves, At, InputInv, GivenUpIsInterrupted, Unsubmitted
<1>9. CASE Enter
  <2>1. ASSUME message' # None, NEW t \in entered, t \in message'.of PROVE FALSE
    BY <1>9, <2>1 DEF Enter, At, FileInv, BeforeEnter, InputInv
  <2>2. GivenUpIsInterrupted'
    BY <1>9, <2>1 DEF Enter, GivenUpIsInterrupted
  <2> QED BY <1>9, <2>2 DEF Enter, At, InputInv, Unsubmitted
<1>10. CASE EnterReturns
  <2>1. turn \in Turns /\ turn \in Nat /\ result[turn] = "none"
    BY <1>10 DEF EnterReturns, Moves, At, TypeInv, RunnerType, InputInv, Turns
  <2> QED
    BY <1>10, <2>1 DEF EnterReturns, Moves, At, InputInv, GivenUpIsInterrupted, Unsubmitted
<1> QED
  BY <1>1, <1>2, <1>3, <1>4, <1>5, <1>6, <1>7, <1>8, <1>9, <1>10
     DEF Next, Claude, RunTurn

\* A turn that sent its prompt and gave up leaves Claude interrupted, whatever
\* later turns, cancels and disconnects do.
THEOREM GivenUpInterrupted == Spec => []GivenUpIsInterrupted
<1> DEFINE Inv == TypeInv /\ FileInv /\ InputInv
<1>1. Init => Inv
  <2> SUFFICES ASSUME Init PROVE InputInv
    BY InitType, InitFile
  <2>1. \A t \in Turns : result[t] = "none"
    BY DEF Init
  <2> QED BY <2>1 DEF Init, InputInv, GivenUpIsInterrupted
<1>2. Inv /\ [Next]_vars => Inv'
  <2>1. Inv /\ Next => FileInv' /\ InputInv'
    BY FileStep, InputStep
  <2>2. Inv /\ UNCHANGED vars => FileInv' /\ InputInv'
    BY FileFrames, InputFrames DEF vars, runner, claude
  <2> QED BY <2>1, <2>2, TypeStep
<1>3. Inv => GivenUpIsInterrupted
  BY DEF InputInv
<1> QED BY <1>1, <1>2, <1>3, PTL DEF Spec
=============================================================================
