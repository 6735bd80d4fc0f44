------------------------- MODULE Conversation_proofs -------------------------
(***************************************************************************)
(* ClaudeTurn implements Conversation: the lines of a turn are those that  *)
(* Claude wrote for its prompt, each once, in order and from the first,    *)
(* for any number of turns and lines.                                      *)
(***************************************************************************)
EXTENDS ClaudeTurn_proofs, SequenceFacts

\* No prompt is anywhere before PastePrompt put it into the input box, and no
\* event of a turn is sent before its first read.
Early == {"ready"} \cup BeforeEnter
Unsent == Early \cup {"entering", "peek", "discover"}

FutureInv ==
    /\ partial # None => \A t \in partial.of : t <= turn /\ (pc \in Early => t < turn)
    /\ \A k \in DOMAIN file : \A t \in file[k].of : t <= turn /\ (pc \in Early => t < turn)
    /\ message # None => \A t \in message.of : t <= turn /\ (pc \in Early => t < turn)
    /\ \A t \in Turns : t > turn => sent[t] = <<>>

\* FutureInv holds at first.
LEMMA InitFuture == Init => FutureInv
  BY DEF Init, FutureInv, BeforeEnter

\* A step that leaves the file and the streams alone, and of the message at most
\* ends it or changes its phase.
LEMMA FutureFrames ==
    ASSUME FutureInv, UNCHANGED <<turn, file, partial, sent>>,
           message' = None \/ (message # None /\ message'.of = message.of),
           pc' \in Early => pc \in Early
    PROVE  FutureInv'
  BY DEF FutureInv

\* An interrupt leaves the prompts of the message as they are.
LEMMA InterruptOf ==
    ASSUME TypeInv, Interrupted
    PROVE  message' = None \/ (message # None /\ message'.of = message.of)
  BY DEF Interrupted, TypeInv, OutsideType, Messages

\* Every step keeps FutureInv.
LEMMA FutureStep == ASSUME TypeInv, FileInv, InputInv, FutureInv, Next PROVE FutureInv'
<1>1. CASE \E kind \in Kinds : WriteLine(kind)
  <2>1. message # None /\ partial'.of = message.of /\ UNCHANGED <<runner, file, message>>
    BY <1>1 DEF WriteLine
  <2> QED BY <2>1 DEF FutureInv, runner
<1>2. CASE CompleteLine
  <2>1. partial \in Lines /\ partial # None /\ file \in Seq(Lines)
    BY <1>2 DEF CompleteLine, TypeInv, OutsideType
  <2>2. file' = Append(file, partial) /\ UNCHANGED runner /\ partial' = None
    BY <1>2 DEF CompleteLine
  <2>3. message' = None \/ (message # None /\ message'.of = message.of)
    <3>1. message # None => [message EXCEPT !.phase = "tail"].of = message.of
      BY DEF TypeInv, OutsideType, Messages
    <3> QED BY <1>2, <3>1 DEF CompleteLine
  <2>4. ASSUME NEW k \in DOMAIN file', NEW t \in file'[k].of
        PROVE  t <= turn /\ (pc \in Early => t < turn)
    <3>1. CASE k \in DOMAIN file
      BY <2>1, <2>2, <2>4, <3>1 DEF FutureInv
    <3>2. CASE k = Len(file) + 1
      BY <2>1, <2>2, <2>4, <3>2 DEF FutureInv
    <3> QED BY <2>1, <2>2, <3>1, <3>2
  <2> QED BY <2>1, <2>2, <2>3, <2>4 DEF FutureInv, runner
<1>3. CASE EndMessage \/ StopHook \/ HooksCollide
  BY <1>3, FutureFrames DEF EndMessage, StopHook, HooksCollide, runner, FutureInv
<1>4. CASE ReadStop \/ StopReader \/ Disconnect \/ Drain \/ ContextEnds
  BY <1>4, FutureFrames DEF ReadStop, StopReader, Disconnect, Drain, ContextEnds, runner, claude,
                            FutureInv
<1>5. CASE Killed \/ KillFails \/ Cancel
  BY <1>5, FutureFrames, InterruptOf DEF Killed, KillFails, Cancel, runner, FutureInv
<1>6. CASE StartTurn \/ NotConnected
  <2>1. turn' = turn + 1 /\ UNCHANGED <<file, message, partial, sent>> /\ pc = "idle"
    BY <1>6 DEF StartTurn, NotConnected, claude, At
  <2>2. turn \in Nat /\ Turns \subseteq Nat
    BY DEF TypeInv, RunnerType, Turns
  <2>3. \A t \in Turns : t <= turn => t < turn'
    BY <2>1, <2>2
  <2>4. \A t \in Turns : (t < turn' => t <= turn') /\ (t > turn' => t > turn)
    BY <2>1, <2>2
  <2>5. ASSUME NEW k \in DOMAIN file PROVE file[k].of \subseteq Turns
    <3>1. file[k] \in Lines
      BY DEF TypeInv, OutsideType
    <3> QED BY <3>1 DEF Lines
  <2>6. (message # None => message.of \subseteq Turns) /\ (partial # None => partial.of \subseteq Turns)
    BY DEF TypeInv, OutsideType, Messages, Lines
  <2> QED BY <2>1, <2>3, <2>4, <2>5, <2>6 DEF FutureInv
<1>7. ASSUME NEW r \in Results, Returns(r) PROVE FutureInv'
  BY <1>7, FutureFrames, InterruptOf DEF Returns, FutureInv, BeforeEnter, Early
<1>8. CASE WriteFails \/ TmuxFails \/ TranscriptNotFound \/ ReadFails \/ Completes \/ GiveUp
  BY <1>7, <1>8 DEF WriteFails, TmuxFails, TranscriptNotFound, ReadFails, Completes, GiveUp,
                    Results
<1>9. CASE WaitReady \/ Locate \/ TurnStartOffset \/ Drained \/ WriteCurrentTurn \/ PastePrompt
           \/ PasteReturns
  BY <1>9, FutureFrames DEF WaitReady, Locate, TurnStartOffset, Drained, WriteCurrentTurn,
                            PastePrompt, PasteReturns, Moves, At, PaneReady, FutureInv,
                            BeforeEnter, Early
<1>10. CASE Enter
  <2>1. \A k \in DOMAIN input : input[k] <= turn
    BY DEF InputInv
  <2>2. message' # None => \A t \in message'.of : t <= turn
    BY <1>10, <2>1 DEF Enter, FutureInv
  <2> QED BY <1>10, <2>2 DEF Enter, FutureInv, BeforeEnter, Early
<1>11. CASE EnterReturns \/ PeekPayload \/ PeekTimesOut \/ FindTranscript \/ ReadNewEvents
            \/ NotYet \/ SelectPayload \/ SelectTimesOut
  BY <1>11, FutureFrames DEF EnterReturns, PeekPayload, PeekTimesOut, FindTranscript,
                             ReadNewEvents, NotYet, SelectPayload, SelectTimesOut, Moves, At,
                             BeforeEnter, Early
<1>12. CASE Emit
  <2>1. turn \in Turns /\ turn \in Nat /\ Turns \subseteq Nat /\ sent \in [Turns -> Seq(Lines)]
    BY <1>12 DEF Emit, At, TypeInv, RunnerType, Turns
  <2>2. \A t \in Turns : t > turn => sent'[t] = sent[t]
    BY <1>12, <2>1 DEF Emit
  <2> QED BY <1>12, <2>1, <2>2 DEF Emit, FutureInv, claude
<1> QED
  BY <1>1, <1>2, <1>3, <1>4, <1>5, <1>6, <1>8, <1>9, <1>10, <1>11, <1>12
     DEF Next, Claude, RunTurn

-----------------------------------------------------------------------------
\* The offset of the reader is where a line begins; the start of the turn may lie
\* inside the line that is half written.  First lines of the file, that one
\* included, were there before the turn, and Own are of the turn; Reached lines
\* were read by it or before it.
Streaming == {"drain", "write", "paste", "pasting", "enter"} \cup Submitted
First == (start + 1) \div 2
Own == IF First <= Len(file) THEN Len(file) - First ELSE 0
Reached == IF offset > start THEN offset \div 2 ELSE First

OffsetInv ==
    /\ offset = 2 * (offset \div 2)
    /\ pc # "emit" => batch = <<>>
    /\ pc \in Streaming =>
           \/ start <= 2 * Len(file)
           \/ start = 2 * Len(file) + 1 /\ partial # None /\ turn \notin partial.of
    /\ pc \in Unsent => sent[turn] = <<>>

\* What is in the file from First on is of the turn, nothing before it is, and
\* what was sent and what waits in the batch is what was read.
StreamInv ==
    pc \in Streaming =>
        /\ Len(Of(turn)) = Own
        /\ \A k \in 1 .. Own : Of(turn)[k] = file[First + k]
        /\ Len(sent[turn]) + Len(batch) = Reached - First
        /\ \A k \in DOMAIN sent[turn] : sent[turn][k] = file[First + k]
        /\ \A k \in DOMAIN batch : batch[k] = file[First + Len(sent[turn]) + k]

\* Half of what is even is a line.
LEMMA Halves ==
    /\ \A n \in Nat : (2 * n) \div 2 = n /\ (2 * n + 1) \div 2 = n /\ (2 * n + 2) \div 2 = n + 1
    /\ \A n \in Nat : n \div 2 \in Nat /\ (n + 1) \div 2 \in Nat
    /\ \A n \in Nat : n = 2 * ((n + 1) \div 2) \/ n = 2 * ((n + 1) \div 2) - 1
  OBVIOUS

\* The numbers that StreamInv counts with.
LEMMA Counts ==
    ASSUME TypeInv, FileInv, OffsetInv
    PROVE  /\ First \in Nat /\ Reached \in Nat /\ Own \in Nat /\ Len(file) \in Nat
           /\ First <= Reached /\ (pc \in Streaming => Reached - First <= Own)
           /\ \A k \in 1 .. Own : First + k \in 1 .. Len(file)
<1>1. start \in Nat /\ offset \in Nat /\ Len(file) \in Nat
  BY DEF TypeInv, RunnerType, OutsideType
<1>2. First \in Nat /\ offset \div 2 \in Nat
  BY <1>1, Halves DEF First
<1>3. (start = 2 * First \/ start = 2 * First - 1) /\ offset = 2 * (offset \div 2)
  BY <1>1, Halves DEF First, OffsetInv
<1>4. offset <= 2 * Len(file)
      /\ (pc \in Streaming => start <= 2 * Len(file) \/ start = 2 * Len(file) + 1)
  BY DEF OffsetInv, FileInv
<1> HIDE DEF First
<1>5. Own \in Nat /\ \A k \in 1 .. Own : First + k \in 1 .. Len(file)
  BY <1>1, <1>2 DEF Own
<1>6. CASE offset > start
  BY <1>1, <1>2, <1>3, <1>4, <1>5, <1>6 DEF Reached, Own
<1>7. CASE ~(offset > start)
  <2>1. Reached = First
    BY <1>7 DEF Reached
  <2> QED BY <1>1, <1>2, <1>5, <2>1
<1> QED BY <1>6, <1>7

\* OffsetInv holds at first.
LEMMA InitOffset == Init => OffsetInv
<1> SUFFICES ASSUME Init PROVE OffsetInv
  OBVIOUS
<1>1. start = 0 /\ offset = 0 /\ batch = <<>> /\ pc = "idle"
  BY DEF Init
<1> QED BY <1>1 DEF OffsetInv, First, Streaming, Submitted, Unsent, Early, BeforeEnter

\* A step that leaves alone what OffsetInv is about.
LEMMA OffsetFrames ==
    ASSUME OffsetInv, UNCHANGED <<turn, start, offset, batch, sent, file, partial>>,
           pc' = pc \/ batch = <<>>,
           pc' \in Streaming => pc \in Streaming,
           pc' \in Unsent => pc \in Unsent
    PROVE  OffsetInv'
  BY DEF OffsetInv

\* A turn starts at the end of the file, a half-written line included.
LEMMA StartAtEnd ==
    ASSUME TypeInv, FileInv, OffsetInv, TurnStartOffset
    PROVE  \/ start' = 2 * Len(file)
           \/ start' = 2 * Len(file) + 1 /\ partial # None
<1>1. offset \in Nat /\ Len(file) \in Nat
  BY DEF TypeInv, RunnerType, OutsideType
<1>2. CASE found
  BY <1>1, <1>2 DEF TurnStartOffset, Size
<1>3. CASE ~found
  <2>1. file = <<>> /\ offset = 0
    BY <1>1, <1>3 DEF FileInv, TurnStartOffset, Moves, At
  <2> QED BY <1>3, <2>1 DEF TurnStartOffset
<1> QED BY <1>2, <1>3

\* Every step keeps OffsetInv.
LEMMA OffsetStep ==
    ASSUME TypeInv, FileInv, FutureInv, OffsetInv, Next PROVE OffsetInv'
<1>1. Len(file) \in Nat /\ start \in Nat /\ offset \in Nat /\ file \in Seq(Lines)
  BY DEF TypeInv, RunnerType, OutsideType
<1>2. CASE CompleteLine
  <2>1. file' = Append(file, partial) /\ UNCHANGED runner
    BY <1>2 DEF CompleteLine
  <2>2. Len(file') = Len(file) + 1
    BY <1>1, <1>2, <2>1 DEF CompleteLine, TypeInv, OutsideType
  <2>3. pc' \in Streaming => start' <= 2 * Len(file')
    BY <1>1, <2>1, <2>2 DEF OffsetInv, runner
  <2> QED BY <2>1, <2>3 DEF OffsetInv, runner
<1>16. CASE \E kind \in Kinds : WriteLine(kind)
  BY <1>16 DEF WriteLine, runner, OffsetInv
<1>3. CASE EndMessage \/ StopHook \/ HooksCollide
  BY <1>1, <1>3, OffsetFrames DEF EndMessage, StopHook, HooksCollide, runner
<1>4. CASE ReadStop \/ StopReader \/ Disconnect \/ Drain \/ ContextEnds
  BY <1>1, <1>4, OffsetFrames DEF ReadStop, StopReader, Disconnect, Drain, ContextEnds, runner,
                                  claude
<1>5. CASE Killed \/ KillFails \/ Cancel
  BY <1>1, <1>5, OffsetFrames DEF Killed, KillFails, Cancel, runner
<1>6. CASE StartTurn
  <2>1. turn + 1 \in Turns /\ turn + 1 > turn
    BY <1>6, TurnAssumption DEF StartTurn, TypeInv, RunnerType, Turns
  <2>2. sent[turn + 1] = <<>>
    BY <2>1 DEF FutureInv
  <2> QED
    BY <1>6, <2>2 DEF StartTurn, At, claude, OffsetInv, Streaming, Submitted
<1>7. CASE NotConnected
  BY <1>7 DEF NotConnected, At, claude, OffsetInv, Streaming, Submitted, Unsent, Early,
              BeforeEnter
<1>8. ASSUME NEW r \in Results, Returns(r) PROVE OffsetInv'
  <2>1. offset' = offset /\ batch' = <<>> /\ pc' = "idle"
    BY <1>8 DEF Returns, LocalsEnd
  <2> QED BY <2>1 DEF OffsetInv, Streaming, Submitted, Unsent, Early, BeforeEnter
<1>9. CASE WriteFails \/ TmuxFails \/ TranscriptNotFound \/ ReadFails \/ Completes \/ GiveUp
  BY <1>8, <1>9 DEF WriteFails, TmuxFails, TranscriptNotFound, ReadFails, Completes, GiveUp,
                    Results
<1>10. CASE WaitReady \/ Locate \/ Drained \/ WriteCurrentTurn
  BY <1>1, <1>10, OffsetFrames DEF WaitReady, Locate, Drained, WriteCurrentTurn, Moves, At,
         OffsetInv, Streaming, Submitted, Unsent, Early, BeforeEnter
<1>11. CASE PastePrompt \/ PasteReturns \/ EnterReturns \/ PeekPayload \/ PeekTimesOut
            \/ FindTranscript
  BY <1>1, <1>11, OffsetFrames DEF PastePrompt, PasteReturns, EnterReturns, PeekPayload,
         PeekTimesOut, FindTranscript, Moves, At, OffsetInv, Streaming, Submitted, Unsent, Early,
         BeforeEnter
<1>12. CASE Enter \/ NotYet \/ SelectPayload \/ SelectTimesOut
  BY <1>1, <1>12, OffsetFrames DEF Enter, NotYet, SelectPayload, SelectTimesOut, Moves, At,
         OffsetInv, Streaming, Submitted, Unsent, Early, BeforeEnter
<1>13. CASE TurnStartOffset
  <2>1. /\ pc = "offset" /\ pc' = "drain" /\ UNCHANGED <<turn, offset, sent, file, partial>>
        /\ batch' = <<>> /\ offset = 2 * (offset \div 2)
    BY <1>13 DEF TurnStartOffset, Moves, At, OffsetInv
  <2>2. \/ start' = 2 * Len(file)
        \/ start' = 2 * Len(file) + 1 /\ partial # None
    BY <1>13, StartAtEnd
  <2>3. partial # None => turn \notin partial.of
    <3>1. turn \in Nat
      BY DEF TypeInv, RunnerType
    <3> QED BY <2>1, <3>1 DEF FutureInv, Early, BeforeEnter
  <2>4. sent[turn] = <<>>
    BY <2>1 DEF OffsetInv, Unsent, Early, BeforeEnter
  <2> QED BY <1>1, <2>1, <2>2, <2>3, <2>4 DEF OffsetInv
<1>14. CASE ReadNewEvents
  <2>1. offset' = 2 * Len(file) /\ pc' = "emit" /\ pc = "poll"
        /\ UNCHANGED <<turn, start, sent, file, partial>>
    BY <1>14 DEF ReadNewEvents, Moves, At
  <2>2. offset' = 2 * (offset' \div 2)
    BY <1>1, <2>1, Halves
  <2> QED
    BY <1>1, <2>1, <2>2 DEF OffsetInv, Streaming, Submitted, Unsent, Early, BeforeEnter
<1>15. CASE Emit
  BY <1>15 DEF Emit, At, claude, OffsetInv, Streaming, Submitted, Unsent, Early,
               BeforeEnter
<1> QED
  BY <1>2, <1>3, <1>4, <1>5, <1>6, <1>7, <1>9, <1>10, <1>11, <1>12, <1>13, <1>14, <1>15, <1>16
     DEF Next, Claude, RunTurn

\* The lines of a turn are a sequence of lines.
LEMMA OfType == ASSUME TypeInv, NEW t PROVE Of(t) \in Seq(Lines)
  BY AmongType DEF Of, TypeInv, OutsideType

\* The line Claude completes belongs to each prompt of its message, and to no
\* other turn.
LEMMA OfWrite ==
    ASSUME TypeInv, CompleteLine
    PROVE  /\ partial \in Lines /\ file' = Append(file, partial)
           /\ \A t \in Turns :
                  Of(t)' = IF t \in partial.of THEN Append(Of(t), partial) ELSE Of(t)
<1>1. partial \in Lines /\ file \in Seq(Lines) /\ file' = Append(file, partial)
  BY DEF CompleteLine, TypeInv, OutsideType
<1>2. ASSUME NEW t \in Turns
      PROVE  Of(t)' = IF t \in partial.of THEN Append(Of(t), partial) ELSE Of(t)
  <2>1. partial \in LinesOf[t] <=> t \in partial.of
    BY <1>1 DEF LinesOf
  <2>2. Among(Append(file, partial), LinesOf[t]) =
            IF partial \in LinesOf[t] THEN Append(Among(file, LinesOf[t]), partial)
            ELSE Among(file, LinesOf[t])
    BY <1>1, AmongAppend
  <2>3. Of(t)' = Among(file', LinesOf[t])
    BY DEF Of, LinesOf
  <2> QED BY <1>1, <2>1, <2>2, <2>3 DEF Of
<1> QED BY <1>1, <1>2

\* A step that leaves the turn, its offsets, its events and the file alone.
LEMMA StreamFrames ==
    ASSUME StreamInv, UNCHANGED <<turn, start, offset, batch, sent, file>>,
           pc' \in Streaming => pc \in Streaming
    PROVE  StreamInv'
<1>1. First' = First /\ Reached' = Reached /\ Own' = Own /\ \A t : Of(t)' = Of(t)
  BY DEF First, Reached, Own, Of, LinesOf
<1> QED BY <1>1 DEF StreamInv

\* A line that Claude completes is after all others of the turn, or it is the one
\* that was half written when the turn began and not of the turn.
LEMMA StreamWrite ==
    ASSUME TypeInv, FileInv, OffsetInv, StreamInv, CompleteLine PROVE StreamInv'
<1> SUFFICES ASSUME pc \in Streaming PROVE StreamInv'
  BY DEF StreamInv, CompleteLine, runner
<1>1. /\ file' = Append(file, partial) /\ partial \in Lines
      /\ \A t \in Turns : Of(t)' = IF t \in partial.of THEN Append(Of(t), partial) ELSE Of(t)
  BY OfWrite
<1>2. turn \in Turns /\ file \in Seq(Lines) /\ Of(turn) \in Seq(Lines) /\ start \in Nat
  BY OfType DEF TypeInv, RunnerType, OutsideType, Streaming, Submitted
<1>3. /\ turn' = turn /\ sent' = sent /\ batch' = batch /\ First' = First /\ Reached' = Reached
      /\ pc' = pc /\ partial # None
  BY DEF CompleteLine, runner, First, Reached
<1>4. Of(turn)' = IF turn \in partial.of THEN Append(Of(turn), partial) ELSE Of(turn)
  <2>1. PICK t \in Turns : t = turn
    BY <1>2
  <2>2. Of(t)' = IF t \in partial.of THEN Append(Of(t), partial) ELSE Of(t)
    BY <1>1
  <2> QED BY <1>3, <2>1, <2>2 DEF Of, LinesOf
<1>5. /\ First \in Nat /\ Reached \in Nat /\ Own \in Nat /\ Len(file) \in Nat
      /\ First <= Reached /\ Reached - First <= Own
      /\ \A k \in 1 .. Own : First + k \in 1 .. Len(file)
  BY Counts
<1>6. start = 2 * First \/ start = 2 * First - 1
  BY <1>2, Halves DEF First
<1>7. /\ Len(file') = Len(file) + 1 /\ file'[Len(file) + 1] = partial
      /\ \A k \in 1 .. Len(file) : file'[k] = file[k]
  BY <1>1, <1>2
<1>8. /\ Len(Of(turn)') = Own'
      /\ \A k \in 1 .. Own' : Of(turn)'[k] = file'[First + k]
  <2>1. CASE First <= Len(file)
    <3>1. turn \in partial.of
      <4>1. 2 * Len(file) >= start
        BY <1>2, <1>5, <1>6, <2>1
      <4> QED BY <1>3, <4>1 DEF FileInv, Streaming, Submitted
    <3>2. Own = Len(file) - First /\ Own' = Own + 1
      BY <1>3, <1>5, <1>7, <2>1 DEF Own
    <3>3. Len(Of(turn)) = Own /\ \A k \in 1 .. Own : Of(turn)[k] = file[First + k]
      BY DEF StreamInv
    <3>4. Len(Of(turn)') = Own + 1 /\ Of(turn)'[Own + 1] = partial
          /\ \A k \in 1 .. Own : Of(turn)'[k] = Of(turn)[k]
      <4> DEFINE more == Append(Of(turn), partial)
      <4>1. Len(more) = Own + 1 /\ more[Own + 1] = partial
            /\ \A k \in 1 .. Own : more[k] = Of(turn)[k]
        BY <1>1, <1>2, <1>5, <3>3
      <4> QED BY <1>4, <3>1, <4>1
    <3>5. ASSUME NEW k \in 1 .. Own + 1 PROVE Of(turn)'[k] = file'[First + k]
      <4>1. CASE k \in 1 .. Own
        BY <1>5, <1>7, <3>3, <3>4, <4>1
      <4>2. CASE k = Own + 1
        <5>1. First + k = Len(file) + 1
          BY <1>5, <3>2, <4>2
        <5> QED BY <1>7, <3>4, <4>2, <5>1
      <4> QED BY <1>5, <4>1, <4>2
    <3> QED BY <3>2, <3>4, <3>5
  <2>2. CASE ~(First <= Len(file))
    <3>1. start > 2 * Len(file)
      BY <1>2, <1>5, <1>6, <2>2
    <3>2. start = 2 * Len(file) + 1 /\ turn \notin partial.of
      BY <1>2, <1>5, <3>1 DEF OffsetInv
    <3>3. First = Len(file) + 1
      BY <1>5, <3>2, Halves DEF First
    <3>4. Own = 0 /\ Own' = 0
      BY <1>3, <1>5, <1>7, <3>3 DEF Own
    <3>5. Of(turn)' = Of(turn)
      BY <1>4, <3>2
    <3>6. Len(Of(turn)) = 0
      BY <3>4 DEF StreamInv
    <3> QED BY <3>4, <3>5, <3>6
  <2> QED BY <2>1, <2>2
<1>9. /\ sent[turn] \in Seq(Lines) /\ batch \in Seq(Lines)
      /\ Len(sent[turn]) + Len(batch) = Reached - First
      /\ Len(sent[turn]) \in Nat /\ Len(batch) \in Nat
  BY <1>2 DEF TypeInv, RunnerType, StreamInv
<1>10. ASSUME NEW k \in DOMAIN sent[turn] PROVE sent[turn][k] = file'[First + k]
  <2>1. k \in 1 .. Own /\ sent[turn][k] = file[First + k]
    BY <1>5, <1>9 DEF StreamInv
  <2> QED BY <1>5, <1>7, <2>1
<1>11. ASSUME NEW k \in DOMAIN batch PROVE batch[k] = file'[First + Len(sent[turn]) + k]
  <2>1. batch[k] = file[First + Len(sent[turn]) + k]
    BY DEF StreamInv
  <2>2. Len(sent[turn]) + k \in 1 .. Own
    BY <1>5, <1>9
  <2>3. First + (Len(sent[turn]) + k) \in 1 .. Len(file)
    BY <1>5, <2>2
  <2>4. First + Len(sent[turn]) + k = First + (Len(sent[turn]) + k)
    BY <1>5, <1>9
  <2> QED BY <1>7, <2>1, <2>3, <2>4
<1> QED BY <1>3, <1>8, <1>9, <1>10, <1>11 DEF StreamInv

\* When the offset of a turn is taken the file has no line of it.
LEMMA StreamStart ==
    ASSUME TypeInv, FileInv, FutureInv, OffsetInv, TurnStartOffset, OffsetInv' PROVE StreamInv'
<1>1. /\ file \in Seq(Lines) /\ turn \in Turns /\ offset \in Nat /\ turn \in Nat
      /\ UNCHANGED <<turn, offset, batch, sent, file>> /\ pc = "offset" /\ pc' = "drain"
  BY DEF TurnStartOffset, Moves, At, TypeInv, RunnerType, OutsideType, Turns
<1>2. Of(turn) = <<>>
  <2>1. ASSUME NEW k \in DOMAIN file PROVE file[k] \notin LinesOf[turn]
    <3>1. turn \notin file[k].of
      BY <1>1 DEF FutureInv, Early, BeforeEnter
    <3> QED BY <1>1, <3>1 DEF LinesOf
  <2> QED BY <1>1, <2>1, AmongNone DEF Of
<1>3. Of(turn)' = <<>>
  BY <1>1, <1>2 DEF Of, LinesOf
<1>4. batch = <<>> /\ sent[turn] = <<>>
  BY <1>1 DEF OffsetInv, Unsent, Early, BeforeEnter
<1>5. start' = 2 * Len(file) \/ start' = 2 * Len(file) + 1
  BY StartAtEnd
<1>6. Len(file) \in Nat /\ (First' = Len(file) \/ First' = Len(file) + 1)
  BY <1>1, <1>5, Halves DEF First
<1>7. Reached' = First'
  <2>1. ~(offset > start')
    BY <1>1, <1>5, <1>6 DEF FileInv
  <2> QED BY <1>1, <2>1 DEF Reached
<1>8. Own' = 0 /\ First' \in Nat
  BY <1>1, <1>6 DEF Own
<1>9. sent'[turn'] = <<>> /\ batch' = <<>>
  BY <1>1, <1>4
<1>10. Len(Of(turn)') = 0 /\ Len(sent'[turn']) = 0 /\ Len(batch') = 0
  BY <1>3, <1>9
<1>11. sent'[turn'] \in Seq(Lines) /\ batch' \in Seq(Lines)
  BY <1>9
<1>12. ~\E k : k \in DOMAIN sent'[turn']
  BY <1>10, <1>11
<1>13. ~\E k : k \in DOMAIN batch'
  BY <1>10, <1>11
<1>14. ~\E k : k \in 1 .. Own'
  BY <1>8
<1>15. Len(sent'[turn']) + Len(batch') = Reached' - First'
  <2> DEFINE a == Reached' b == First'
  <2>1. a - b = 0
    <3>1. a = b /\ b \in Nat
      BY <1>7, <1>8
    <3> HIDE DEF a, b
    <3> QED BY <3>1
  <2>2. Len(sent'[turn']) + Len(batch') = 0
    BY <1>10
  <2> QED BY <2>1, <2>2
<1> QED BY <1>8, <1>10, <1>12, <1>13, <1>14, <1>15 DEF StreamInv

\* A read takes up where the last one stopped.
LEMMA StreamRead ==
    ASSUME TypeInv, FileInv, OffsetInv, StreamInv, ReadNewEvents PROVE StreamInv'
<1>1. /\ file \in Seq(Lines) /\ start \in Nat /\ offset \in Nat /\ turn \in Turns
      /\ UNCHANGED <<turn, start, sent, file>> /\ pc = "poll" /\ pc' = "emit"
      /\ sent[turn] \in Seq(Lines) /\ Len(file) \in Nat
  BY DEF ReadNewEvents, Moves, At, TypeInv, RunnerType, OutsideType
<1>2. pc \in Streaming
  BY <1>1 DEF Streaming, Submitted
<1>3. /\ First \in Nat /\ Reached \in Nat /\ Own \in Nat /\ First <= Reached
      /\ Reached - First <= Own /\ \A k \in 1 .. Own : First + k \in 1 .. Len(file)
  BY <1>2, Counts
<1>4. /\ start = 2 * First \/ start = 2 * First - 1
      /\ offset = 2 * (offset \div 2) /\ offset \div 2 \in Nat /\ batch = <<>>
      /\ start <= 2 * Len(file) \/ start = 2 * Len(file) + 1
  BY <1>1, <1>2, Halves DEF OffsetInv, First
<1>5. batch' = SubSeq(file, 1 + Reached, Len(file))
  <2> DEFINE from == IF start > offset THEN start ELSE offset
  <2>1. (from + 1) \div 2 = Reached
    <3>1. CASE start > offset
      BY <1>1, <3>1 DEF Reached, First
    <3>2. CASE offset > start
      <4>1. (2 * (offset \div 2) + 1) \div 2 = offset \div 2
        BY <1>4, Halves
      <4> QED BY <1>1, <1>4, <3>2, <4>1 DEF Reached
    <3>3. CASE start = offset
      BY <1>1, <3>3 DEF Reached, First
    <3> QED BY <1>1, <3>1, <3>2, <3>3
  <2> HIDE DEF Reached
  <2> QED BY <2>1 DEF ReadNewEvents
<1>6. First' = First /\ Own' = Own /\ Of(turn)' = Of(turn)
  BY <1>1 DEF First, Own, Of, LinesOf
<1>7. Reached' = First + Own
  <2>1. offset' = 2 * Len(file) /\ offset' \div 2 = Len(file) /\ start' = start
    BY <1>1, Halves DEF ReadNewEvents
  <2>2. CASE First <= Len(file)
    <3>1. 2 * Len(file) > start \/ First = Len(file)
      BY <1>1, <1>3, <1>4, <2>2
    <3> QED BY <1>1, <1>3, <1>6, <2>1, <2>2, <3>1 DEF Reached, Own
  <2>3. CASE ~(First <= Len(file))
    <3>1. ~(2 * Len(file) > start)
      BY <1>1, <1>3, <1>4, <2>3
    <3> QED BY <1>1, <1>3, <1>6, <2>1, <2>3, <3>1 DEF Reached, Own
  <2> QED BY <2>2, <2>3
<1>8. Len(sent[turn]) = Reached - First
  BY <1>1, <1>2, <1>4 DEF StreamInv
<1>9. /\ Len(batch') = First + Own - Reached
      /\ \A k \in DOMAIN batch' : batch'[k] = file[Reached + k]
  <2>1. CASE First <= Len(file)
    <3>1. Own = Len(file) - First /\ 1 + Reached \in 1 .. Len(file) + 1
      BY <1>1, <1>3, <2>1 DEF Own
    <3> QED BY <1>1, <1>3, <1>5, <3>1
  <2>2. CASE ~(First <= Len(file))
    <3>1. Own = 0 /\ Reached = First
      BY <1>1, <1>3, <2>2 DEF Own
    <3> QED BY <1>1, <1>3, <1>5, <2>2, <3>1
  <2> QED BY <2>1, <2>2
<1>10. Len(sent[turn]) + Len(batch') = Reached' - First
  BY <1>1, <1>3, <1>7, <1>8, <1>9
<1>11. \A k \in DOMAIN batch' : batch'[k] = file[First + Len(sent[turn]) + k]
  <2>1. First + Len(sent[turn]) = Reached
    BY <1>3, <1>8
  <2> QED BY <1>9, <2>1
<1> QED BY <1>1, <1>2, <1>6, <1>10, <1>11 DEF StreamInv

\* Emit sends the oldest line of the batch.
LEMMA StreamEmit ==
    ASSUME TypeInv, FileInv, OffsetInv, StreamInv, Emit PROVE StreamInv'
<1> DEFINE line == Head(batch)
<1>1. /\ turn \in Turns /\ batch \in Seq(Lines) /\ batch # <<>> /\ sent \in [Turns -> Seq(Lines)]
      /\ sent[turn] \in Seq(Lines) /\ line \in Lines
      /\ UNCHANGED <<turn, start, offset, file>> /\ pc = "emit" /\ pc' = "emit"
      /\ batch' = Tail(batch) /\ sent' = [sent EXCEPT ![turn] = Append(@, line)]
  BY DEF Emit, At, claude, TypeInv, RunnerType
<1>2. pc \in Streaming
  BY <1>1 DEF Streaming, Submitted
<1>3. First \in Nat /\ Reached \in Nat
  BY Counts
<1>4. First' = First /\ Reached' = Reached /\ Own' = Own /\ Of(turn)' = Of(turn)
  BY <1>1 DEF First, Reached, Own, Of, LinesOf
<1>5. sent'[turn] = Append(sent[turn], line)
  BY <1>1
<1>6. Len(sent'[turn]) = Len(sent[turn]) + 1 /\ Len(batch') = Len(batch) - 1
  BY <1>1, <1>5
<1>7. line = file[First + Len(sent[turn]) + 1]
  <2>1. 1 \in DOMAIN batch /\ line = batch[1]
    BY <1>1
  <2> QED BY <1>2, <2>1 DEF StreamInv
<1>8. ASSUME NEW k \in DOMAIN sent'[turn] PROVE sent'[turn][k] = file[First + k]
  <2>1. CASE k \in DOMAIN sent[turn]
    BY <1>1, <1>2, <1>5, <2>1 DEF StreamInv
  <2>2. CASE k = Len(sent[turn]) + 1
    <3>1. First + k = First + Len(sent[turn]) + 1
      BY <1>1, <1>3, <2>2
    <3>2. sent'[turn][k] = line
      BY <1>1, <1>5, <2>2
    <3> QED BY <1>7, <3>1, <3>2
  <2> QED BY <1>1, <1>5, <2>1, <2>2
<1>9. ASSUME NEW k \in DOMAIN batch' PROVE batch'[k] = file[First + Len(sent'[turn]) + k]
  <2>1. k + 1 \in DOMAIN batch /\ batch'[k] = batch[k + 1]
    BY <1>1
  <2>2. First + Len(sent'[turn]) + k = First + Len(sent[turn]) + (k + 1)
    BY <1>1, <1>3, <1>6
  <2> QED BY <1>2, <2>1, <2>2 DEF StreamInv
<1>10. Len(sent'[turn]) + Len(batch') = Reached - First
  BY <1>1, <1>2, <1>6 DEF StreamInv
<1> QED BY <1>1, <1>2, <1>4, <1>8, <1>9, <1>10 DEF StreamInv

\* Every step keeps StreamInv.
LEMMA StreamStep ==
    ASSUME TypeInv, FileInv, FutureInv, OffsetInv, StreamInv, Next, OffsetInv' PROVE StreamInv'
<1>1. CASE CompleteLine
  BY <1>1, StreamWrite
<1>2. CASE TurnStartOffset
  BY <1>2, StreamStart
<1>3. CASE ReadNewEvents
  BY <1>3, StreamRead
<1>4. CASE Emit
  BY <1>4, StreamEmit
<1>5. CASE (\E kind \in Kinds : WriteLine(kind)) \/ EndMessage \/ StopHook \/ HooksCollide
  BY <1>5, StreamFrames DEF WriteLine, EndMessage, StopHook, HooksCollide, runner
<1>6. CASE ReadStop \/ StopReader \/ Disconnect \/ Drain \/ ContextEnds
  BY <1>6, StreamFrames DEF ReadStop, StopReader, Disconnect, Drain, ContextEnds, runner, claude
<1>7. CASE Killed \/ KillFails \/ Cancel
  BY <1>7, StreamFrames DEF Killed, KillFails, Cancel, runner
<1>8. CASE StartTurn \/ NotConnected
  BY <1>8 DEF StartTurn, NotConnected, At, StreamInv, Streaming, Submitted
<1>9. ASSUME NEW r \in Results, Returns(r) PROVE StreamInv'
  BY <1>9 DEF Returns, StreamInv, Streaming, Submitted
<1>10. CASE WriteFails \/ TmuxFails \/ TranscriptNotFound \/ ReadFails \/ Completes \/ GiveUp
  BY <1>9, <1>10 DEF WriteFails, TmuxFails, TranscriptNotFound, ReadFails, Completes, GiveUp,
                     Results
<1>11. CASE WaitReady \/ Locate
  BY <1>11 DEF WaitReady, Locate, Moves, StreamInv, Streaming, Submitted
<1>12. CASE Drained \/ WriteCurrentTurn \/ PastePrompt \/ PasteReturns \/ Enter \/ EnterReturns
  BY <1>12, StreamFrames DEF Drained, WriteCurrentTurn, PastePrompt, PasteReturns, Enter,
         EnterReturns, Moves, At, Streaming, Submitted
<1>13. CASE PeekPayload \/ PeekTimesOut \/ FindTranscript \/ NotYet \/ SelectPayload
            \/ SelectTimesOut
  BY <1>13, StreamFrames DEF PeekPayload, PeekTimesOut, FindTranscript, NotYet, SelectPayload,
         SelectTimesOut, Moves, At, Streaming, Submitted
<1> QED
  BY <1>1, <1>2, <1>3, <1>4, <1>5, <1>6, <1>7, <1>8, <1>10, <1>11, <1>12, <1>13
     DEF Next, Claude, RunTurn

\* What Emit sends goes on where the turn stopped, and lies in the file.
LEMMA EmitFaithful ==
    ASSUME TypeInv, FileInv, OffsetInv, StreamInv, StreamFaithful, Emit, StreamInv'
    PROVE  StreamFaithful'
<1>1. /\ turn \in Turns /\ batch \in Seq(Lines) /\ batch # <<>> /\ sent \in [Turns -> Seq(Lines)]
      /\ Head(batch) \in Lines /\ UNCHANGED <<turn, start, offset, file>>
      /\ pc = "emit" /\ pc' = "emit" /\ sent' = [sent EXCEPT ![turn] = Append(@, Head(batch))]
  BY DEF Emit, At, claude, TypeInv, RunnerType
<1>2. /\ First \in Nat /\ Reached \in Nat /\ Own \in Nat /\ Reached - First <= Own
      /\ pc \in Streaming /\ pc' \in Streaming
  BY <1>1, Counts DEF Streaming, Submitted
<1>3. \A t \in Turns : Of(t)' = Of(t) /\ Of(t) \in Seq(Lines)
  BY <1>1, OfType DEF Of, LinesOf
<1>4. First' = First
  BY <1>1 DEF First
<1> DEFINE now == sent'[turn]
<1>5. now \in Seq(Lines) /\ Len(now) = Len(sent[turn]) + 1
  BY <1>1
<1>6. Len(now) <= Len(Of(turn))
  <2>1. Len(sent[turn]) + Len(batch) = Reached - First /\ Len(Of(turn)) = Own
    BY <1>2 DEF StreamInv
  <2>2. Len(batch) \in Nat /\ Len(batch) >= 1 /\ Len(sent[turn]) \in Nat
    BY <1>1
  <2> HIDE DEF now
  <2> QED BY <1>2, <1>5, <2>1, <2>2
<1>7. \A k \in 1 .. Len(now) : now[k] = Of(turn)[k]
  <2>1. /\ \A k \in DOMAIN now : now[k] = file[First + k]
        /\ \A k \in 1 .. Own : Of(turn)[k] = file[First + k]
        /\ Len(Of(turn)) = Own
    BY <1>1, <1>2, <1>4 DEF StreamInv
  <2>2. First \in Nat /\ Own \in Nat /\ Len(now) \in Nat /\ DOMAIN now = 1 .. Len(now)
    BY <1>2, <1>5
  <2>3. ASSUME NEW k \in 1 .. Len(now) PROVE k \in 1 .. Own
    BY <1>6, <2>1, <2>2
  <2> HIDE DEF now
  <2> QED BY <2>1, <2>2, <2>3
<1>8. IsPrefix(now, Of(turn))
  <2> HIDE DEF now
  <2>1. Of(turn) \in Seq(Lines)
    BY <1>1, <1>3
  <2> QED BY <1>5, <1>6, <1>7, <2>1, PrefixElements
<1>9. ASSUME NEW t \in Turns PROVE IsPrefix(sent'[t], Of(t)')
  <2>1. CASE t = turn
    BY <1>1, <1>3, <1>8, <2>1
  <2>2. CASE t # turn
    <3>1. sent'[t] = sent[t] /\ Of(t)' = Of(t)
      BY <1>1, <1>3, <2>2
    <3> QED BY <3>1 DEF StreamFaithful
  <2> QED BY <2>1, <2>2
<1> QED BY <1>9 DEF StreamFaithful

\* A new line of a turn is after those that were sent.
LEMMA WriteFaithful ==
    ASSUME TypeInv, StreamFaithful, CompleteLine PROVE StreamFaithful'
<1>1. /\ partial \in Lines
      /\ \A t \in Turns : Of(t)' = IF t \in partial.of THEN Append(Of(t), partial) ELSE Of(t)
  BY OfWrite
<1>2. sent' = sent /\ sent \in [Turns -> Seq(Lines)]
  BY DEF CompleteLine, runner, TypeInv, RunnerType
<1>3. ASSUME NEW t \in Turns PROVE IsPrefix(sent[t], Of(t)')
  <2>1. sent[t] \in Seq(Lines) /\ Of(t) \in Seq(Lines) /\ IsPrefix(sent[t], Of(t))
    BY <1>2, OfType DEF StreamFaithful
  <2>2. CASE t \in partial.of
    <3> DEFINE more == Append(Of(t), partial)
    <3>1. Of(t)' = more /\ more \in Seq(Lines) /\ Len(more) = Len(Of(t)) + 1
          /\ \A k \in 1 .. Len(Of(t)) : more[k] = Of(t)[k]
      BY <1>1, <1>2, <2>1, <2>2
    <3>2. Len(sent[t]) <= Len(Of(t)) /\ \A k \in 1 .. Len(sent[t]) : sent[t][k] = Of(t)[k]
      BY <2>1, PrefixElements
    <3> HIDE DEF more
    <3>3. Len(sent[t]) <= Len(more) /\ \A k \in 1 .. Len(sent[t]) : sent[t][k] = more[k]
      BY <2>1, <3>1, <3>2
    <3>4. IsPrefix(sent[t], more)
      BY <2>1, <3>1, <3>3, PrefixElements
    <3> QED BY <3>1, <3>4
  <2>3. CASE t \notin partial.of
    BY <1>1, <2>1, <2>3
  <2> QED BY <2>2, <2>3
<1> QED BY <1>2, <1>3 DEF StreamFaithful

-----------------------------------------------------------------------------
\* The steps that the caller may notice: Claude writes a line, an event goes
\* out, the context ends, a turn begins, is refused or ends.
Ending == WriteFails \/ TmuxFails \/ TranscriptNotFound \/ ReadFails \/ Completes \/ GiveUp
Noticed == CompleteLine \/ Emit \/ ContextEnds \/ StartTurn \/ NotConnected \/ Ending

\* No other step touches what the caller sees, nor the text that was collected.
LEMMA Silent ==
    ASSUME TypeInv, Next, ~Noticed
    PROVE  UNCHANGED <<turn, ctxDone, file, sent, result, collected>> /\ (pc = "idle" <=> pc' = "idle")
<1>1. CASE Claude
  BY <1>1 DEF Noticed, Claude, WriteLine, EndMessage, StopHook, HooksCollide, runner
<1>2. CASE ReadStop \/ StopReader \/ Disconnect \/ Killed \/ KillFails \/ Cancel
  BY <1>2 DEF ReadStop, StopReader, Disconnect, Killed, KillFails, Cancel, runner, claude
<1>3. CASE WaitReady \/ Locate \/ TurnStartOffset \/ Drain \/ Drained \/ WriteCurrentTurn
  BY <1>3 DEF WaitReady, Locate, TurnStartOffset, Drain, Drained, WriteCurrentTurn, Moves, At,
              runner, claude
<1>4. CASE PastePrompt \/ PasteReturns \/ Enter \/ EnterReturns
  BY <1>4 DEF PastePrompt, PasteReturns, Enter, EnterReturns, Moves, At
<1>5. CASE PeekPayload \/ PeekTimesOut \/ FindTranscript \/ SelectPayload \/ SelectTimesOut
  BY <1>5 DEF PeekPayload, PeekTimesOut, FindTranscript, SelectPayload, SelectTimesOut, Moves, At
<1>6. CASE ReadNewEvents \/ NotYet
  BY <1>6 DEF ReadNewEvents, NotYet, Moves, At
<1> QED BY <1>1, <1>2, <1>3, <1>4, <1>5, <1>6 DEF Noticed, Ending, Next, RunTurn

\* A turn that ends returns a result that its events and its context justify.
LEMMA Ends ==
    ASSUME TypeInv, Ending
    PROVE  \E r \in {"ok", "gaveup", "failed", "oversize"} :
               /\ Returns(r) /\ pc # "idle"
               /\ r = "ok" => HasTerminalAssistant
               /\ r = "gaveup" => ctxDone
<1>1. CASE WriteFails \/ TmuxFails \/ TranscriptNotFound
  BY <1>1 DEF WriteFails, TmuxFails, TranscriptNotFound, At
<1>2. CASE ReadFails
  BY <1>2 DEF ReadFails, At
<1>3. CASE Completes
  BY <1>3 DEF Completes, At
<1>4. CASE GiveUp
  BY <1>4 DEF GiveUp
<1> QED BY <1>1, <1>2, <1>3, <1>4 DEF Ending

\* Only Claude writes to the file and only Emit sends.
LEMMA Quiet ==
    ASSUME TypeInv, Next, ~CompleteLine, ~Emit PROVE UNCHANGED <<file, sent>>
<1>1. CASE ContextEnds \/ StartTurn \/ NotConnected
  BY <1>1 DEF ContextEnds, StartTurn, NotConnected, claude
<1>2. CASE Ending
  BY <1>2, Ends DEF Returns
<1> QED BY <1>1, <1>2, Silent DEF Noticed

\* Together they are inductive.
StreamingInv == TypeInv /\ FileInv /\ InputInv /\ FutureInv /\ OffsetInv /\ StreamInv
                /\ StreamFaithful

\* They hold at first.
LEMMA InitStreaming == Init => StreamingInv
<1> SUFFICES ASSUME Init PROVE StreamingInv
  OBVIOUS
<1>1. InputInv
  <2>1. \A t \in Turns : result[t] = "none"
    BY DEF Init
  <2> QED BY <2>1 DEF Init, InputInv, GivenUpIsInterrupted
<1>2. StreamInv
  BY DEF Init, StreamInv, Streaming, Submitted
<1>3. ASSUME NEW t \in Turns PROVE IsPrefix(sent[t], Of(t))
  <2>1. sent[t] = <<>> /\ sent[t] \in Seq(Lines)
    BY DEF Init
  <2>2. Of(t) \in Seq(Lines)
    <3>1. TypeInv
      BY InitType
    <3> QED BY <3>1, OfType
  <2>3. Len(sent[t]) = 0
    BY <2>1
  <2>4. Len(sent[t]) <= Len(Of(t)) /\ \A k \in 1 .. Len(sent[t]) : sent[t][k] = Of(t)[k]
    BY <2>2, <2>3
  <2> QED BY <2>1, <2>2, <2>4, PrefixElements
<1> QED
  BY <1>1, <1>2, <1>3, InitType, InitFile, InitFuture, InitOffset
     DEF StreamingInv, StreamFaithful

\* Every step keeps them.
LEMMA StreamingStep == StreamingInv /\ [Next]_vars => StreamingInv'
<1> SUFFICES ASSUME StreamingInv, [Next]_vars PROVE StreamingInv'
  OBVIOUS
<1> USE DEF StreamingInv
<1>1. CASE Next
  <2>1. TypeInv' /\ FileInv' /\ InputInv' /\ FutureInv' /\ OffsetInv'
    BY <1>1, TypeStep, FileStep, InputStep, FutureStep, OffsetStep
  <2>2. StreamInv'
    BY <1>1, <2>1, StreamStep
  <2>3. StreamFaithful'
    <3>1. CASE CompleteLine
      BY <3>1, WriteFaithful
    <3>2. CASE Emit
      BY <2>2, <3>2, EmitFaithful
    <3>3. CASE ~CompleteLine /\ ~Emit
      <4>1. sent' = sent /\ \A t : Of(t)' = Of(t)
        BY <1>1, <3>3, Quiet DEF Of, LinesOf
      <4> QED BY <4>1 DEF StreamFaithful
    <3> QED BY <3>1, <3>2, <3>3
  <2> QED BY <2>1, <2>2, <2>3
<1>2. CASE UNCHANGED vars
  <2>1. TypeInv' /\ FileInv' /\ InputInv'
    BY <1>2, TypeStep, FileFrames, InputFrames DEF vars, runner, claude
  <2>2. FutureInv'
    BY <1>2 DEF FutureInv, vars, runner, claude
  <2>3. OffsetInv'
    BY <1>2 DEF OffsetInv, vars, runner, claude
  <2>4. \A t : Of(t)' = Of(t)
    BY <1>2 DEF Of, LinesOf, vars, claude
  <2>5. StreamInv' /\ StreamFaithful'
    BY <1>2, <2>3, <2>4, StreamFrames DEF StreamFaithful, vars, runner, claude
  <2> QED BY <2>1, <2>2, <2>3, <2>5
<1> QED BY <1>1, <1>2

\* The events of every turn are the complete lines Claude wrote for its prompt,
\* each once, in order and from the first, for any number of turns and lines.
THEOREM StreamsFaithful == Spec => []StreamFaithful
<1>1. StreamingInv => StreamFaithful
  BY DEF StreamingInv
<1> QED BY <1>1, InitStreaming, StreamingStep, PTL DEF Spec

-----------------------------------------------------------------------------
\* The last text among lines is line k.
LastText(lines, k) ==
    /\ k \in DOMAIN lines /\ lines[k].kind \in {"text", "final"}
    /\ \A j \in k + 1 .. Len(lines) : lines[j].kind \notin {"text", "final"}

\* The last message that was collected is the last text that was sent.
CollectInv ==
    collected # <<>> => \E k \in Nat : LastText(sent[turn], k) /\ sent[turn][k] = Last(collected)

\* Emit keeps CollectInv: it sends and collects in one step.
LEMMA CollectEmit == ASSUME TypeInv, CollectInv, Emit PROVE CollectInv'
<1> DEFINE line == Head(batch)
           now == sent'[turn]
<1>1. /\ turn \in Turns /\ batch \in Seq(Lines) /\ batch # <<>> /\ sent \in [Turns -> Seq(Lines)]
      /\ line \in Lines /\ turn' = turn /\ sent' = [sent EXCEPT ![turn] = Append(@, line)]
      /\ collected \in Seq(Lines) /\ sent[turn] \in Seq(Lines)
  BY DEF Emit, At, TypeInv, RunnerType
<1>5. collected' = IF line.kind \in {"text", "final"} THEN Append(collected, line) ELSE collected
  BY DEF Emit
<1> HIDE DEF line
<1>2. /\ now = Append(sent[turn], line) /\ Len(now) = Len(sent[turn]) + 1
      /\ now[Len(sent[turn]) + 1] = line /\ DOMAIN now = 1 .. Len(sent[turn]) + 1
      /\ \A k \in DOMAIN sent[turn] : now[k] = sent[turn][k]
      /\ DOMAIN sent[turn] = 1 .. Len(sent[turn]) /\ Len(sent[turn]) \in Nat
  BY <1>1
<1> HIDE DEF now
<1>3. CASE line.kind \in {"text", "final"}
  <2>1. LastText(now, Len(sent[turn]) + 1)
    BY <1>2, <1>3 DEF LastText
  <2>2. collected' # <<>> /\ Last(collected') = line
    BY <1>1, <1>3, <1>5 DEF Last
  <2>3. \E k \in Nat : LastText(now, k) /\ now[k] = Last(collected')
    BY <1>2, <2>1, <2>2
  <2> QED BY <1>1, <2>3 DEF CollectInv, now
<1>4. CASE line.kind \notin {"text", "final"}
  <2> SUFFICES ASSUME collected # <<>>
               PROVE  \E k \in Nat : LastText(now, k) /\ now[k] = Last(collected)
    BY <1>1, <1>4, <1>5 DEF CollectInv, now
  <2>1. PICK k \in Nat : LastText(sent[turn], k) /\ sent[turn][k] = Last(collected)
    BY DEF CollectInv
  <2>2. k \in DOMAIN now /\ now[k] = sent[turn][k]
    BY <1>2, <2>1 DEF LastText
  <2>3. ASSUME NEW j \in k + 1 .. Len(now) PROVE now[j].kind \notin {"text", "final"}
    <3>1. CASE j = Len(sent[turn]) + 1
      BY <1>2, <1>4, <3>1
    <3>2. CASE j \in k + 1 .. Len(sent[turn])
      <4>1. now[j] = sent[turn][j]
        BY <1>2, <2>1, <3>2 DEF LastText
      <4> QED BY <2>1, <3>2, <4>1 DEF LastText
    <3> QED BY <1>2, <2>1, <3>1, <3>2
  <2> QED BY <2>1, <2>2, <2>3 DEF LastText
<1> QED BY <1>3, <1>4

\* Every step keeps CollectInv.
LEMMA CollectStep == ASSUME TypeInv, EventsInv, CollectInv, Next PROVE CollectInv'
<1>1. CASE Emit
  BY <1>1, CollectEmit
<1>2. CASE StartTurn \/ NotConnected
  BY <1>2 DEF StartTurn, NotConnected, At, EventsInv, CollectInv
<1>3. CASE Ending
  BY <1>3, Ends DEF Returns, LocalsEnd, CollectInv
<1>4. CASE CompleteLine \/ ContextEnds
  BY <1>4 DEF CompleteLine, ContextEnds, runner, CollectInv
<1>5. CASE ~Noticed
  BY <1>5, Silent DEF CollectInv
<1> QED BY <1>1, <1>2, <1>3, <1>4, <1>5 DEF Noticed

-----------------------------------------------------------------------------
\* What the refinement rests on.
Inv == StreamingInv /\ EventsInv /\ CollectInv

\* The initial states of the turn are those of the conversation.
LEMMA InitConversation == Init => Inv /\ Conversation!Init
<1> SUFFICES ASSUME Init PROVE Inv /\ Conversation!Init
  OBVIOUS
<1>1. Inv
  <2>1. CompletedByOwnRecord
    BY DEF Init, CompletedByOwnRecord
  <2> QED BY <2>1, InitStreaming DEF Init, Inv, EventsInv, CollectInv
<1>2. \A t \in Turns : Of(t) = <<>>
  BY AmongEmpty DEF Init, Of
<1> QED BY <1>1, <1>2 DEF Init, Conversation!Init

\* A turn that succeeds has delivered an answer.
LEMMA AnsweredAtEnd ==
    ASSUME TypeInv, CollectInv, HasTerminalAssistant, turn \in Turns
    PROVE  Conversation!Answered(sent[turn])
<1>1. PICK k \in Nat : LastText(sent[turn], k) /\ sent[turn][k] = Last(collected)
  BY DEF CollectInv, HasTerminalAssistant
<1>2. sent[turn][k].kind = "final"
  BY <1>1 DEF HasTerminalAssistant
<1> QED BY <1>1, <1>2 DEF LastText, Conversation!Answered

\* Every step is one of the conversation, or none.
LEMMA ConversationStep ==
    ASSUME Inv, Inv', Next PROVE Conversation!Next \/ UNCHANGED Conversation!vars
<1> USE DEF Inv, StreamingInv
<1> DEFINE answers == [t \in Turns |-> Of(t)]
<1>1. ASSUME UNCHANGED file PROVE answers' = answers
  BY <1>1 DEF Of, LinesOf
<1>2. CASE CompleteLine
  <2>1. /\ partial \in Lines
        /\ \A t \in Turns : Of(t)' = IF t \in partial.of THEN Append(Of(t), partial) ELSE Of(t)
    BY <1>2, OfWrite
  <2>2. PICK of \in SUBSET Turns, kind \in Kinds : partial = [of |-> of, kind |-> kind]
    BY <2>1 DEF Lines
  <2>3. UNCHANGED <<turn, pc, ctxDone, sent, result>>
    BY <1>2 DEF CompleteLine, runner
  <2>4. answers' = [t \in Turns |-> IF t \in of THEN Append(Of(t), [of |-> of, kind |-> kind])
                                    ELSE Of(t)]
    BY <2>1, <2>2
  <2>5. CASE answers' = answers
    BY <2>3, <2>5 DEF Conversation!vars
  <2>6. CASE answers' # answers
    <3>1. Conversation!Write
      BY <2>3, <2>4, <2>6 DEF Conversation!Write
    <3> QED BY <3>1 DEF Conversation!Next
  <2> QED BY <2>5, <2>6
<1>3. CASE Emit
  <2>1. /\ turn \in Turns /\ batch \in Seq(Lines) /\ batch # <<>> /\ pc = "emit" /\ pc' = "emit"
        /\ UNCHANGED <<turn, ctxDone, result, file>>
        /\ sent' = [sent EXCEPT ![turn] = Append(@, Head(batch))]
        /\ sent \in [Turns -> Seq(Lines)] /\ Head(batch) \in Lines
    BY <1>3 DEF Emit, At, claude, TypeInv, RunnerType
  <2>2. sent'[turn] = Append(sent[turn], Head(batch)) /\ Of(turn)' = Of(turn)
        /\ Of(turn) \in Seq(Lines) /\ IsPrefix(sent'[turn], Of(turn)')
    BY <2>1, OfType DEF Of, LinesOf, StreamFaithful
  <2>3. Len(sent[turn]) < Len(Of(turn)) /\ Head(batch) = Of(turn)[Len(sent[turn]) + 1]
    <3> DEFINE now == sent'[turn]
    <3>1. /\ now \in Seq(Lines) /\ Len(now) = Len(sent[turn]) + 1
          /\ now[Len(sent[turn]) + 1] = Head(batch) /\ Len(sent[turn]) \in Nat
      BY <2>1, <2>2
    <3>2. IsPrefix(now, Of(turn))
      BY <2>2
    <3> HIDE DEF now
    <3>3. Len(now) <= Len(Of(turn)) /\ \A k \in 1 .. Len(now) : now[k] = Of(turn)[k]
      BY <2>2, <3>1, <3>2, PrefixElements
    <3> QED BY <2>2, <3>1, <3>3
  <2>4. Conversation!Deliver
    BY <1>1, <2>1, <2>3 DEF Conversation!Deliver
  <2> QED BY <2>4 DEF Conversation!Next
<1>4. CASE ContextEnds
  <2>1. Conversation!Leave
    BY <1>1, <1>4 DEF ContextEnds, claude, Conversation!Leave
  <2> QED BY <2>1 DEF Conversation!Next
<1>5. CASE StartTurn
  <2>1. turn + 1 \in Turns /\ ctxDone' \in BOOLEAN
    BY <1>5, TurnAssumption DEF StartTurn, TypeInv, RunnerType, Turns
  <2>2. Conversation!Begin
    BY <1>1, <1>5, <2>1 DEF StartTurn, At, claude, Conversation!Begin
  <2> QED BY <2>2 DEF Conversation!Next
<1>6. CASE NotConnected
  <2>1. turn + 1 \in Turns
    BY <1>6, TurnAssumption DEF NotConnected, TypeInv, RunnerType, Turns
  <2>2. Conversation!Refuse
    BY <1>1, <1>6, <2>1 DEF NotConnected, At, claude, Conversation!Refuse
  <2> QED BY <2>2 DEF Conversation!Next
<1>7. CASE Ending
  <2>1. PICK r \in {"ok", "gaveup", "failed", "oversize"} :
               /\ Returns(r) /\ pc # "idle"
               /\ r = "ok" => HasTerminalAssistant
               /\ r = "gaveup" => ctxDone
    BY <1>7, Ends
  <2>2. r = "ok" => Conversation!Answered(sent[turn])
    BY <2>1, AnsweredAtEnd DEF TypeInv, RunnerType
  <2>3. r \in Results
    BY DEF Results
  <2>4. PICK s \in {"ok", "gaveup", "failed", "oversize"} :
           /\ result' = [result EXCEPT ![turn] = s]
           /\ s = "ok" => r = "ok"
           /\ s = "gaveup" => r = "gaveup"
    BY <2>1 DEF Returns
  <2>5. Conversation!End(s)
    BY <1>1, <2>1, <2>2, <2>4 DEF Returns, LocalsEnd, Conversation!End, Conversation!Ends
  <2> QED BY <2>5 DEF Conversation!Next
<1>8. CASE ~Noticed
  BY <1>1, <1>8, Silent DEF Conversation!vars
<1> QED BY <1>2, <1>3, <1>4, <1>5, <1>6, <1>7, <1>8 DEF Noticed

\* The client keeps the promises of Conversation for any number of turns and
\* lines: over one file, one FIFO and one input box, through cancels, ends of the
\* context, disconnects and hooks that come late or not at all.
THEOREM ConversationImplemented == Spec => ImplementsConversation
<1>1. Inv /\ [Next]_vars => Inv'
  <2> SUFFICES ASSUME Inv, [Next]_vars PROVE Inv'
    OBVIOUS
  <2>1. StreamingInv'
    BY StreamingStep DEF Inv
  <2>2. EventsInv' /\ CollectInv'
    <3>1. CASE Next
      BY <3>1, EventsStep, CollectStep DEF Inv, StreamingInv
    <3>2. CASE UNCHANGED vars
      BY <3>2, EventsFrames DEF Inv, CollectInv, vars, runner
    <3> QED BY <3>1, <3>2
  <2> QED BY <2>1, <2>2 DEF Inv
<1>2. Inv /\ Inv' /\ [Next]_vars => [Conversation!Next]_Conversation!vars
  <2> SUFFICES ASSUME Inv, Inv', [Next]_vars
               PROVE  Conversation!Next \/ UNCHANGED Conversation!vars
    OBVIOUS
  <2>1. CASE Next
    BY <2>1, ConversationStep
  <2>2. CASE UNCHANGED vars
    <3>1. \A t : Of(t)' = Of(t)
      BY <2>2 DEF vars, claude, Of, LinesOf
    <3> QED BY <2>2, <3>1 DEF vars, runner, Conversation!vars
  <2> QED BY <2>1, <2>2
<1> QED
  BY <1>1, <1>2, InitConversation, PTL
     DEF Spec, ImplementsConversation, Conversation!Spec
=============================================================================
