----------------------------- MODULE Transcript -----------------------------
(***************************************************************************)
(* What the adapter makes of a line of Claude's transcript: the events of  *)
(* transcript_events.go, what waitForAssistantMessages collects of them,   *)
(* when the turn is over (transcript.go) and with which reason             *)
(* (app/prompt.go).  Of a text it is kept whether it is empty, blank or    *)
(* neither; of a tool's input or result its sizes.                         *)
(***************************************************************************)
EXTENDS Naturals, SequencesExt

Texts == {"", "blank", "word"}

\* A record is a line: its type, for assistant and user lines whether the
\* message decodes, its role, content blocks, stop reason and usage.
\* A block: text, tool_use (with its input), tool_result (with its content),
\* one that does not decode, or one of another type.

Text(parts, stop) == [type |-> "text", parts |-> parts, stop |-> stop]
Tool(data) == [type |-> "tool", data |-> data]
Result(data) == [type |-> "result", data |-> data]
Other(type) == [type |-> type]

\* flushText: the texts since the last tool become one event; without any,
\* only a stop reason makes one.
Flush(acc, stop) ==
    IF acc.texts = <<>> /\ stop = "" THEN acc
    ELSE [events |-> Append(acc.events, Text(acc.texts, stop)), texts |-> <<>>]

\* Mutant: a tool does not flush the text before it.
AssistantBlockUnflushed(acc, b) ==
    CASE b.type = "bad" -> [acc EXCEPT !.events = Append(@, Other("diagnostic"))]
      [] b.type = "text" /\ b.text # "" -> [acc EXCEPT !.texts = Append(@, b.text)]
      [] b.type = "tool_use" -> [acc EXCEPT !.events = Append(@, Tool(b.data))]
      [] OTHER -> acc

AssistantBlock(acc, b) ==
    CASE b.type = "bad" -> [acc EXCEPT !.events = Append(@, Other("diagnostic"))]
      [] b.type = "text" /\ b.text # "" -> [acc EXCEPT !.texts = Append(@, b.text)]
      [] b.type = "tool_use" ->
            LET flushed == Flush(acc, "")
            IN  [flushed EXCEPT !.events = Append(@, Tool(b.data))]
      [] OTHER -> acc

\* Mutant: the stop reason rides on text only.
AssistantEventsOfText(r) ==
    LET acc == FoldLeft(AssistantBlock, [events |-> <<>>, texts |-> <<>>], r.blocks)
    IN  (IF acc.texts = <<>> THEN acc ELSE Flush(acc, r.stop)).events

\* The flush at the end always makes an event when there is a stop reason:
\* the branch of the code for a reason that was not sent is never taken.
AssistantEvents(r) ==
    LET acc == FoldLeft(AssistantBlock, [events |-> <<>>, texts |-> <<>>], r.blocks)
    IN  Flush(acc, r.stop).events

UserBlock(events, b) ==
    CASE b.type = "bad"         -> Append(events, Other("diagnostic"))
      [] b.type = "tool_result" -> Append(events, Result(b.data))
      [] OTHER                  -> events

\* parseTranscriptEvents.
ParseTranscriptEvents(r) ==
    CASE r.type = "ignored" -> <<>>
      [] r.type \in {"invalid", "unknown", "title"} -> <<Other(r.type)>>
      [] r.type \in {"assistant", "user"} /\ r.broken -> <<Other("diagnostic")>>
      [] r.type = "user" /\ ~r.broken -> FoldLeft(UserBlock, <<>>, r.blocks)
      [] r.type = "assistant" /\ ~r.broken ->
            IF r.role # "assistant" THEN <<>>
            ELSE AssistantEvents(r) \o (IF r.usage THEN <<Other("usage")>> ELSE <<>>)

-----------------------------------------------------------------------------
\* waitForAssistantMessages keeps every text event but the empty one that
\* only says that a tool is used.  Of what it collected the end of the turn
\* depends on the last message's reason and on whether all text is blank.
Nothing == [last |-> "nothing", blank |-> TRUE]
Collects(e) == e.type = "text" /\ ~(e.stop = "tool_use" /\ e.parts = <<>>)
Blank(parts) == \A k \in DOMAIN parts : parts[k] = "blank"

CollectEvent(acc, e) ==
    IF Collects(e) THEN [last |-> e.stop, blank |-> acc.blank /\ Blank(e.parts)] ELSE acc

Collect(collected, events) == FoldLeft(CollectEvent, collected, events)

Terminal == {"end_turn", "max_tokens", "max_turn_requests", "refusal", "stop_sequence"}
HasTerminalAssistant(collected) == collected.last \in Terminal

\* Mutant: Claude's reason is passed on as it is.
StopReasonRaw(collected) ==
    IF collected.last \in {"nothing", ""} THEN "end_turn" ELSE collected.last

\* Mutant: the service's list has no stop_sequence.
StopReasonWithoutSequence(collected) ==
    CASE collected.last = "nothing" -> IF collected.blank THEN "error" ELSE "end_turn"
      [] collected.last \in {"", "end_turn"} -> "end_turn"
      [] collected.last \in {"max_tokens", "max_turn_requests", "refusal"} -> collected.last
      [] OTHER -> IF collected.blank THEN "error" ELSE "end_turn"

\* stopReason of app/prompt.go, for a turn that was not cancelled.
StopReason(collected) ==
    CASE collected.last = "nothing" -> IF collected.blank THEN "error" ELSE "end_turn"
      [] collected.last \in {"", "end_turn", "stop_sequence"} -> "end_turn"
      [] collected.last \in {"max_tokens", "max_turn_requests", "refusal"} -> collected.last
      [] OTHER -> IF collected.blank THEN "error" ELSE "end_turn"

\* What a line is to ClaudeTurn, whose lines are of these kinds.
KindOf(r) ==
    LET events == ParseTranscriptEvents(r)
        kept == {k \in DOMAIN events : Collects(events[k])}
    IN  IF kept = {} THEN "note"
        ELSE IF events[Max(kept)].stop \in Terminal THEN "final" ELSE "text"
=============================================================================
