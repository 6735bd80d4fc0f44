------------------------------ MODULE Updates -------------------------------
(***************************************************************************)
(* updates.go: a transcript event and the session's settings become one    *)
(* session/update or none.  A payload is a tool's input or result: its raw *)
(* JSON and the text that resultContentString finds in it, both sequences  *)
(* of bytes.  Of a byte it is kept how many Go's JSON encoder writes for   *)
(* it inside a string, and where in a rune it is: the program cuts at any  *)
(* byte, and the encoder writes what is left of a rune as U+FFFD.          *)
(***************************************************************************)
EXTENDS Naturals, SequencesExt

CONSTANT HardMax    \* ToolPayloadHardMax, which no setting changes

ASSUME HardMaxAssumption == HardMax \in Nat \ {0}

NoUpdate == [type |-> "none"]

\* The bytes: an ordinary one, or the last one of a rune; a quote or backslash,
\* which is written as two; one of < > &, which is written as \uXXXX; and the
\* first three of a rune that has more.
Byte == {"plain", "quote", "angle", "first", "second", "third"}

\* How many bytes at the end of s are of a rune that has more.
Open(s) == IF s = <<>> THEN 0
           ELSE CASE s[Len(s)] = "first" -> 1
                  [] s[Len(s)] = "second" -> 2
                  [] s[Len(s)] = "third" -> 3
                  [] OTHER -> 0

\* Text that ends with a rune: what a JSON decoder makes.
Whole == {s \in Seq(Byte) : Open(s) = 0}

\* s[:max] of what is longer.
Cut(s, max) == IF Len(s) > max THEN SubSeq(s, 1, max) ELSE s

\* For the encoder a rune that was cut is so many wrong bytes, each \ufffd.
Broken(s) == [k \in DOMAIN s |-> IF k > Len(s) - Open(s) THEN "angle" ELSE s[k]]

\* How many bytes the client decodes of a text: U+FFFD has three.
Decoded(s) == Len(s) + 2 * Open(s)

\* An update about a tool; its content is as long as the client decodes it.
ToolUpdate == [type : {"tool_call", "tool_call_update"}, raw : Seq(Byte), content : Nat,
               truncated : BOOLEAN, original : Nat]

Written(b) == CASE b = "plain" -> <<"plain">>
                [] b = "quote" -> <<"quote", "quote">>
                [] b = "angle" -> <<"quote", "plain", "plain", "plain", "plain", "plain">>
                [] OTHER -> <<b>>

\* truncateJSONPreview: the first bytes and "..." as a JSON string.
TruncateJSONPreview(raw, max) ==
    IF Len(raw) <= max THEN raw
    ELSE LET cut == Broken(SubSeq(raw, 1, max)) \o <<"plain", "plain", "plain">>
         IN  <<"quote">> \o FlattenSeq([k \in DOMAIN cut |-> Written(cut[k])]) \o <<"quote">>

\* A limit of a setting counts in compact mode, and zero is no limit.
Exceeds(config, option, n) ==
    config["toolEvents"] = "compact" /\ config[option] > 0 /\ n > config[option]

ChunkUpdate(e) ==
    IF (\A k \in DOMAIN e.parts : e.parts[k] = "blank") /\ e.stop = "" THEN NoUpdate
    ELSE [type |-> "agent_message_chunk", parts |-> e.parts]

\* Mutant: what the hard limit cuts is not marked.
CallUpdateMarksLimit(e, config) ==
    LET over  == Exceeds(config, "toolInputMaxBytes", Len(e.data.raw))
        limited == IF over
                   THEN TruncateJSONPreview(e.data.raw, config["toolInputMaxBytes"])
                   ELSE e.data.raw
    IN  [type |-> "tool_call", raw |-> TruncateJSONPreview(limited, HardMax),
         content |-> 0, truncated |-> over, original |-> IF over THEN Len(e.data.raw) ELSE 0]

CallUpdate(e, config) ==
    LET over  == Exceeds(config, "toolInputMaxBytes", Len(e.data.raw))
        limited == IF over
                   THEN TruncateJSONPreview(e.data.raw, config["toolInputMaxBytes"])
                   ELSE e.data.raw
        truncated == over \/ Len(limited) > HardMax
    IN  [type |-> "tool_call", raw |-> TruncateJSONPreview(limited, HardMax),
         content |-> 0, truncated |-> truncated,
         original |-> IF truncated THEN Len(e.data.raw) ELSE 0]

\* Mutant: without a setting's limit there is none.
ResultUpdateSoft(e, config) ==
    LET compact == config["toolEvents"] = "compact"
        size == Len(e.data.text)
        over == Exceeds(config, "toolResultMaxBytes", size)
        text == IF over THEN Cut(e.data.text, config["toolResultMaxBytes"]) ELSE e.data.text
    IN  [type |-> "tool_call_update", raw |-> IF compact THEN <<>> ELSE e.data.raw,
         content |-> Decoded(text), truncated |-> over, original |-> IF over THEN size ELSE 0]

\* Compact mode sends the text of the result, full mode the raw JSON as well.
ResultUpdate(e, config) ==
    LET compact == config["toolEvents"] = "compact"
        size == Len(e.data.text)
        over == Exceeds(config, "toolResultMaxBytes", size)
        text == IF over THEN Cut(e.data.text, config["toolResultMaxBytes"]) ELSE e.data.text
        raw == IF compact THEN <<>> ELSE e.data.raw
        truncated == over \/ Len(text) > HardMax \/ Len(raw) > HardMax
    IN  [type |-> "tool_call_update", raw |-> TruncateJSONPreview(raw, HardMax),
         content |-> Decoded(Cut(text, HardMax)), truncated |-> truncated,
         original |-> IF ~truncated THEN 0
                      ELSE IF compact THEN size ELSE Len(e.data.raw)]

\* updateFromTranscriptEvent.
UpdateFromTranscriptEvent(e, config) ==
    CASE e.type = "text" -> ChunkUpdate(e)
      [] e.type = "tool" /\ config["toolEvents"] # "off" -> CallUpdate(e, config)
      [] e.type = "result" /\ config["toolEvents"] # "off" -> ResultUpdate(e, config)
      [] OTHER -> NoUpdate

\* An event goes to the client as an update, if it becomes one.
Forward(sent, e, config) ==
    LET u == UpdateFromTranscriptEvent(e, config)
    IN  IF u = NoUpdate THEN sent ELSE Append(sent, u)

UpdatesOf(events, config) ==
    FoldLeft(LAMBDA sent, e : Forward(sent, e, config), <<>>, events)
=============================================================================
