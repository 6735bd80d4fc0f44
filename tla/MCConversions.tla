--------------------------- MODULE MCConversions ----------------------------
(* A small instance of Conversions for TLC: the limits scaled down, every
   kind of word, value, block and record, and lines of up to three blocks. *)
EXTENDS Conversions, TLC

NumberDef == "-1" :> -1 @@ "0" :> 0 @@ "3" :> 3
DefaultDef == "toolEvents" :> "compact" @@ "toolInputMaxBytes" :> 2 @@
              "toolResultMaxBytes" :> 4
ServerNameDef == <<"server-1", "server-2", "server-3">>

Plain(text) == [text |-> text, padded |-> FALSE]
Padded(text) == [text |-> text, padded |-> TRUE]
Words == {Plain(t) : t \in {"--tool-events", "--tool-input-max-bytes",
                            "--tool-result-max-bytes", "off", "3", "-1"}}
            \cup {Padded("full"), Padded("3")}
ArgListsDef == BoundedSeq(Words, 4)
EnvsDef == [toolEvents : {Unset, Plain("full"), Plain("3")},
            toolInputMaxBytes : {Unset, Plain("0"), Padded("3")},
            toolResultMaxBytes : {Unset, Plain("-1")}]

JSON(json, text, num) == [json |-> json, text |-> text, num |-> num]
ValuesDef == {JSON("string", t, 0) : t \in {"off", "full", "compact", "x"}}
                \cup {JSON("int", "", n) : n \in {-1, 0, 7}}
                \cup {JSON("null", "", 0), JSON("other", "", 0)}

Server(name, type, command) == [name |-> name, type |-> type, command |-> command]
McpListsDef == BoundedSeq({Server("", "", TRUE), Server("a", "stdio", TRUE),
                           Server("server-2", "", TRUE), Server("a", "http", TRUE),
                           Server("b", "", FALSE)}, 3)

Size(raw, text) == [raw |-> raw, text |-> text]
Bytes(b, n) == [k \in 1..n |-> b]
InQuotes(text) == Size(<<"quote">> \o text \o <<"quote">>, text)
Quoted(b, n) == InQuotes(Bytes(b, n))
Rune2 == <<"first", "plain">>
Rune4 == <<"first", "second", "third", "plain">>
Small == Quoted("plain", 1)
Empty == Size(<<>>, <<>>)
Sizes == {Empty, Small, Size(Bytes("plain", 4), Bytes("plain", 4)),
          Size(Bytes("quote", 6), Bytes("quote", 2)), Quoted("plain", 5), Quoted("angle", 7),
          InQuotes(Rune4 \o Rune4), InQuotes(Rune2 \o Rune2)}
Block(type, text, data) == [type |-> type, text |-> text, data |-> data]
TextBlock(t) == Block("text", t, Empty)
Call(d) == Block("tool_use", "", d)
ResultOf(d) == Block("tool_result", "", d)
Bad == Block("bad", "", Empty)
Thinking == Block("thinking", "", Empty)

Record(type, role, blocks, stop, usage, broken) ==
    [type |-> type, role |-> role, blocks |-> blocks, stop |-> stop, usage |-> usage,
     broken |-> broken]
Line(blocks, stop) == Record("assistant", "assistant", blocks, stop, TRUE, FALSE)
Stops == {"", "tool_use", "pause_turn"} \cup Terminal

RecordsDef ==
    {Line(bs, stop) : bs \in BoundedSeq({TextBlock("word"), Call(Small)}, 3),
                      stop \in {"", "tool_use", "end_turn"}}
    \cup {Line(bs, stop) : bs \in BoundedSeq({TextBlock(""), TextBlock("blank"), Bad, Thinking}, 1),
                           stop \in Stops}
    \cup {Line(<<TextBlock("blank"), Call(d)>>, "") : d \in Sizes}
    \cup {Record("user", "user", <<Bad, ResultOf(d), ResultOf(Small)>>, "", FALSE, FALSE) : d \in Sizes}
    \cup {Record(type, "user", <<TextBlock("word")>>, "end_turn", FALSE, FALSE) :
            type \in {"ignored", "invalid", "unknown", "title", "assistant"}}
    \cup {Record(type, type, <<TextBlock("word")>>, "end_turn", FALSE, TRUE) :
            type \in {"assistant", "user"}}
=============================================================================
