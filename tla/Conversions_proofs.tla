------------------------- MODULE Conversions_proofs -------------------------
(***************************************************************************)
(* Theorems about Conversions, for any command line, environment, request  *)
(* and transcript line that InputAssumption allows, and any hard limit.    *)
(***************************************************************************)
EXTENDS Conversions, SequenceFacts

\* Settings a session can have.
Configs == {c \in [Options -> Modes \cup Nat] :
               /\ c["toolEvents"] \in Modes
               /\ c["toolInputMaxBytes"] \in Nat /\ c["toolResultMaxBytes"] \in Nat}

\* The default is one of them.
LEMMA DefaultType == Default \in Configs
  BY ConfigAssumption DEF Configs, Options

\* What an option is set to by a text that is one of its values.
LEMMA ValueType ==
    ASSUME NEW o \in Options, NEW text, IsValue(o, text)
    PROVE  /\ o = "toolEvents" => Value(o, text) \in Modes
           /\ o # "toolEvents" => Value(o, text) \in Nat
  BY ConfigAssumption DEF IsValue, Value

\* Settings with one of them changed.
LEMMA ConfigSet ==
    ASSUME NEW c \in Configs, NEW o \in Options, NEW v,
           o = "toolEvents" => v \in Modes, o # "toolEvents" => v \in Nat
    PROVE  [c EXCEPT ![o] = v] \in Configs
<1>1. c \in [Options -> Modes \cup Nat] /\ v \in Modes \cup Nat
  BY DEF Configs
<1> QED BY <1>1 DEF Configs, Options

\* NoConfig is none of them.
LEMMA NoConfigIsNone == \A c \in Configs : c # NoConfig
<1>1. "toolEvents" \in Options
  BY DEF Options
<1>2. \A c \in Configs : DOMAIN c = Options
  BY DEF Configs
<1>3. DOMAIN NoConfig = {}
  BY DEF NoConfig
<1> QED BY <1>1, <1>2, <1>3

-----------------------------------------------------------------------------
\* The two loops over the command line.
Detected == [set : SUBSET Options, value : BOOLEAN]
Detecting(s) == FoldLeft(DetectWord, [set |-> {}, value |-> FALSE], s)

Taken == [config : Configs \cup {NoConfig}, option : Options \cup {"none"}]
Taking(c, s) == FoldLeft(TakeWord, [config |-> c, option |-> "none"], s)

\* A word in the first loop.
LEMMA DetectType ==
    ASSUME NEW acc \in Detected, NEW w \in Word PROVE DetectWord(acc, w) \in Detected
  BY DEF Detected, DetectWord, IsFlag, Flags, OptionOf, Options

\* A word in the second.
LEMMA TakeType ==
    ASSUME NEW acc \in Taken, NEW w \in Word PROVE TakeWord(acc, w) \in Taken
<1>1. CASE acc.config = NoConfig
  BY <1>1 DEF TakeWord
<1>2. CASE acc.config # NoConfig /\ acc.option # "none"
  <2>1. acc.config \in Configs /\ acc.option \in Options
    BY <1>2 DEF Taken
  <2>2. ASSUME ArgAccepts(acc.option, w)
        PROVE  [acc.config EXCEPT ![acc.option] = Value(acc.option, w.text)] \in Configs
    BY <2>1, <2>2, ValueType, ConfigSet DEF ArgAccepts
  <2> QED BY <1>2, <2>2 DEF TakeWord, Taken
<1>3. CASE acc.config # NoConfig /\ acc.option = "none"
  <2>1. IsFlag(w) => OptionOf[w.text] \in Options
    BY DEF IsFlag, Flags, OptionOf, Options
  <2> QED BY <1>3, <2>1 DEF TakeWord, Taken
<1> QED BY <1>1, <1>2, <1>3

\* The first loop, word by word.
LEMMA DetectFold ==
    ASSUME TRUE
    PROVE  /\ Detecting(<<>>) = [set |-> {}, value |-> FALSE]
           /\ \A s \in Seq(Word) : Detecting(s) \in Detected
           /\ \A s \in Seq(Word) : \A x \in Word :
                  Detecting(Append(s, x)) = DetectWord(Detecting(s), x)
<1> DEFINE step == [p \in Detected \X Word |-> DetectWord(p[1], p[2])]
           B == [set |-> {}, value |-> FALSE]
<1>1. step \in [Detected \X Word -> Detected] /\ B \in Detected
      /\ \A acc \in Detected : \A x \in Word : step[<<acc, x>>] = DetectWord(acc, x)
  BY DetectType DEF Detected
<1>2. ASSUME NEW s \in Seq(Word) PROVE Detecting(s) = Folded(step, B, s)
  <2> DEFINE run == CHOOSE run : run = [S \in SUBSET DOMAIN s |->
                 IF S = {} THEN B ELSE DetectWord(run[S \ {Max(S)}], s[Max(S)])]
  <2>1. PICK g \in [SUBSET DOMAIN s -> Detected] : IsFold(g, s, B, step)
    <3> HIDE DEF step, B
    <3> QED BY <1>1, FoldExists
  <2>2. ASSUME NEW S \in SUBSET DOMAIN s
        PROVE  g[S] = IF S = {} THEN B ELSE DetectWord(g[S \ {Max(S)}], s[Max(S)])
    <3>1. CASE S # {}
      <4>1. Max(S) \in S
        <5>1. Len(s) \in Nat /\ DOMAIN s = 1 .. Len(s)
          OBVIOUS
        <5> QED BY <3>1, <5>1, Greatest
      <4>2. s[Max(S)] \in Word /\ g[S \ {Max(S)}] \in Detected
        BY <4>1
      <4>3. g[S] = step[<<g[S \ {Max(S)}], s[Max(S)]>>]
        <5> HIDE DEF step, B
        <5> QED BY <2>1, <3>1 DEF IsFold
      <4> HIDE DEF step, B
      <4> QED BY <1>1, <3>1, <4>2, <4>3
    <3>2. CASE S = {}
      <4> HIDE DEF step, B
      <4> QED BY <2>1, <3>2 DEF IsFold
    <3> QED BY <3>1, <3>2
  <2>3. run = [S \in SUBSET DOMAIN s |->
                 IF S = {} THEN B ELSE DetectWord(run[S \ {Max(S)}], s[Max(S)])]
    <3>1. g = [S \in SUBSET DOMAIN s |-> IF S = {} THEN B ELSE DetectWord(g[S \ {Max(S)}], s[Max(S)])]
      <4> HIDE DEF B
      <4> QED BY <2>2
    <3> QED BY <3>1, Zenon
  <2>4. Detecting(s) = run[DOMAIN s]
    BY DEF Detecting, FoldLeft, MapThenFoldSet
  <2> HIDE DEF run
  <2>5. Alike(run, g, Len(s)) /\ Len(s) \in Nat /\ DOMAIN s = 1 .. Len(s)
    <3> HIDE DEF B
    <3>1. Len(s) \in Nat /\ DOMAIN s = 1 .. Len(s)
      OBVIOUS
    <3> QED BY <2>2, <2>3, <3>1 DEF Alike
  <2>6. run[DOMAIN s] = g[DOMAIN s]
    BY <2>5, FoldsAgree
  <2> HIDE DEF step, B
  <2>7. Folded(step, B, s) = g[DOMAIN s]
    BY <2>1, FoldedIs
  <2> QED BY <2>4, <2>6, <2>7
<1>3. /\ Folded(step, B, <<>>) = B
      /\ \A s \in Seq(Word) : Folded(step, B, s) \in Detected
      /\ \A s \in Seq(Word) : \A x \in Word :
             Folded(step, B, Append(s, x)) = step[<<Folded(step, B, s), x>>]
  <2> HIDE DEF step, B
  <2>1. B \in Detected /\ step \in [Detected \X Word -> Detected]
    BY <1>1
  <2>2. StepByStep(step, B, Word, Detected)
    BY <2>1, FoldedAppend
  <2> QED BY <2>2 DEF StepByStep
<1>4. Detecting(<<>>) = B
  <2>1. <<>> \in Seq(Word)
    OBVIOUS
  <2> HIDE DEF step, B
  <2> QED BY <1>2, <1>3, <2>1
<1>5. ASSUME NEW s \in Seq(Word) PROVE Detecting(s) \in Detected
  <2> HIDE DEF step, B
  <2> QED BY <1>2, <1>3
<1>6. ASSUME NEW s \in Seq(Word), NEW x \in Word PROVE Detecting(Append(s, x)) = DetectWord(Detecting(s), x)
  <2> HIDE DEF step, B
  <2>1. Append(s, x) \in Seq(Word)
    OBVIOUS
  <2>2. Detecting(Append(s, x)) = step[<<Folded(step, B, s), x>>]
    BY <1>2, <1>3, <2>1
  <2> QED BY <1>1, <1>2, <1>5, <2>2
<1> QED BY <1>4, <1>5, <1>6

\* The second loop, word by word.
LEMMA TakeFold ==
    ASSUME NEW c \in Configs \cup {NoConfig}
    PROVE  /\ Taking(c, <<>>) = [config |-> c, option |-> "none"]
           /\ \A s \in Seq(Word) : Taking(c, s) \in Taken
           /\ \A s \in Seq(Word) : \A x \in Word :
                  Taking(c, Append(s, x)) = TakeWord(Taking(c, s), x)
<1> DEFINE step == [p \in Taken \X Word |-> TakeWord(p[1], p[2])]
           B == [config |-> c, option |-> "none"]
<1>1. step \in [Taken \X Word -> Taken] /\ B \in Taken
      /\ \A acc \in Taken : \A x \in Word : step[<<acc, x>>] = TakeWord(acc, x)
  BY TakeType DEF Taken
<1>2. ASSUME NEW s \in Seq(Word) PROVE Taking(c, s) = Folded(step, B, s)
  <2> DEFINE run == CHOOSE run : run = [S \in SUBSET DOMAIN s |->
                 IF S = {} THEN B ELSE TakeWord(run[S \ {Max(S)}], s[Max(S)])]
  <2>1. PICK g \in [SUBSET DOMAIN s -> Taken] : IsFold(g, s, B, step)
    <3> HIDE DEF step, B
    <3> QED BY <1>1, FoldExists
  <2>2. ASSUME NEW S \in SUBSET DOMAIN s
        PROVE  g[S] = IF S = {} THEN B ELSE TakeWord(g[S \ {Max(S)}], s[Max(S)])
    <3>1. CASE S # {}
      <4>1. Max(S) \in S
        <5>1. Len(s) \in Nat /\ DOMAIN s = 1 .. Len(s)
          OBVIOUS
        <5> QED BY <3>1, <5>1, Greatest
      <4>2. s[Max(S)] \in Word /\ g[S \ {Max(S)}] \in Taken
        BY <4>1
      <4>3. g[S] = step[<<g[S \ {Max(S)}], s[Max(S)]>>]
        <5> HIDE DEF step, B
        <5> QED BY <2>1, <3>1 DEF IsFold
      <4> HIDE DEF step, B
      <4> QED BY <1>1, <3>1, <4>2, <4>3
    <3>2. CASE S = {}
      <4> HIDE DEF step, B
      <4> QED BY <2>1, <3>2 DEF IsFold
    <3> QED BY <3>1, <3>2
  <2>3. run = [S \in SUBSET DOMAIN s |->
                 IF S = {} THEN B ELSE TakeWord(run[S \ {Max(S)}], s[Max(S)])]
    <3>1. g = [S \in SUBSET DOMAIN s |-> IF S = {} THEN B ELSE TakeWord(g[S \ {Max(S)}], s[Max(S)])]
      <4> HIDE DEF B
      <4> QED BY <2>2
    <3> QED BY <3>1, Zenon
  <2>4. Taking(c, s) = run[DOMAIN s]
    BY DEF Taking, FoldLeft, MapThenFoldSet
  <2> HIDE DEF run
  <2>5. Alike(run, g, Len(s)) /\ Len(s) \in Nat /\ DOMAIN s = 1 .. Len(s)
    <3> HIDE DEF B
    <3>1. Len(s) \in Nat /\ DOMAIN s = 1 .. Len(s)
      OBVIOUS
    <3> QED BY <2>2, <2>3, <3>1 DEF Alike
  <2>6. run[DOMAIN s] = g[DOMAIN s]
    BY <2>5, FoldsAgree
  <2> HIDE DEF step, B
  <2>7. Folded(step, B, s) = g[DOMAIN s]
    BY <2>1, FoldedIs
  <2> QED BY <2>4, <2>6, <2>7
<1>3. /\ Folded(step, B, <<>>) = B
      /\ \A s \in Seq(Word) : Folded(step, B, s) \in Taken
      /\ \A s \in Seq(Word) : \A x \in Word :
             Folded(step, B, Append(s, x)) = step[<<Folded(step, B, s), x>>]
  <2> HIDE DEF step, B
  <2>1. B \in Taken /\ step \in [Taken \X Word -> Taken]
    BY <1>1
  <2>2. StepByStep(step, B, Word, Taken)
    BY <2>1, FoldedAppend
  <2> QED BY <2>2 DEF StepByStep
<1>4. Taking(c, <<>>) = B
  <2>1. <<>> \in Seq(Word)
    OBVIOUS
  <2> HIDE DEF step, B
  <2> QED BY <1>2, <1>3, <2>1
<1>5. ASSUME NEW s \in Seq(Word) PROVE Taking(c, s) \in Taken
  <2> HIDE DEF step, B
  <2> QED BY <1>2, <1>3
<1>6. ASSUME NEW s \in Seq(Word), NEW x \in Word PROVE Taking(c, Append(s, x)) = TakeWord(Taking(c, s), x)
  <2> HIDE DEF step, B
  <2>1. Append(s, x) \in Seq(Word)
    OBVIOUS
  <2>2. Taking(c, Append(s, x)) = step[<<Folded(step, B, s), x>>]
    BY <1>2, <1>3, <2>1
  <2> QED BY <1>1, <1>2, <1>5, <2>2
<1> QED BY <1>4, <1>5, <1>6

-----------------------------------------------------------------------------
\* Updates.  The bytes of a preview inside its quotes.
WrittenBytes(s) == FlattenSeq([k \in DOMAIN s |-> Written(s[k])])

\* A byte is written as six at most, a plain one as itself.
LEMMA WrittenFacts ==
    /\ \A b \in Byte : Written(b) \in Seq(Byte) /\ Len(Written(b)) <= 6
    /\ "plain" \in Byte /\ "quote" \in Byte /\ Len(Written("plain")) = 1
<1>1. "plain" \in Byte /\ "quote" \in Byte
  BY DEF Byte
<1>2. Written("plain") \in Seq(Byte) /\ Len(Written("plain")) = 1
  <2> DEFINE t == <<"plain">>
  <2>1. t \in Seq(Byte) /\ Len(t) = 1
    BY <1>1
  <2>2. Written("plain") = t
    BY DEF Written
  <2> HIDE DEF t
  <2> QED BY <2>1, <2>2
<1>3. ASSUME NEW b \in Byte PROVE Written(b) \in Seq(Byte) /\ Len(Written(b)) <= 6
  <2>1. CASE b = "plain"
    <3> DEFINE t == <<"plain">>
    <3>1. t \in Seq(Byte) /\ Len(t) <= 6
      BY <1>1
    <3>2. Written(b) = t
      BY <2>1 DEF Written
    <3> HIDE DEF t
    <3> QED BY <3>1, <3>2
  <2>2. CASE b = "quote"
    <3> DEFINE t == <<"quote", "quote">>
    <3>1. t \in Seq(Byte) /\ Len(t) <= 6
      BY <1>1
    <3>2. Written(b) = t
      BY <2>2 DEF Written
    <3> HIDE DEF t
    <3> QED BY <3>1, <3>2
  <2>3. CASE b = "angle"
    <3> DEFINE t == <<"quote", "plain", "plain", "plain", "plain", "plain">>
    <3>1. t \in Seq(Byte) /\ Len(t) <= 6
      BY <1>1
    <3>2. Written(b) = t
      BY <2>3 DEF Written
    <3> HIDE DEF t
    <3> QED BY <3>1, <3>2
  <2>4. CASE b \in {"first", "second", "third"}
    <3> DEFINE t == <<b>>
    <3>1. t \in Seq(Byte) /\ Len(t) <= 6
      OBVIOUS
    <3>2. Written(b) = t
      BY <2>4 DEF Written
    <3> HIDE DEF t
    <3> QED BY <3>1, <3>2
  <2> QED BY <2>1, <2>2, <2>3, <2>4 DEF Byte
<1> QED BY <1>1, <1>2, <1>3

\* At most three bytes are left of a rune that was cut.
LEMMA OpenRange == \A s \in Seq(Byte) : Open(s) \in 0 .. 3
<1>1. ASSUME NEW s \in Seq(Byte), s # <<>> PROVE Open(s) \in 0 .. 3
  <2>1. Len(s) \in DOMAIN s
    BY <1>1
  <2>2. PICK b \in Byte : b = s[Len(s)]
    BY <1>1, <2>1
  <2>3. Open(s) = CASE b = "first" -> 1 [] b = "second" -> 2 [] b = "third" -> 3 [] OTHER -> 0
    BY <1>1, <2>2 DEF Open
  <2> QED BY <2>3
<1>2. Open(<<>>) = 0
  BY DEF Open
<1> QED BY <1>1, <1>2

\* The encoder's view of a text has as many bytes.
LEMMA BrokenFacts ==
    ASSUME NEW s \in Seq(Byte)
    PROVE  Broken(s) \in Seq(Byte) /\ Len(Broken(s)) = Len(s)
<1>1. "angle" \in Byte
  BY DEF Byte
<1>2. \A k \in 1 .. Len(s) : (IF k > Len(s) - Open(s) THEN "angle" ELSE s[k]) \in Byte
  BY <1>1
<1>3. Broken(s) \in [1 .. Len(s) -> Byte]
  BY <1>2 DEF Broken
<1> QED BY <1>3

\* A text that is cut has at most so many bytes, and is not cut if it is short.
LEMMA CutFacts ==
    ASSUME NEW s \in Seq(Byte), NEW max \in Nat
    PROVE  /\ Cut(s, max) \in Seq(Byte) /\ Len(Cut(s, max)) \in Nat
           /\ Len(Cut(s, max)) = IF Len(s) > max THEN max ELSE Len(s)
           /\ Len(s) <= max => Cut(s, max) = s
<1>1. Len(s) \in Nat
  OBVIOUS
<1>2. CASE Len(s) > max
  <2>1. SubSeq(s, 1, max) \in Seq(Byte) /\ Len(SubSeq(s, 1, max)) = max
    BY <1>1, <1>2
  <2> QED BY <1>1, <1>2, <2>1 DEF Cut
<1>3. CASE ~(Len(s) > max)
  BY <1>1, <1>3 DEF Cut
<1> QED BY <1>2, <1>3

\* Of two cuts the shorter one counts.
LEMMA CutTwice ==
    ASSUME NEW s \in Seq(Byte), NEW m \in Nat, NEW n \in Nat, m <= n
    PROVE  Cut(Cut(s, n), m) = Cut(s, m)
<1>1. Len(s) \in Nat
  OBVIOUS
<1>2. CASE Len(s) <= n
  BY <1>2, CutFacts
<1>3. CASE Len(s) > n /\ m < n
  <2> DEFINE t == SubSeq(s, 1, n)
  <2>1. t \in Seq(Byte) /\ Len(t) = n /\ \A k \in 1 .. n : t[k] = s[k]
    BY <1>1, <1>3
  <2>2. Cut(s, n) = t
    BY <1>1, <1>3 DEF Cut
  <2> HIDE DEF t
  <2>3. SubSeq(t, 1, m) = SubSeq(s, 1, m)
    BY <1>1, <1>3, <2>1
  <2>4. Cut(t, m) = SubSeq(t, 1, m) /\ Cut(s, m) = SubSeq(s, 1, m)
    BY <1>1, <1>3, <2>1 DEF Cut
  <2> QED BY <2>2, <2>3, <2>4
<1>4. CASE Len(s) > n /\ m = n
  <2>1. Len(Cut(s, n)) = n /\ Cut(s, n) \in Seq(Byte)
    BY <1>1, <1>4, CutFacts
  <2>2. Cut(Cut(s, n), n) = Cut(s, n)
    BY <2>1, CutFacts
  <2> QED BY <1>4, <2>2
<1> QED BY <1>1, <1>2, <1>3, <1>4

\* Bytes are written one by one.
LEMMA WrittenAppend ==
    /\ WrittenBytes(<<>>) = <<>>
    /\ \A s \in Seq(Byte) : WrittenBytes(s) \in Seq(Byte)
    /\ \A s \in Seq(Byte) : \A b \in Byte :
           WrittenBytes(Append(s, b)) = Cat(WrittenBytes(s), Written(b))
<1> DEFINE W == [b \in Byte |-> Written(b)]
<1>1. W \in [Byte -> Seq(Byte)] /\ \A b \in Byte : W[b] = Written(b)
  BY WrittenFacts
<1>2. ASSUME NEW s \in Seq(Byte) PROVE WrittenBytes(s) = FlattenSeq(Mapped(W, s))
  <2>1. \A k \in DOMAIN s : Written(s[k]) = W[s[k]]
    BY <1>1
  <2>2. [k \in DOMAIN s |-> Written(s[k])] = Mapped(W, s)
    <3> HIDE DEF W
    <3> QED BY <2>1 DEF Mapped
  <2> QED BY <2>2 DEF WrittenBytes
<1> HIDE DEF W
<1>3. /\ Mapped(W, <<>>) = <<>>
      /\ \A s \in Seq(Byte) : Mapped(W, s) \in Seq(Seq(Byte)) /\ Len(Mapped(W, s)) = Len(s)
      /\ \A s \in Seq(Byte) : \A x \in Byte : Mapped(W, Append(s, x)) = Append(Mapped(W, s), W[x])
  <2>1. MapsEach(W, Byte, Seq(Byte))
    BY <1>1, MappedAppend
  <2> QED BY <2>1 DEF MapsEach
<1>4. /\ FlattenSeq(<<>>) = <<>>
      /\ \A s \in Seq(Seq(Byte)) : FlattenSeq(s) \in Seq(Byte)
      /\ \A s \in Seq(Seq(Byte)) : \A x \in Seq(Byte) :
             FlattenSeq(Append(s, x)) = Cat(FlattenSeq(s), x)
  BY FlattenAppend
<1>5. WrittenBytes(<<>>) = <<>>
  <2>1. <<>> \in Seq(Byte)
    OBVIOUS
  <2> QED BY <1>2, <1>3, <1>4, <2>1
<1>6. ASSUME NEW s \in Seq(Byte) PROVE WrittenBytes(s) \in Seq(Byte)
  BY <1>2, <1>3, <1>4
<1>7. ASSUME NEW s \in Seq(Byte), NEW b \in Byte
      PROVE  WrittenBytes(Append(s, b)) = Cat(WrittenBytes(s), Written(b))
  <2>1. Append(s, b) \in Seq(Byte) /\ W[b] \in Seq(Byte) /\ W[b] = Written(b)
    BY <1>1
  <2>2. WrittenBytes(Append(s, b)) = FlattenSeq(Append(Mapped(W, s), W[b]))
    BY <1>2, <1>3, <2>1
  <2>3. Mapped(W, s) \in Seq(Seq(Byte))
    BY <1>3
  <2>4. FlattenSeq(Append(Mapped(W, s), W[b])) = Cat(FlattenSeq(Mapped(W, s)), W[b])
    BY <1>4, <2>1, <2>3
  <2> QED BY <1>2, <2>1, <2>2, <2>4
<1> QED BY <1>5, <1>6, <1>7

\* The length of two sequences.
LEMMA CatLength ==
    ASSUME NEW X, NEW s \in Seq(X), NEW t \in Seq(X)
    PROVE  Len(Cat(s, t)) = Len(s) + Len(t)
  BY DEF Cat

\* What is written is at most six times as long.
LEMMA WrittenLength == \A s \in Seq(Byte) : Len(WrittenBytes(s)) <= 6 * Len(s)
<1> DEFINE T == {s \in Seq(Byte) : Len(WrittenBytes(s)) <= 6 * Len(s)}
<1>1. <<>> \in T
  <2>1. <<>> \in Seq(Byte) /\ WrittenBytes(<<>>) = <<>> /\ Len(<<>>) = 0
    BY WrittenAppend
  <2>2. Len(WrittenBytes(<<>>)) <= 6 * Len(<<>>)
    BY <2>1
  <2> QED BY <2>1, <2>2
<1>2. ASSUME NEW s \in Seq(Byte), NEW b \in Byte, s \in T PROVE Append(s, b) \in T
  <2>1. WrittenBytes(Append(s, b)) = Cat(WrittenBytes(s), Written(b))
        /\ WrittenBytes(s) \in Seq(Byte)
    BY WrittenAppend
  <2>2. Written(b) \in Seq(Byte) /\ Len(Written(b)) <= 6
    BY WrittenFacts
  <2>3. Len(WrittenBytes(Append(s, b))) = Len(WrittenBytes(s)) + Len(Written(b))
    BY <2>1, <2>2, CatLength
  <2>4. Append(s, b) \in Seq(Byte) /\ Len(Append(s, b)) = Len(s) + 1 /\ Len(s) \in Nat
    OBVIOUS
  <2>5. Len(WrittenBytes(s)) \in Nat /\ Len(Written(b)) \in Nat
    BY <2>1, <2>2
  <2>6. Len(WrittenBytes(s)) <= 6 * Len(s)
    BY <1>2
  <2>7. Len(WrittenBytes(Append(s, b))) <= 6 * Len(Append(s, b))
    BY <2>2, <2>3, <2>4, <2>5, <2>6
  <2> QED BY <2>4, <2>7
<1> HIDE DEF T
<1>3. \A s \in Seq(Byte) : s \in T
  BY <1>1, <1>2, SequenceInduction
<1> QED BY <1>3 DEF T

\* A preview of JSON: all of it if it is short enough, or bytes that are at most
\* six times the limit and five more.
LEMMA PreviewFacts ==
    ASSUME NEW raw \in Seq(Byte), NEW max \in Nat
    PROVE  /\ TruncateJSONPreview(raw, max) \in Seq(Byte)
           /\ Len(raw) <= max => TruncateJSONPreview(raw, max) = raw
           /\ Len(TruncateJSONPreview(raw, max)) <= 6 * max + 5
<1>1. Len(raw) \in Nat
  OBVIOUS
<1>2. CASE Len(raw) <= max
  BY <1>1, <1>2 DEF TruncateJSONPreview
<1>3. CASE ~(Len(raw) <= max)
  <2> DEFINE short == Broken(SubSeq(raw, 1, max))
             dots == Append(Append(Append(short, "plain"), "plain"), "plain")
             middle == WrittenBytes(dots)
  <2>1. short \in Seq(Byte) /\ Len(short) = max
    <3>1. SubSeq(raw, 1, max) \in Seq(Byte) /\ Len(SubSeq(raw, 1, max)) = max
      BY <1>1, <1>3
    <3> QED BY <3>1, BrokenFacts
  <2> HIDE DEF short
  <2>2. short \o <<"plain", "plain", "plain">> = dots
    BY <2>1, WrittenFacts
  <2>3. /\ TruncateJSONPreview(raw, max) = <<"quote">> \o middle \o <<"quote">>
    BY <1>3, <2>2 DEF TruncateJSONPreview, short, WrittenBytes
  <2>4. ASSUME NEW s \in Seq(Byte)
        PROVE  /\ Append(s, "plain") \in Seq(Byte)
               /\ WrittenBytes(s) \in Seq(Byte) /\ Len(WrittenBytes(s)) \in Nat
               /\ Len(WrittenBytes(Append(s, "plain"))) = Len(WrittenBytes(s)) + 1
    <3>1. WrittenBytes(s) \in Seq(Byte) /\ "plain" \in Byte
          /\ Written("plain") \in Seq(Byte) /\ Len(Written("plain")) = 1
      BY WrittenAppend, WrittenFacts
    <3>2. WrittenBytes(Append(s, "plain")) = Cat(WrittenBytes(s), Written("plain"))
      BY <3>1, WrittenAppend
    <3>3. Len(WrittenBytes(Append(s, "plain"))) = Len(WrittenBytes(s)) + Len(Written("plain"))
      BY <3>1, <3>2, CatLength
    <3>4. Append(s, "plain") \in Seq(Byte)
      BY <3>1
    <3>5. Len(WrittenBytes(s)) \in Nat
      BY <3>1
    <3>6. Len(WrittenBytes(Append(s, "plain"))) = Len(WrittenBytes(s)) + 1
      BY <3>1, <3>3
    <3> QED BY <3>1, <3>4, <3>5, <3>6
  <2>5. middle \in Seq(Byte) /\ Len(middle) = Len(WrittenBytes(short)) + 3
        /\ Len(WrittenBytes(short)) \in Nat
    <3>1. PICK a \in Seq(Byte) : a = Append(short, "plain")
      BY <2>1, <2>4
    <3>2. PICK b \in Seq(Byte) : b = Append(a, "plain")
      BY <2>4
    <3>3. PICK c \in Seq(Byte) : c = Append(b, "plain")
      BY <2>4
    <3>4. Len(WrittenBytes(a)) = Len(WrittenBytes(short)) + 1
      BY <2>1, <2>4, <3>1
    <3>5. Len(WrittenBytes(b)) = Len(WrittenBytes(a)) + 1
      BY <2>4, <3>2
    <3>6. Len(WrittenBytes(c)) = Len(WrittenBytes(b)) + 1 /\ WrittenBytes(c) \in Seq(Byte)
      BY <2>4, <3>3
    <3>7. Len(WrittenBytes(short)) \in Nat
      BY <2>1, <2>4
    <3>8. middle = WrittenBytes(c)
      BY <3>1, <3>2, <3>3
    <3> QED BY <3>4, <3>5, <3>6, <3>7, <3>8
  <2>6. Len(WrittenBytes(short)) <= 6 * max
    BY <2>1, WrittenLength
  <2> HIDE DEF middle
  <2>7. "quote" \in Byte
    BY WrittenFacts
  <2>8. <<"quote">> \o middle \o <<"quote">> \in Seq(Byte)
        /\ Len(<<"quote">> \o middle \o <<"quote">>) = Len(middle) + 2
    BY <2>5, <2>7
  <2> QED BY <1>1, <1>3, <2>3, <2>5, <2>6, <2>8
<1> QED BY <1>2, <1>3

-----------------------------------------------------------------------------
\* The events of a transcript, whose stop reason may be empty, and what is
\* kept of one when there is none.
Reason == STRING \cup {"", "nothing"}
TextEvent == [type : {"text"}, parts : Seq(Texts), stop : Reason]
ToolEvent == [type : {"tool", "result"}, data : Payload]
OtherEvent == [type : {"diagnostic", "invalid", "unknown", "title", "usage"}]
Event == TextEvent \cup ToolEvent \cup OtherEvent

\* What CutsMarked and WithinLimits say of one update and of the payload that it
\* carries, under the settings c.
Marked(u, data, c) ==
    LET compact == c["toolEvents"] = "compact"
        input == c["toolInputMaxBytes"]
        result == c["toolResultMaxBytes"]
        over == \/ u.type = "tool_call"
                     /\ (Len(data.raw) > HardMax \/ (compact /\ Len(data.raw) > input /\ input # 0))
                \/ u.type = "tool_call_update" /\
                      (\/ Len(data.text) > HardMax
                       \/ IF compact THEN Len(data.text) > result /\ result # 0
                                     ELSE Len(data.raw) > HardMax)
        whole == u.type = "tool_call" \/ c["toolEvents"] = "full"
    IN  /\ u.truncated <=> over
        /\ u.original = IF u.truncated THEN IF whole THEN Len(data.raw) ELSE Len(data.text) ELSE 0
        /\ ~u.truncated => /\ whole => u.raw = data.raw
                           /\ u.type = "tool_call_update" => u.content = Len(data.text)

LimitOf(c) ==
    LET result == c["toolResultMaxBytes"]
    IN  IF c["toolEvents"] = "compact" /\ result # 0 /\ result < HardMax THEN result ELSE HardMax

Limited(u, data, c) ==
    /\ u.content <= LimitOf(c) + 6
    /\ u.content > LimitOf(c) => u.truncated /\ Open(Cut(data.text, LimitOf(c))) > 0
    /\ Len(u.raw) <= 6 * HardMax + 5

\* The settings, one by one.
LEMMA ConfigParts ==
    ASSUME NEW c \in Configs
    PROVE  /\ c["toolEvents"] \in Modes
           /\ c["toolInputMaxBytes"] \in Nat /\ c["toolResultMaxBytes"] \in Nat
  BY DEF Configs

\* A tool call carries its input, cut and marked as the limits ask.
LEMMA CallFacts ==
    ASSUME NEW e, NEW data \in Payload, e = Tool(data), NEW c \in Configs
    PROVE  /\ CallUpdate(e, c) \in ToolUpdate
           /\ Marked(CallUpdate(e, c), data, c) /\ Limited(CallUpdate(e, c), data, c)
<1> DEFINE raw == data.raw
           max == c["toolInputMaxBytes"]
           over == Exceeds(c, "toolInputMaxBytes", Len(raw))
           limited == IF over THEN TruncateJSONPreview(raw, max) ELSE raw
           cut == TruncateJSONPreview(limited, HardMax)
           truncated == over \/ Len(limited) > HardMax
           u == CallUpdate(e, c)
<1>1. e.data = data /\ raw \in Seq(Byte) /\ Len(raw) \in Nat
  BY DEF Tool, Payload
<1>2. max \in Nat /\ HardMax \in Nat
  BY ConfigParts, HardMaxAssumption
<1>3. limited \in Seq(Byte) /\ Len(limited) \in Nat /\ (~over => limited = raw)
  <2>1. TruncateJSONPreview(raw, max) \in Seq(Byte)
    BY <1>1, <1>2, PreviewFacts
  <2> QED BY <1>1, <2>1
<1>4. /\ cut \in Seq(Byte) /\ (Len(limited) <= HardMax => cut = limited)
      /\ Len(cut) <= 6 * HardMax + 5
  <2> HIDE DEF limited
  <2> QED BY <1>2, <1>3, PreviewFacts
<1>5. over <=> c["toolEvents"] = "compact" /\ max # 0 /\ Len(raw) > max
  BY <1>1, <1>2 DEF Exceeds
<1>6. u = [type |-> "tool_call", raw |-> cut, content |-> 0, truncated |-> truncated,
           original |-> IF truncated THEN Len(raw) ELSE 0]
  BY <1>1 DEF CallUpdate
<1> HIDE DEF u, cut, limited, over, raw
<1>7. u.type = "tool_call" /\ u.raw = cut /\ u.content = 0 /\ u.truncated = truncated
      /\ u.original = IF truncated THEN Len(raw) ELSE 0
  BY <1>6
<1>8. u \in ToolUpdate
  <2>1. truncated \in BOOLEAN /\ (IF truncated THEN Len(raw) ELSE 0) \in Nat
    BY <1>1
  <2> QED BY <1>4, <1>6, <2>1 DEF ToolUpdate
<1>9. truncated <=> Len(raw) > HardMax \/ (c["toolEvents"] = "compact" /\ Len(raw) > max /\ max # 0)
  BY <1>1, <1>2, <1>3, <1>5
<1>10. ~truncated => cut = raw
  BY <1>1, <1>2, <1>3, <1>4
<1>11. Marked(u, data, c)
  <2>1. u.truncated <=> \/ u.type = "tool_call"
              /\ (Len(raw) > HardMax \/ (c["toolEvents"] = "compact" /\ Len(raw) > max /\ max # 0))
    BY <1>7, <1>9
  <2> HIDE DEF truncated
  <2> QED BY <1>7, <1>10, <2>1 DEF Marked, raw
<1>12. Limited(u, data, c)
  <2>1. LimitOf(c) \in Nat
    BY ConfigParts, HardMaxAssumption DEF LimitOf
  <2> QED BY <1>4, <1>7, <2>1 DEF Limited
<1> QED BY <1>8, <1>11, <1>12 DEF u

\* A result carries its text, and in full mode its JSON.
LEMMA ResultFacts ==
    ASSUME NEW e, NEW data \in Payload, e = Result(data), NEW c \in Configs,
           c["toolEvents"] # "off"
    PROVE  /\ ResultUpdate(e, c) \in ToolUpdate
           /\ Marked(ResultUpdate(e, c), data, c) /\ Limited(ResultUpdate(e, c), data, c)
<1> DEFINE max == c["toolResultMaxBytes"]
           compact == c["toolEvents"] = "compact"
           size == Len(data.text)
           over == Exceeds(c, "toolResultMaxBytes", size)
           text == IF over THEN Cut(data.text, max) ELSE data.text
           short == Cut(text, HardMax)
           raw == IF compact THEN <<>> ELSE data.raw
           cut == TruncateJSONPreview(raw, HardMax)
           truncated == over \/ Len(text) > HardMax \/ Len(raw) > HardMax
           u == ResultUpdate(e, c)
<1>1. /\ e.data = data /\ data.raw \in Seq(Byte) /\ Len(data.raw) \in Nat
      /\ data.text \in Seq(Byte) /\ size \in Nat /\ Open(data.text) = 0
  BY DEF Result, Payload, Whole
<1>2. max \in Nat /\ HardMax \in Nat
      /\ (compact \/ c["toolEvents"] = "full") /\ ~(compact /\ c["toolEvents"] = "full")
  BY ConfigParts, HardMaxAssumption DEF Modes
<1>3. over <=> compact /\ max # 0 /\ size > max
  BY <1>1, <1>2 DEF Exceeds
<1>4. raw \in Seq(Byte) /\ Len(raw) \in Nat
      /\ (compact => Len(raw) = 0) /\ (~compact => raw = data.raw)
  BY <1>1
<1>5. /\ cut \in Seq(Byte) /\ (Len(raw) <= HardMax => cut = raw)
      /\ Len(cut) <= 6 * HardMax + 5
  <2> HIDE DEF raw
  <2> QED BY <1>2, <1>4, PreviewFacts
<1>6. u = [type |-> "tool_call_update", raw |-> cut, content |-> Decoded(short),
           truncated |-> truncated,
           original |-> IF ~truncated THEN 0 ELSE IF compact THEN size ELSE Len(data.raw)]
  BY <1>1 DEF ResultUpdate
<1>7. /\ text \in Seq(Byte) /\ Len(text) \in Nat
      /\ Len(text) = IF over THEN max ELSE size
      /\ (~over => text = data.text) /\ (over => text = Cut(data.text, max))
  <2>1. /\ Cut(data.text, max) \in Seq(Byte) /\ Len(Cut(data.text, max)) \in Nat
        /\ Len(Cut(data.text, max)) = IF size > max THEN max ELSE size
    BY <1>1, <1>2, CutFacts
  <2>2. CASE over
    <3>1. text = Cut(data.text, max)
      BY <2>2
    <3> HIDE DEF text
    <3> QED BY <1>1, <1>3, <2>1, <2>2, <3>1
  <2>3. CASE ~over
    <3>1. text = data.text
      BY <2>3
    <3> HIDE DEF text
    <3> QED BY <1>1, <2>3, <3>1
  <2> QED BY <2>2, <2>3
<1> HIDE DEF u, cut, raw, over, text, size
<1>8. /\ short \in Seq(Byte) /\ Len(short) \in Nat
      /\ Len(short) = IF Len(text) > HardMax THEN HardMax ELSE Len(text)
      /\ Len(text) <= HardMax => short = text
  BY <1>2, <1>7, CutFacts
<1>9. short = Cut(data.text, LimitOf(c)) /\ LimitOf(c) \in Nat /\ Len(short) <= LimitOf(c)
      /\ (size <= LimitOf(c) => short = data.text)
      /\ (size > LimitOf(c) => truncated)
  <2>1. LimitOf(c) = IF compact /\ max # 0 /\ max < HardMax THEN max ELSE HardMax
    BY DEF LimitOf
  <2>2. LimitOf(c) \in Nat
    BY <1>2, <2>1
  <2>3. short = Cut(data.text, LimitOf(c))
    <3>1. CASE over /\ max < HardMax
      <4>1. short = text /\ LimitOf(c) = max
        BY <1>2, <1>3, <1>7, <1>8, <2>1, <3>1
      <4> QED BY <1>7, <3>1, <4>1
    <3>2. CASE over /\ max >= HardMax
      <4>1. LimitOf(c) = HardMax
        BY <1>2, <2>1, <3>2
      <4>2. Cut(Cut(data.text, max), HardMax) = Cut(data.text, HardMax)
        BY <1>1, <1>2, <3>2, CutTwice
      <4> QED BY <1>7, <3>2, <4>1, <4>2
    <3>3. CASE ~over /\ LimitOf(c) # HardMax
      <4>1. compact /\ max # 0 /\ max < HardMax /\ LimitOf(c) = max
        BY <2>1, <3>3
      <4>2. size <= max
        BY <1>1, <1>2, <1>3, <3>3, <4>1
      <4>3. Cut(data.text, max) = data.text
        BY <1>1, <1>2, <4>2, CutFacts DEF size
      <4>4. text = data.text /\ Len(text) = size
        BY <1>7, <3>3
      <4>5. short = text
        BY <1>1, <1>2, <1>8, <4>1, <4>2, <4>4
      <4> QED BY <4>1, <4>3, <4>4, <4>5
    <3>4. CASE ~over /\ LimitOf(c) = HardMax
      BY <1>7, <3>4
    <3> QED BY <1>2, <3>1, <3>2, <3>3, <3>4
  <2>4. Len(short) <= LimitOf(c) /\ (size <= LimitOf(c) => short = data.text)
    <3>1. /\ Len(Cut(data.text, LimitOf(c))) = IF size > LimitOf(c) THEN LimitOf(c) ELSE size
          /\ size <= LimitOf(c) => Cut(data.text, LimitOf(c)) = data.text
      BY <1>1, <2>2, CutFacts DEF size
    <3> HIDE DEF short
    <3> QED BY <1>1, <2>2, <2>3, <3>1
  <2>5. size > LimitOf(c) => truncated
    BY <1>1, <1>2, <1>3, <1>7, <2>1
  <2> QED BY <2>2, <2>3, <2>4, <2>5
<1>10. Open(short) \in 0 .. 3 /\ Decoded(short) = Len(short) + 2 * Open(short)
       /\ Decoded(short) \in Nat
  <2>1. Open(short) \in 0 .. 3
    BY <1>8, OpenRange
  <2> HIDE DEF short
  <2> QED BY <1>8, <2>1 DEF Decoded
<1> HIDE DEF short
<1>11. u.type = "tool_call_update" /\ u.raw = cut /\ u.content = Decoded(short)
       /\ u.truncated = truncated
       /\ u.original = IF ~truncated THEN 0 ELSE IF compact THEN size ELSE Len(data.raw)
  BY <1>6
<1>12. u \in ToolUpdate
  <2>1. truncated \in BOOLEAN
        /\ (IF ~truncated THEN 0 ELSE IF compact THEN size ELSE Len(data.raw)) \in Nat
    BY <1>1
  <2> QED BY <1>5, <1>6, <1>10, <2>1 DEF ToolUpdate
<1>13. truncated <=> \/ size > HardMax
                     \/ IF compact THEN size > max /\ max # 0 ELSE Len(data.raw) > HardMax
  BY <1>1, <1>2, <1>3, <1>4, <1>7
<1>14. ~truncated => (~compact => cut = data.raw) /\ Decoded(short) = size
  <2>1. ASSUME ~truncated PROVE Decoded(short) = size
    <3>1. short = data.text
      BY <1>1, <1>9, <2>1
    <3> QED BY <1>1, <1>10, <3>1 DEF size
  <2>2. ASSUME ~truncated, ~compact PROVE cut = data.raw
    BY <1>1, <1>2, <1>4, <1>5, <2>2
  <2> QED BY <2>1, <2>2
<1>15. Marked(u, data, c)
  <2> HIDE DEF truncated
  <2>1. u.type # "tool_call"
    BY <1>11
  <2> QED BY <1>2, <1>11, <1>13, <1>14, <2>1 DEF Marked, size
<1>16. Limited(u, data, c)
  <2>1. u.content <= LimitOf(c) + 6
    BY <1>8, <1>9, <1>10, <1>11
  <2>2. ASSUME u.content > LimitOf(c) PROVE u.truncated /\ Open(short) > 0
    <3>1. Open(short) > 0
      BY <1>8, <1>9, <1>10, <1>11, <2>2
    <3>2. ~(size <= LimitOf(c))
      BY <1>1, <1>9, <3>1
    <3>3. truncated
      BY <1>1, <1>9, <3>2
    <3> QED BY <1>11, <3>1, <3>3
  <2> HIDE DEF truncated
  <2> QED BY <1>5, <1>9, <1>11, <2>1, <2>2 DEF Limited
<1> QED BY <1>12, <1>15, <1>16 DEF u

\* A piece of the answer's text.
Chunk == [type : {"agent_message_chunk"}, parts : Seq(Texts)]

\* An update is a chunk of text, a tool update or none, and it is a tool update
\* exactly for a tool event of settings that do not turn them off.
LEMMA UpdateFacts ==
    ASSUME NEW e \in Event, NEW c \in Configs
    PROVE  /\ UpdateFromTranscriptEvent(e, c) \in Chunk \cup ToolUpdate \cup {NoUpdate}
           /\ UpdateFromTranscriptEvent(e, c) \in ToolUpdate
                  <=> e \in ToolEvent /\ c["toolEvents"] # "off"
           /\ e \in TextEvent /\ UpdateFromTranscriptEvent(e, c) # NoUpdate =>
                  UpdateFromTranscriptEvent(e, c) = [type |-> "agent_message_chunk", parts |-> e.parts]
<1> DEFINE u == UpdateFromTranscriptEvent(e, c)
<1>1. \A v \in ToolUpdate : v.type = "tool_call" \/ v.type = "tool_call_update"
  BY DEF ToolUpdate
<1>2. NoUpdate.type = "none"
  BY DEF NoUpdate
<1>3. CASE e \in TextEvent
  <2>1. e.type = "text" /\ e.parts \in Seq(Texts) /\ e \notin ToolEvent
    BY <1>3 DEF TextEvent, ToolEvent
  <2>2. u = ChunkUpdate(e)
    BY <2>1 DEF UpdateFromTranscriptEvent
  <2> DEFINE chunk == [type |-> "agent_message_chunk", parts |-> e.parts]
  <2>3. chunk \in Chunk /\ chunk.type = "agent_message_chunk"
    BY <2>1 DEF Chunk
  <2>4. u = NoUpdate \/ u = chunk
    BY <2>2 DEF ChunkUpdate
  <2> HIDE DEF u, chunk
  <2>5. u \notin ToolUpdate
    BY <1>1, <1>2, <2>3, <2>4
  <2> QED BY <2>1, <2>3, <2>4, <2>5 DEF u, chunk
<1>4. CASE e \in ToolEvent /\ c["toolEvents"] # "off"
  <2>1. e \notin TextEvent /\ e.data \in Payload /\ (e.type = "tool" \/ e.type = "result")
    BY <1>4 DEF TextEvent, ToolEvent
  <2>2. CASE e.type = "tool"
    <3>1. u = CallUpdate(e, c)
      BY <1>4, <2>2 DEF UpdateFromTranscriptEvent
    <3>2. e = Tool(e.data)
      BY <1>4, <2>2 DEF Tool, ToolEvent
    <3>3. u \in ToolUpdate
      BY <2>1, <3>1, <3>2, CallFacts
    <3> QED BY <1>4, <2>1, <3>3
  <2>3. CASE e.type = "result"
    <3>1. u = ResultUpdate(e, c)
      BY <1>4, <2>3 DEF UpdateFromTranscriptEvent
    <3>2. e = Result(e.data)
      BY <1>4, <2>3 DEF Result, ToolEvent
    <3>3. u \in ToolUpdate
      BY <1>4, <2>1, <3>1, <3>2, ResultFacts
    <3> QED BY <1>4, <2>1, <3>3
  <2> QED BY <2>1, <2>2, <2>3
<1>5. CASE e \notin TextEvent /\ ~(e \in ToolEvent /\ c["toolEvents"] # "off")
  <2>1. e.type # "text" /\ ~(e.type = "tool" /\ c["toolEvents"] # "off")
        /\ ~(e.type = "result" /\ c["toolEvents"] # "off")
    BY <1>5 DEF Event, TextEvent, ToolEvent, OtherEvent
  <2>2. u = NoUpdate
    BY <2>1 DEF UpdateFromTranscriptEvent
  <2>3. u \notin ToolUpdate
    BY <1>1, <1>2, <2>2
  <2> QED BY <1>5, <2>2, <2>3
<1> QED BY <1>3, <1>4, <1>5

\* What a client is sent.
Update == Chunk \cup ToolUpdate

\* An event more.
LEMMA ForwardType ==
    ASSUME NEW c \in Configs, NEW sent \in Seq(Update), NEW e \in Event
    PROVE  Forward(sent, e, c) \in Seq(Update)
<1>1. UpdateFromTranscriptEvent(e, c) # NoUpdate => UpdateFromTranscriptEvent(e, c) \in Update
  BY UpdateFacts DEF Update
<1> QED BY <1>1 DEF Forward

-----------------------------------------------------------------------------
\* The blocks of a line.
Acc == [events : Seq(Event), texts : Seq(Texts)]
Assisting(s) == FoldLeft(AssistantBlock, [events |-> <<>>, texts |-> <<>>], s)
Using(s) == FoldLeft(UserBlock, <<>>, s)

\* The events there are.
LEMMA EventForms ==
    /\ \A data \in Payload : Tool(data) \in Event /\ Result(data) \in Event
                             /\ Tool(data) \in ToolEvent /\ Result(data) \in ToolEvent
    /\ \A parts \in Seq(Texts) : \A stop \in Reason :
           Text(parts, stop) \in Event /\ Text(parts, stop) \in TextEvent
    /\ \A type \in {"diagnostic", "invalid", "unknown", "title", "usage"} :
           Other(type) \in Event /\ Other(type) \in OtherEvent
<1>1. ASSUME NEW data \in Payload PROVE Tool(data) \in ToolEvent /\ Result(data) \in ToolEvent
  BY DEF ToolEvent, Tool, Result
<1>2. ASSUME NEW parts \in Seq(Texts), NEW stop \in Reason PROVE Text(parts, stop) \in TextEvent
  BY DEF TextEvent, Text
<1>3. ASSUME NEW type \in {"diagnostic", "invalid", "unknown", "title", "usage"}
      PROVE  Other(type) \in OtherEvent
  BY DEF OtherEvent, Other
<1> QED BY <1>1, <1>2, <1>3 DEF Event

\* The texts so far become an event or stay none.
LEMMA FlushFacts ==
    ASSUME NEW acc \in Acc, NEW stop \in Reason
    PROVE  /\ Flush(acc, stop) \in Acc
           /\ Flush(acc, stop) =
                  IF acc.texts = <<>> /\ stop = "" THEN acc
                  ELSE [events |-> Append(acc.events, Text(acc.texts, stop)), texts |-> <<>>]
<1>1. Text(acc.texts, stop) \in Event /\ acc.events \in Seq(Event)
  BY EventForms DEF Acc
<1>2. <<>> \in Seq(Texts) /\ Append(acc.events, Text(acc.texts, stop)) \in Seq(Event)
  BY <1>1
<1> QED BY <1>2 DEF Flush, Acc

\* A block of an assistant line.
LEMMA AssistantType ==
    ASSUME NEW acc \in Acc, NEW b \in Blocks PROVE AssistantBlock(acc, b) \in Acc
<1>1. acc.events \in Seq(Event) /\ acc.texts \in Seq(Texts) /\ b.text \in Texts
      /\ Other("diagnostic") \in Event /\ Tool(b.data) \in Event
  BY EventForms DEF Acc, Blocks
<1>2. CASE b.type = "bad"
  <2>1. AssistantBlock(acc, b) = [acc EXCEPT !.events = Append(@, Other("diagnostic"))]
    BY <1>2 DEF AssistantBlock
  <2>2. Append(acc.events, Other("diagnostic")) \in Seq(Event)
    BY <1>1
  <2> QED BY <2>1, <2>2 DEF Acc
<1>3. CASE b.type = "text" /\ b.text # ""
  <2>1. AssistantBlock(acc, b) = [acc EXCEPT !.texts = Append(@, b.text)]
    BY <1>3 DEF AssistantBlock
  <2>2. Append(acc.texts, b.text) \in Seq(Texts)
    BY <1>1
  <2> QED BY <2>1, <2>2 DEF Acc
<1>4. CASE b.type = "tool_use"
  <2> DEFINE flushed == Flush(acc, "")
  <2>1. flushed \in Acc
    <3>1. "" \in Reason
      BY DEF Reason
    <3> QED BY <3>1, FlushFacts
  <2>2. AssistantBlock(acc, b) = [flushed EXCEPT !.events = Append(@, Tool(b.data))]
    BY <1>4 DEF AssistantBlock
  <2> HIDE DEF flushed
  <2>3. Append(flushed.events, Tool(b.data)) \in Seq(Event)
    BY <1>1, <2>1 DEF Acc
  <2> QED BY <2>1, <2>2, <2>3 DEF Acc
<1>5. CASE b.type # "bad" /\ ~(b.type = "text" /\ b.text # "") /\ b.type # "tool_use"
  BY <1>5 DEF AssistantBlock
<1> QED BY <1>2, <1>3, <1>4, <1>5

\* A block of a user line.
LEMMA UserType ==
    ASSUME NEW events \in Seq(Event), NEW b \in Blocks PROVE UserBlock(events, b) \in Seq(Event)
<1>1. Other("diagnostic") \in Event /\ Result(b.data) \in Event
  BY EventForms DEF Blocks
<1> QED BY <1>1 DEF UserBlock

\* An event that is collected.
Collected == [last : Reason, blank : BOOLEAN]

\* Its result.
LEMMA CollectType ==
    ASSUME NEW acc \in Collected, NEW e \in Event PROVE CollectEvent(acc, e) \in Collected
<1>1. CASE Collects(e)
  <2>1. e.stop \in Reason
    BY <1>1 DEF Collects, Event, TextEvent, ToolEvent, OtherEvent
  <2>2. Blank(e.parts) \in BOOLEAN /\ acc.blank \in BOOLEAN
    BY DEF Blank, Collected
  <2>3. CollectEvent(acc, e) = [last |-> e.stop, blank |-> acc.blank /\ Blank(e.parts)]
    BY <1>1 DEF CollectEvent
  <2>4. (acc.blank /\ Blank(e.parts)) \in BOOLEAN
    OBVIOUS
  <2> QED BY <2>1, <2>3, <2>4 DEF Collected
<1>2. CASE ~Collects(e)
  BY <1>2 DEF CollectEvent
<1> QED BY <1>1, <1>2

\* The updates of a line, event by event.
LEMMA UpdatesFold ==
    ASSUME NEW c \in Configs
    PROVE  /\ UpdatesOf(<<>>, c) = <<>>
           /\ \A s \in Seq(Event) : UpdatesOf(s, c) \in Seq(Update)
           /\ \A s \in Seq(Event) : \A x \in Event :
                  UpdatesOf(Append(s, x), c) = Forward(UpdatesOf(s, c), x, c)
<1> DEFINE step == [p \in Seq(Update) \X Event |-> Forward(p[1], p[2], c)]
           B == <<>>
<1>1. step \in [Seq(Update) \X Event -> Seq(Update)] /\ B \in Seq(Update)
      /\ \A acc \in Seq(Update) : \A x \in Event : step[<<acc, x>>] = Forward(acc, x, c)
  BY ForwardType, SMTT(20)
<1>2. ASSUME NEW s \in Seq(Event) PROVE UpdatesOf(s, c) = Folded(step, B, s)
  <2> DEFINE run == CHOOSE run : run = [S \in SUBSET DOMAIN s |->
                 IF S = {} THEN B ELSE Forward(run[S \ {Max(S)}], s[Max(S)], c)]
  <2>1. PICK g \in [SUBSET DOMAIN s -> Seq(Update)] : IsFold(g, s, B, step)
    <3> HIDE DEF step, B
    <3> QED BY <1>1, FoldExists
  <2>2. ASSUME NEW S \in SUBSET DOMAIN s
        PROVE  g[S] = IF S = {} THEN B ELSE Forward(g[S \ {Max(S)}], s[Max(S)], c)
    <3>1. CASE S # {}
      <4>1. Max(S) \in S
        <5>1. Len(s) \in Nat /\ DOMAIN s = 1 .. Len(s)
          OBVIOUS
        <5> QED BY <3>1, <5>1, Greatest
      <4>2. s[Max(S)] \in Event /\ g[S \ {Max(S)}] \in Seq(Update)
        BY <4>1
      <4>3. g[S] = step[<<g[S \ {Max(S)}], s[Max(S)]>>]
        <5> HIDE DEF step, B
        <5> QED BY <2>1, <3>1 DEF IsFold
      <4> HIDE DEF step, B
      <4> QED BY <1>1, <3>1, <4>2, <4>3
    <3>2. CASE S = {}
      <4> HIDE DEF step, B
      <4> QED BY <2>1, <3>2 DEF IsFold
    <3> QED BY <3>1, <3>2
  <2>3. run = [S \in SUBSET DOMAIN s |->
                 IF S = {} THEN B ELSE Forward(run[S \ {Max(S)}], s[Max(S)], c)]
    <3>1. g = [S \in SUBSET DOMAIN s |-> IF S = {} THEN B ELSE Forward(g[S \ {Max(S)}], s[Max(S)], c)]
      <4> HIDE DEF B
      <4> QED BY <2>2
    <3> QED BY <3>1, Zenon
  <2>4. UpdatesOf(s, c) = run[DOMAIN s]
    BY DEF UpdatesOf, FoldLeft, MapThenFoldSet
  <2> HIDE DEF run
  <2>5. Alike(run, g, Len(s)) /\ Len(s) \in Nat /\ DOMAIN s = 1 .. Len(s)
    <3> HIDE DEF B
    <3>1. Len(s) \in Nat /\ DOMAIN s = 1 .. Len(s)
      OBVIOUS
    <3> QED BY <2>2, <2>3, <3>1 DEF Alike
  <2>6. run[DOMAIN s] = g[DOMAIN s]
    BY <2>5, FoldsAgree
  <2> HIDE DEF step, B
  <2>7. Folded(step, B, s) = g[DOMAIN s]
    BY <2>1, FoldedIs
  <2> QED BY <2>4, <2>6, <2>7
<1>3. /\ Folded(step, B, <<>>) = B
      /\ \A s \in Seq(Event) : Folded(step, B, s) \in Seq(Update)
      /\ \A s \in Seq(Event) : \A x \in Event :
             Folded(step, B, Append(s, x)) = step[<<Folded(step, B, s), x>>]
  <2> HIDE DEF step, B
  <2>1. B \in Seq(Update) /\ step \in [Seq(Update) \X Event -> Seq(Update)]
    BY <1>1
  <2>2. StepByStep(step, B, Event, Seq(Update))
    BY <2>1, FoldedAppend
  <2> QED BY <2>2 DEF StepByStep
<1>4. UpdatesOf(<<>>, c) = B
  <2>1. <<>> \in Seq(Event)
    OBVIOUS
  <2> HIDE DEF step, B
  <2> QED BY <1>2, <1>3, <2>1
<1>5. ASSUME NEW s \in Seq(Event) PROVE UpdatesOf(s, c) \in Seq(Update)
  <2> HIDE DEF step, B
  <2> QED BY <1>2, <1>3
<1>6. ASSUME NEW s \in Seq(Event), NEW x \in Event PROVE UpdatesOf(Append(s, x), c) = Forward(UpdatesOf(s, c), x, c)
  <2> HIDE DEF step, B
  <2>1. Append(s, x) \in Seq(Event)
    OBVIOUS
  <2>2. UpdatesOf(Append(s, x), c) = step[<<Folded(step, B, s), x>>]
    BY <1>2, <1>3, <2>1
  <2> QED BY <1>1, <1>2, <1>5, <2>2
<1> QED BY <1>4, <1>5, <1>6

\* The blocks of an assistant line, one by one.
LEMMA AssistantFold ==
    ASSUME TRUE
    PROVE  /\ Assisting(<<>>) = [events |-> <<>>, texts |-> <<>>]
           /\ \A s \in Seq(Blocks) : Assisting(s) \in Acc
           /\ \A s \in Seq(Blocks) : \A x \in Blocks :
                  Assisting(Append(s, x)) = AssistantBlock(Assisting(s), x)
<1> DEFINE step == [p \in Acc \X Blocks |-> AssistantBlock(p[1], p[2])]
           B == [events |-> <<>>, texts |-> <<>>]
<1>1. step \in [Acc \X Blocks -> Acc] /\ B \in Acc
      /\ \A acc \in Acc : \A x \in Blocks : step[<<acc, x>>] = AssistantBlock(acc, x)
  BY AssistantType DEF Acc
<1>2. ASSUME NEW s \in Seq(Blocks) PROVE Assisting(s) = Folded(step, B, s)
  <2> DEFINE run == CHOOSE run : run = [S \in SUBSET DOMAIN s |->
                 IF S = {} THEN B ELSE AssistantBlock(run[S \ {Max(S)}], s[Max(S)])]
  <2>1. PICK g \in [SUBSET DOMAIN s -> Acc] : IsFold(g, s, B, step)
    <3> HIDE DEF step, B
    <3> QED BY <1>1, FoldExists
  <2>2. ASSUME NEW S \in SUBSET DOMAIN s
        PROVE  g[S] = IF S = {} THEN B ELSE AssistantBlock(g[S \ {Max(S)}], s[Max(S)])
    <3>1. CASE S # {}
      <4>1. Max(S) \in S
        <5>1. Len(s) \in Nat /\ DOMAIN s = 1 .. Len(s)
          OBVIOUS
        <5> QED BY <3>1, <5>1, Greatest
      <4>2. s[Max(S)] \in Blocks /\ g[S \ {Max(S)}] \in Acc
        BY <4>1
      <4>3. g[S] = step[<<g[S \ {Max(S)}], s[Max(S)]>>]
        <5> HIDE DEF step, B
        <5> QED BY <2>1, <3>1 DEF IsFold
      <4> HIDE DEF step, B
      <4> QED BY <1>1, <3>1, <4>2, <4>3
    <3>2. CASE S = {}
      <4> HIDE DEF step, B
      <4> QED BY <2>1, <3>2 DEF IsFold
    <3> QED BY <3>1, <3>2
  <2>3. run = [S \in SUBSET DOMAIN s |->
                 IF S = {} THEN B ELSE AssistantBlock(run[S \ {Max(S)}], s[Max(S)])]
    <3>1. g = [S \in SUBSET DOMAIN s |-> IF S = {} THEN B ELSE AssistantBlock(g[S \ {Max(S)}], s[Max(S)])]
      <4> HIDE DEF B
      <4> QED BY <2>2
    <3> QED BY <3>1, Zenon
  <2>4. Assisting(s) = run[DOMAIN s]
    BY DEF Assisting, FoldLeft, MapThenFoldSet
  <2> HIDE DEF run
  <2>5. Alike(run, g, Len(s)) /\ Len(s) \in Nat /\ DOMAIN s = 1 .. Len(s)
    <3> HIDE DEF B
    <3>1. Len(s) \in Nat /\ DOMAIN s = 1 .. Len(s)
      OBVIOUS
    <3> QED BY <2>2, <2>3, <3>1 DEF Alike
  <2>6. run[DOMAIN s] = g[DOMAIN s]
    BY <2>5, FoldsAgree
  <2> HIDE DEF step, B
  <2>7. Folded(step, B, s) = g[DOMAIN s]
    BY <2>1, FoldedIs
  <2> QED BY <2>4, <2>6, <2>7
<1>3. /\ Folded(step, B, <<>>) = B
      /\ \A s \in Seq(Blocks) : Folded(step, B, s) \in Acc
      /\ \A s \in Seq(Blocks) : \A x \in Blocks :
             Folded(step, B, Append(s, x)) = step[<<Folded(step, B, s), x>>]
  <2> HIDE DEF step, B
  <2>1. B \in Acc /\ step \in [Acc \X Blocks -> Acc]
    BY <1>1
  <2>2. StepByStep(step, B, Blocks, Acc)
    BY <2>1, FoldedAppend
  <2> QED BY <2>2 DEF StepByStep
<1>4. Assisting(<<>>) = B
  <2>1. <<>> \in Seq(Blocks)
    OBVIOUS
  <2> HIDE DEF step, B
  <2> QED BY <1>2, <1>3, <2>1
<1>5. ASSUME NEW s \in Seq(Blocks) PROVE Assisting(s) \in Acc
  <2> HIDE DEF step, B
  <2> QED BY <1>2, <1>3
<1>6. ASSUME NEW s \in Seq(Blocks), NEW x \in Blocks PROVE Assisting(Append(s, x)) = AssistantBlock(Assisting(s), x)
  <2> HIDE DEF step, B
  <2>1. Append(s, x) \in Seq(Blocks)
    OBVIOUS
  <2>2. Assisting(Append(s, x)) = step[<<Folded(step, B, s), x>>]
    BY <1>2, <1>3, <2>1
  <2> QED BY <1>1, <1>2, <1>5, <2>2
<1> QED BY <1>4, <1>5, <1>6

\* The blocks of a user line, one by one.
LEMMA UserFold ==
    ASSUME TRUE
    PROVE  /\ Using(<<>>) = <<>>
           /\ \A s \in Seq(Blocks) : Using(s) \in Seq(Event)
           /\ \A s \in Seq(Blocks) : \A x \in Blocks :
                  Using(Append(s, x)) = UserBlock(Using(s), x)
<1> DEFINE step == [p \in Seq(Event) \X Blocks |-> UserBlock(p[1], p[2])]
           B == <<>>
<1>1. step \in [Seq(Event) \X Blocks -> Seq(Event)] /\ B \in Seq(Event)
      /\ \A acc \in Seq(Event) : \A x \in Blocks : step[<<acc, x>>] = UserBlock(acc, x)
  BY UserType, SMTT(20)
<1>2. ASSUME NEW s \in Seq(Blocks) PROVE Using(s) = Folded(step, B, s)
  <2> DEFINE run == CHOOSE run : run = [S \in SUBSET DOMAIN s |->
                 IF S = {} THEN B ELSE UserBlock(run[S \ {Max(S)}], s[Max(S)])]
  <2>1. PICK g \in [SUBSET DOMAIN s -> Seq(Event)] : IsFold(g, s, B, step)
    <3> HIDE DEF step, B
    <3> QED BY <1>1, FoldExists
  <2>2. ASSUME NEW S \in SUBSET DOMAIN s
        PROVE  g[S] = IF S = {} THEN B ELSE UserBlock(g[S \ {Max(S)}], s[Max(S)])
    <3>1. CASE S # {}
      <4>1. Max(S) \in S
        <5>1. Len(s) \in Nat /\ DOMAIN s = 1 .. Len(s)
          OBVIOUS
        <5> QED BY <3>1, <5>1, Greatest
      <4>2. s[Max(S)] \in Blocks /\ g[S \ {Max(S)}] \in Seq(Event)
        BY <4>1
      <4>3. g[S] = step[<<g[S \ {Max(S)}], s[Max(S)]>>]
        <5> HIDE DEF step, B
        <5> QED BY <2>1, <3>1 DEF IsFold
      <4> HIDE DEF step, B
      <4> QED BY <1>1, <3>1, <4>2, <4>3
    <3>2. CASE S = {}
      <4> HIDE DEF step, B
      <4> QED BY <2>1, <3>2 DEF IsFold
    <3> QED BY <3>1, <3>2
  <2>3. run = [S \in SUBSET DOMAIN s |->
                 IF S = {} THEN B ELSE UserBlock(run[S \ {Max(S)}], s[Max(S)])]
    <3>1. g = [S \in SUBSET DOMAIN s |-> IF S = {} THEN B ELSE UserBlock(g[S \ {Max(S)}], s[Max(S)])]
      <4> HIDE DEF B
      <4> QED BY <2>2
    <3> QED BY <3>1, Zenon
  <2>4. Using(s) = run[DOMAIN s]
    BY DEF Using, FoldLeft, MapThenFoldSet
  <2> HIDE DEF run
  <2>5. Alike(run, g, Len(s)) /\ Len(s) \in Nat /\ DOMAIN s = 1 .. Len(s)
    <3> HIDE DEF B
    <3>1. Len(s) \in Nat /\ DOMAIN s = 1 .. Len(s)
      OBVIOUS
    <3> QED BY <2>2, <2>3, <3>1 DEF Alike
  <2>6. run[DOMAIN s] = g[DOMAIN s]
    BY <2>5, FoldsAgree
  <2> HIDE DEF step, B
  <2>7. Folded(step, B, s) = g[DOMAIN s]
    BY <2>1, FoldedIs
  <2> QED BY <2>4, <2>6, <2>7
<1>3. /\ Folded(step, B, <<>>) = B
      /\ \A s \in Seq(Blocks) : Folded(step, B, s) \in Seq(Event)
      /\ \A s \in Seq(Blocks) : \A x \in Blocks :
             Folded(step, B, Append(s, x)) = step[<<Folded(step, B, s), x>>]
  <2> HIDE DEF step, B
  <2>1. B \in Seq(Event) /\ step \in [Seq(Event) \X Blocks -> Seq(Event)]
    BY <1>1
  <2>2. StepByStep(step, B, Blocks, Seq(Event))
    BY <2>1, FoldedAppend
  <2> QED BY <2>2 DEF StepByStep
<1>4. Using(<<>>) = B
  <2>1. <<>> \in Seq(Blocks)
    OBVIOUS
  <2> HIDE DEF step, B
  <2> QED BY <1>2, <1>3, <2>1
<1>5. ASSUME NEW s \in Seq(Blocks) PROVE Using(s) \in Seq(Event)
  <2> HIDE DEF step, B
  <2> QED BY <1>2, <1>3
<1>6. ASSUME NEW s \in Seq(Blocks), NEW x \in Blocks PROVE Using(Append(s, x)) = UserBlock(Using(s), x)
  <2> HIDE DEF step, B
  <2>1. Append(s, x) \in Seq(Blocks)
    OBVIOUS
  <2>2. Using(Append(s, x)) = step[<<Folded(step, B, s), x>>]
    BY <1>2, <1>3, <2>1
  <2> QED BY <1>1, <1>2, <1>5, <2>2
<1> QED BY <1>4, <1>5, <1>6

\* What is collected, event by event.
LEMMA CollectFold ==
    ASSUME NEW c \in Collected
    PROVE  /\ Collect(c, <<>>) = c
           /\ \A s \in Seq(Event) : Collect(c, s) \in Collected
           /\ \A s \in Seq(Event) : \A x \in Event :
                  Collect(c, Append(s, x)) = CollectEvent(Collect(c, s), x)
<1> DEFINE step == [p \in Collected \X Event |-> CollectEvent(p[1], p[2])]
           B == c
<1>1. step \in [Collected \X Event -> Collected] /\ B \in Collected
      /\ \A acc \in Collected : \A x \in Event : step[<<acc, x>>] = CollectEvent(acc, x)
  BY CollectType
<1>2. ASSUME NEW s \in Seq(Event) PROVE Collect(c, s) = Folded(step, B, s)
  <2> DEFINE run == CHOOSE run : run = [S \in SUBSET DOMAIN s |->
                 IF S = {} THEN B ELSE CollectEvent(run[S \ {Max(S)}], s[Max(S)])]
  <2>1. PICK g \in [SUBSET DOMAIN s -> Collected] : IsFold(g, s, B, step)
    <3> HIDE DEF step, B
    <3> QED BY <1>1, FoldExists
  <2>2. ASSUME NEW S \in SUBSET DOMAIN s
        PROVE  g[S] = IF S = {} THEN B ELSE CollectEvent(g[S \ {Max(S)}], s[Max(S)])
    <3>1. CASE S # {}
      <4>1. Max(S) \in S
        <5>1. Len(s) \in Nat /\ DOMAIN s = 1 .. Len(s)
          OBVIOUS
        <5> QED BY <3>1, <5>1, Greatest
      <4>2. s[Max(S)] \in Event /\ g[S \ {Max(S)}] \in Collected
        BY <4>1
      <4>3. g[S] = step[<<g[S \ {Max(S)}], s[Max(S)]>>]
        <5> HIDE DEF step, B
        <5> QED BY <2>1, <3>1 DEF IsFold
      <4> HIDE DEF step, B
      <4> QED BY <1>1, <3>1, <4>2, <4>3
    <3>2. CASE S = {}
      <4> HIDE DEF step, B
      <4> QED BY <2>1, <3>2 DEF IsFold
    <3> QED BY <3>1, <3>2
  <2>3. run = [S \in SUBSET DOMAIN s |->
                 IF S = {} THEN B ELSE CollectEvent(run[S \ {Max(S)}], s[Max(S)])]
    <3>1. g = [S \in SUBSET DOMAIN s |-> IF S = {} THEN B ELSE CollectEvent(g[S \ {Max(S)}], s[Max(S)])]
      <4> HIDE DEF B
      <4> QED BY <2>2
    <3> QED BY <3>1, Zenon
  <2>4. Collect(c, s) = run[DOMAIN s]
    BY DEF Collect, FoldLeft, MapThenFoldSet
  <2> HIDE DEF run
  <2>5. Alike(run, g, Len(s)) /\ Len(s) \in Nat /\ DOMAIN s = 1 .. Len(s)
    <3> HIDE DEF B
    <3>1. Len(s) \in Nat /\ DOMAIN s = 1 .. Len(s)
      OBVIOUS
    <3> QED BY <2>2, <2>3, <3>1 DEF Alike
  <2>6. run[DOMAIN s] = g[DOMAIN s]
    BY <2>5, FoldsAgree
  <2> HIDE DEF step, B
  <2>7. Folded(step, B, s) = g[DOMAIN s]
    BY <2>1, FoldedIs
  <2> QED BY <2>4, <2>6, <2>7
<1>3. /\ Folded(step, B, <<>>) = B
      /\ \A s \in Seq(Event) : Folded(step, B, s) \in Collected
      /\ \A s \in Seq(Event) : \A x \in Event :
             Folded(step, B, Append(s, x)) = step[<<Folded(step, B, s), x>>]
  <2> HIDE DEF step, B
  <2>1. B \in Collected /\ step \in [Collected \X Event -> Collected]
    BY <1>1
  <2>2. StepByStep(step, B, Event, Collected)
    BY <2>1, FoldedAppend
  <2> QED BY <2>2 DEF StepByStep
<1>4. Collect(c, <<>>) = B
  <2>1. <<>> \in Seq(Event)
    OBVIOUS
  <2> HIDE DEF step, B
  <2> QED BY <1>2, <1>3, <2>1
<1>5. ASSUME NEW s \in Seq(Event) PROVE Collect(c, s) \in Collected
  <2> HIDE DEF step, B
  <2> QED BY <1>2, <1>3
<1>6. ASSUME NEW s \in Seq(Event), NEW x \in Event PROVE Collect(c, Append(s, x)) = CollectEvent(Collect(c, s), x)
  <2> HIDE DEF step, B
  <2>1. Append(s, x) \in Seq(Event)
    OBVIOUS
  <2>2. Collect(c, Append(s, x)) = step[<<Folded(step, B, s), x>>]
    BY <1>2, <1>3, <2>1
  <2> QED BY <1>1, <1>2, <1>5, <2>2
<1> QED BY <1>4, <1>5, <1>6

-----------------------------------------------------------------------------
\* The events of a line.  Lines of the answer: its assistant lines that decode.
Answering(r) == r.type = "assistant" /\ ~r.broken /\ r.role = "assistant"
Usage(r) == IF r.usage THEN <<Other("usage")>> ELSE <<>>

\* What each kind of line becomes.
LEMMA ParseCases ==
    ASSUME NEW r \in Lines
    PROVE  /\ Answering(r) => ParseTranscriptEvents(r) =
                                  Cat(Flush(Assisting(r.blocks), r.stop).events, Usage(r))
           /\ r.type = "user" /\ ~r.broken => ParseTranscriptEvents(r) = Using(r.blocks)
           /\ ~Answering(r) /\ ~(r.type = "user" /\ ~r.broken) =>
                  \/ ParseTranscriptEvents(r) = <<>>
                  \/ \E e \in OtherEvent : ParseTranscriptEvents(r) = <<e>>
<1>1. ASSUME Answering(r)
      PROVE  ParseTranscriptEvents(r) = Cat(Flush(Assisting(r.blocks), r.stop).events, Usage(r))
  BY <1>1 DEF Answering, ParseTranscriptEvents, Cat, Usage, AssistantEvents, Assisting
<1>2. ASSUME r.type = "user" /\ ~r.broken PROVE ParseTranscriptEvents(r) = Using(r.blocks)
  BY <1>2 DEF ParseTranscriptEvents, Using
<1>3. ASSUME ~Answering(r), ~(r.type = "user" /\ ~r.broken)
      PROVE  \/ ParseTranscriptEvents(r) = <<>>
             \/ \E e \in OtherEvent : ParseTranscriptEvents(r) = <<e>>
  <2>1. r.type \in {"ignored", "invalid", "unknown", "title", "assistant", "user"}
    BY DEF Lines
  <2>2. CASE r.type = "ignored"
    BY <2>2 DEF ParseTranscriptEvents
  <2>3. CASE r.type \in {"invalid", "unknown", "title"}
    <3>1. ParseTranscriptEvents(r) = <<Other(r.type)>>
      BY <2>3 DEF ParseTranscriptEvents
    <3>2. Other(r.type) \in OtherEvent
      BY <2>3, EventForms
    <3> QED BY <3>1, <3>2
  <2>4. CASE r.type \in {"assistant", "user"} /\ r.broken
    <3>1. ParseTranscriptEvents(r) = <<Other("diagnostic")>>
      BY <2>4 DEF ParseTranscriptEvents
    <3>2. Other("diagnostic") \in OtherEvent
      BY EventForms
    <3> QED BY <3>1, <3>2
  <2>5. CASE r.type = "assistant" /\ ~r.broken
    BY <1>3, <2>5 DEF ParseTranscriptEvents, Answering
  <2> QED BY <1>3, <2>1, <2>2, <2>3, <2>4, <2>5
<1> QED BY <1>1, <1>2, <1>3

\* The parts of a line.
LEMMA LineParts ==
    ASSUME NEW r \in Lines
    PROVE  r.blocks \in Seq(Blocks) /\ r.stop \in Reason
  BY DEF Lines, Reason

\* An event before the last flush of a line: no text has a stop reason.
Early == {e \in Event : e.type = "text" => e.stop = ""}

\* The events of the blocks of an assistant line, before the last flush.
LEMMA AssistantEarly == \A s \in Seq(Blocks) : Assisting(s).events \in Seq(Early)
<1> DEFINE T == {s \in Seq(Blocks) : Assisting(s).events \in Seq(Early)}
<1>1. <<>> \in T
  <2>1. Assisting(<<>>) = [events |-> <<>>, texts |-> <<>>]
    BY AssistantFold
  <2>2. <<>> \in Seq(Blocks) /\ <<>> \in Seq(Early)
    OBVIOUS
  <2>3. Assisting(<<>>).events = <<>>
    BY <2>1
  <2>4. Assisting(<<>>).events \in Seq(Early)
    BY <2>2, <2>3
  <2> QED BY <2>2, <2>4
<1>2. ASSUME NEW s \in Seq(Blocks), NEW b \in Blocks, s \in T PROVE Append(s, b) \in T
  <2> DEFINE acc == Assisting(s)
  <2>1. acc \in Acc /\ Assisting(Append(s, b)) = AssistantBlock(acc, b)
    BY AssistantFold
  <2>2. acc.events \in Seq(Early)
    BY <1>2
  <2> HIDE DEF acc
  <2>3. Other("diagnostic") \in Early /\ Tool(b.data) \in Early /\ Text(acc.texts, "") \in Early
    <3>1. b.data \in Payload /\ acc.texts \in Seq(Texts) /\ "" \in Reason
      BY <2>1 DEF Blocks, Acc, Reason
    <3>2. Other("diagnostic") \in Event /\ Tool(b.data) \in Event /\ Text(acc.texts, "") \in Event
      BY <3>1, EventForms
    <3>3. Other("diagnostic").type # "text" /\ Tool(b.data).type # "text"
          /\ Text(acc.texts, "").stop = ""
      BY DEF Other, Tool, Text
    <3> QED BY <3>2, <3>3 DEF Early
  <2>6. ASSUME NEW es \in Seq(Early), NEW e \in Early PROVE Append(es, e) \in Seq(Early)
    OBVIOUS
  <2>4. AssistantBlock(acc, b).events \in Seq(Early)
    <3>1. CASE b.type = "bad"
      <4>1. AssistantBlock(acc, b).events = Append(acc.events, Other("diagnostic"))
        BY <2>1, <3>1 DEF AssistantBlock, Acc
      <4>2. Append(acc.events, Other("diagnostic")) \in Seq(Early)
        BY <2>2, <2>3, <2>6
      <4> QED BY <4>1, <4>2
    <3>2. CASE b.type = "text" /\ b.text # ""
      <4>1. AssistantBlock(acc, b).events = acc.events
        BY <2>1, <3>2 DEF AssistantBlock, Acc
      <4> QED BY <2>2, <4>1
    <3>3. CASE b.type = "tool_use"
      <4> DEFINE flushed == Flush(acc, "")
      <4>1. /\ flushed \in Acc
            /\ flushed = IF acc.texts = <<>> THEN acc
                         ELSE [events |-> Append(acc.events, Text(acc.texts, "")), texts |-> <<>>]
        <5>1. "" \in Reason
          BY DEF Reason
        <5> QED BY <2>1, <5>1, FlushFacts
      <4>2. AssistantBlock(acc, b) = [flushed EXCEPT !.events = Append(@, Tool(b.data))]
        BY <3>3 DEF AssistantBlock
      <4> HIDE DEF flushed
      <4>5. flushed.events = acc.events
            \/ flushed.events = Append(acc.events, Text(acc.texts, ""))
        <5>1. CASE acc.texts = <<>>
          BY <4>1, <5>1
        <5>2. CASE acc.texts # <<>>
          <6>1. flushed = [events |-> Append(acc.events, Text(acc.texts, "")), texts |-> <<>>]
            BY <4>1, <5>2
          <6>2. flushed.events = Append(acc.events, Text(acc.texts, ""))
            BY <6>1
          <6> QED BY <6>2
        <5> QED BY <5>1, <5>2
      <4>3. AssistantBlock(acc, b).events = Append(flushed.events, Tool(b.data))
        BY <4>1, <4>2 DEF Acc
      <4>4. flushed.events \in Seq(Early)
        <5>1. Append(acc.events, Text(acc.texts, "")) \in Seq(Early)
          BY <2>2, <2>3, <2>6
        <5> QED BY <2>2, <4>5, <5>1
      <4>6. Append(flushed.events, Tool(b.data)) \in Seq(Early)
        BY <2>3, <2>6, <4>4
      <4> QED BY <4>3, <4>6
    <3>4. CASE b.type # "bad" /\ ~(b.type = "text" /\ b.text # "") /\ b.type # "tool_use"
      <4>1. AssistantBlock(acc, b) = acc
        BY <3>4 DEF AssistantBlock
      <4> QED BY <2>2, <4>1
    <3> QED BY <3>1, <3>2, <3>3, <3>4
  <2>5. Append(s, b) \in Seq(Blocks)
    OBVIOUS
  <2> QED BY <2>1, <2>4, <2>5
<1> HIDE DEF T
<1>3. \A s \in Seq(Blocks) : s \in T
  BY <1>1, <1>2, SequenceInduction
<1> QED BY <1>3 DEF T

\* An event that is no text.
Textless == Event \ TextEvent

\* A user line has only such events.
LEMMA UserEarly == \A s \in Seq(Blocks) : Using(s) \in Seq(Textless)
<1> DEFINE T == {s \in Seq(Blocks) : Using(s) \in Seq(Textless)}
<1>1. <<>> \in T
  <2>1. Using(<<>>) = <<>>
    BY UserFold
  <2>2. <<>> \in Seq(Blocks) /\ <<>> \in Seq(Textless)
    OBVIOUS
  <2> QED BY <2>1, <2>2
<1>2. ASSUME NEW s \in Seq(Blocks), NEW b \in Blocks, s \in T PROVE Append(s, b) \in T
  <2>1. Using(Append(s, b)) = UserBlock(Using(s), b)
    BY UserFold
  <2>2. Other("diagnostic") \in Textless /\ Result(b.data) \in Textless
    <3>1. Other("diagnostic") \in Event /\ Result(b.data) \in Event
      BY EventForms DEF Blocks
    <3>2. Other("diagnostic").type # "text" /\ Result(b.data).type # "text"
      BY DEF Other, Result
    <3> QED BY <3>1, <3>2 DEF TextEvent, Textless
  <2>3. UserBlock(Using(s), b) \in Seq(Textless)
    BY <1>2, <2>2 DEF UserBlock
  <2>4. Append(s, b) \in Seq(Blocks)
    OBVIOUS
  <2> QED BY <2>1, <2>3, <2>4
<1> HIDE DEF T
<1>3. \A s \in Seq(Blocks) : s \in T
  BY <1>1, <1>2, SequenceInduction
<1> QED BY <1>3 DEF T

\* The last flush of an assistant line.
LEMMA LastFlush ==
    ASSUME NEW r \in Lines
    PROVE  /\ Flush(Assisting(r.blocks), r.stop).events \in Seq(Event)
           /\ Flush(Assisting(r.blocks), r.stop).events =
                  IF Assisting(r.blocks).texts = <<>> /\ r.stop = ""
                  THEN Assisting(r.blocks).events
                  ELSE Append(Assisting(r.blocks).events,
                              Text(Assisting(r.blocks).texts, r.stop))
           /\ Assisting(r.blocks) \in Acc /\ Text(Assisting(r.blocks).texts, r.stop) \in TextEvent
<1> DEFINE acc == Assisting(r.blocks)
<1>1. r.blocks \in Seq(Blocks) /\ r.stop \in Reason
  BY LineParts
<1>2. acc \in Acc
  BY <1>1, AssistantFold
<1> HIDE DEF acc
<1>3. /\ Flush(acc, r.stop) \in Acc
      /\ Flush(acc, r.stop) = IF acc.texts = <<>> /\ r.stop = "" THEN acc
                  ELSE [events |-> Append(acc.events, Text(acc.texts, r.stop)), texts |-> <<>>]
  BY <1>1, <1>2, FlushFacts
<1>4. Text(acc.texts, r.stop) \in TextEvent
  BY <1>1, <1>2, EventForms DEF Acc
<1>5. Flush(acc, r.stop).events \in Seq(Event)
  BY <1>3 DEF Acc
<1>6. Flush(acc, r.stop).events =
          IF acc.texts = <<>> /\ r.stop = "" THEN acc.events
          ELSE Append(acc.events, Text(acc.texts, r.stop))
  <2>1. CASE acc.texts = <<>> /\ r.stop = ""
    BY <1>3, <2>1
  <2>2. CASE ~(acc.texts = <<>> /\ r.stop = "")
    <3>1. Flush(acc, r.stop) =
              [events |-> Append(acc.events, Text(acc.texts, r.stop)), texts |-> <<>>]
      BY <1>3, <2>2
    <3>2. Flush(acc, r.stop).events = Append(acc.events, Text(acc.texts, r.stop))
      BY <3>1
    <3> QED BY <2>2, <3>2
  <2> QED BY <2>1, <2>2
<1> QED BY <1>2, <1>4, <1>5, <1>6 DEF acc

\* A line becomes events.
LEMMA ParseType == \A r \in Lines : ParseTranscriptEvents(r) \in Seq(Event)
<1> SUFFICES ASSUME NEW r \in Lines PROVE ParseTranscriptEvents(r) \in Seq(Event)
  OBVIOUS
<1>1. CASE Answering(r)
  <2>1. Flush(Assisting(r.blocks), r.stop).events \in Seq(Event)
    BY LastFlush
  <2>2. Usage(r) \in Seq(Event)
    BY EventForms DEF Usage
  <2>3. Cat(Flush(Assisting(r.blocks), r.stop).events, Usage(r)) \in Seq(Event)
    BY <2>1, <2>2, Cats
  <2> QED BY <1>1, <2>3, ParseCases
<1>2. CASE r.type = "user" /\ ~r.broken
  <2>1. Using(r.blocks) \in Seq(Event)
    BY LineParts, UserFold
  <2> QED BY <1>2, <2>1, ParseCases
<1>3. CASE ~Answering(r) /\ ~(r.type = "user" /\ ~r.broken)
  <2>1. CASE ParseTranscriptEvents(r) = <<>>
    BY <2>1
  <2>2. CASE \E e \in OtherEvent : ParseTranscriptEvents(r) = <<e>>
    <3>1. PICK e \in OtherEvent : ParseTranscriptEvents(r) = <<e>>
      BY <2>2
    <3>2. e \in Event
      BY DEF Event
    <3> QED BY <3>1, <3>2
  <2> QED BY <1>3, <2>1, <2>2, ParseCases
<1> QED BY <1>1, <1>2, <1>3

\* Two sequences, element by element.
LEMMA CatElements ==
    ASSUME NEW X, NEW s \in Seq(X), NEW t \in Seq(X)
    PROVE  /\ Len(Cat(s, t)) = Len(s) + Len(t) /\ Cat(s, t) \in Seq(X)
           /\ \A k \in 1 .. Len(s) : Cat(s, t)[k] = s[k]
           /\ \A k \in 1 .. Len(t) : Cat(s, t)[Len(s) + k] = t[k]
  BY DEF Cat

\* The last text that is collected says what a line is to the turn.
Kept(events) == {k \in DOMAIN events : Collects(events[k])}

\* What is collected of a sequence is not changed by events after it that are not.
LEMMA KeptOfCat ==
    ASSUME NEW s \in Seq(Event), NEW t \in Seq(Event), \A k \in DOMAIN t : ~Collects(t[k])
    PROVE  /\ Kept(Cat(s, t)) = Kept(s)
           /\ \A k \in Kept(s) : Cat(s, t)[k] = s[k]
<1> DEFINE c == Cat(s, t)
<1>1. /\ Len(s) \in Nat /\ DOMAIN s = 1 .. Len(s)
      /\ Len(t) \in Nat /\ DOMAIN t = 1 .. Len(t)
  OBVIOUS
<1>2. /\ c \in Seq(Event) /\ Len(c) = Len(s) + Len(t)
      /\ \A k \in 1 .. Len(s) : c[k] = s[k]
      /\ \A k \in 1 .. Len(t) : c[Len(s) + k] = t[k]
  <2>1. c \in Seq(Event) /\ Len(c) = Len(s) + Len(t)
    BY CatElements
  <2>2. \A k \in 1 .. Len(s) : c[k] = s[k]
    BY CatElements
  <2>3. \A k \in 1 .. Len(t) : c[Len(s) + k] = t[k]
    BY CatElements
  <2> QED BY <2>1, <2>2, <2>3
<1> HIDE DEF c
<1>3. DOMAIN c = 1 .. Len(s) + Len(t)
  BY <1>2
<1>4. ASSUME NEW k \in Kept(s) PROVE k \in Kept(c) /\ c[k] = s[k]
  <2>1. k \in 1 .. Len(s) /\ Collects(s[k])
    BY <1>1 DEF Kept
  <2>2. k \in DOMAIN c /\ c[k] = s[k]
    BY <1>1, <1>2, <1>3, <2>1
  <2> QED BY <2>1, <2>2 DEF Kept
<1>5. ASSUME NEW k \in Kept(c) PROVE k \in Kept(s)
  <2>1. k \in 1 .. Len(s) + Len(t) /\ Collects(c[k])
    BY <1>3 DEF Kept
  <2>2. CASE k \in 1 .. Len(s)
    BY <1>1, <1>2, <2>1, <2>2 DEF Kept
  <2>3. CASE k \notin 1 .. Len(s)
    <3>1. k - Len(s) \in 1 .. Len(t) /\ Len(s) + (k - Len(s)) = k
      BY <1>1, <2>1, <2>3
    <3>2. PICK i \in 1 .. Len(t) : Len(s) + i = k
      BY <3>1
    <3>3. c[k] = t[i]
      BY <1>2, <3>2
    <3> QED BY <1>1, <2>1, <3>3
  <2> QED BY <2>2, <2>3
<1> QED BY <1>4, <1>5 DEF c

\* A line without text events ends nothing.
LEMMA NoTextNoEnd ==
    ASSUME NEW r, NEW events, ParseTranscriptEvents(r) = events, Kept(events) = {}
    PROVE  KindOf(r) # "final"
  BY DEF KindOf, Kept

\* A line with one ends the turn if the last one's reason is terminal.
LEMMA LastTextEnds ==
    ASSUME NEW r, NEW events, ParseTranscriptEvents(r) = events, Kept(events) # {}
    PROVE  KindOf(r) = "final" <=> events[Max(Kept(events))].stop \in Terminal
  BY DEF KindOf, Kept

\* A line ends the turn exactly if it is an answer with a terminal stop reason.
LEMMA KindFacts ==
    ASSUME NEW r \in Lines
    PROVE  KindOf(r) = "final" <=> Answering(r) /\ r.stop \in Terminal
<1> DEFINE events == ParseTranscriptEvents(r)
<1>1. events \in Seq(Event)
  BY ParseType
<1>2. ASSUME NEW e \in Textless PROVE ~Collects(e)
  BY DEF Collects, Event, TextEvent, ToolEvent, OtherEvent, Textless
<1>3. CASE r.type = "user" /\ ~r.broken
  <2>1. events \in Seq(Textless)
    BY <1>3, ParseCases, LineParts, UserEarly
  <2> HIDE DEF events
  <2>2. Kept(events) = {}
    BY <1>2, <2>1 DEF Kept
  <2>3. KindOf(r) # "final"
    BY <2>2, NoTextNoEnd DEF events
  <2> QED BY <1>3, <2>3 DEF Answering
<1>4. CASE ~Answering(r) /\ ~(r.type = "user" /\ ~r.broken)
  <2>1. events = <<>> \/ \E e \in OtherEvent : events = <<e>>
    BY <1>4, ParseCases
  <2> HIDE DEF events
  <2>2. Kept(events) = {}
    <3>1. CASE events = <<>>
      BY <3>1 DEF Kept
    <3>2. CASE \E e \in OtherEvent : events = <<e>>
      <4>1. PICK e \in OtherEvent : events = <<e>>
        BY <3>2
      <4>2. e \in Textless
        BY DEF Event, TextEvent, OtherEvent, Textless
      <4>3. \A k \in DOMAIN events : events[k] = e
        BY <4>1
      <4> QED BY <1>2, <4>2, <4>3 DEF Kept
    <3> QED BY <2>1, <3>1, <3>2
  <2>3. KindOf(r) # "final"
    BY <2>2, NoTextNoEnd DEF events
  <2> QED BY <1>4, <2>3
<1>5. CASE Answering(r)
  <2> DEFINE acc == Assisting(r.blocks)
             es == acc.events
             text == Text(acc.texts, r.stop)
             flushed == Flush(acc, r.stop).events
  <2>1. es \in Seq(Early) /\ text \in TextEvent /\ flushed \in Seq(Event)
    BY LineParts, AssistantEarly, LastFlush
  <2>2. /\ acc.texts = <<>> /\ r.stop = "" => flushed = es
        /\ ~(acc.texts = <<>> /\ r.stop = "") => flushed = Append(es, text)
    BY LastFlush
  <2>3. Kept(events) = Kept(flushed) /\ \A k \in Kept(flushed) : events[k] = flushed[k]
    <3>1. Other("usage") \in Event /\ ~Collects(Other("usage"))
      BY EventForms DEF Other, Collects
    <3>2. Usage(r) \in Seq(Event) /\ \A k \in DOMAIN Usage(r) : ~Collects(Usage(r)[k])
      BY <3>1 DEF Usage
    <3>3. events = Cat(flushed, Usage(r))
      BY <1>5, ParseCases
    <3> HIDE DEF flushed, events
    <3> QED BY <2>1, <3>2, <3>3, KeptOfCat
  <2>4. text.stop = r.stop /\ text.type = "text"
    BY DEF Text
  <2> HIDE DEF acc, es, text, flushed, events
  <2>5. ASSUME NEW k \in DOMAIN es, Collects(es[k]) PROVE es[k].stop = ""
    <3>1. es[k] \in Early
      BY <2>1
    <3> QED BY <2>5, <3>1 DEF Early, Collects
  <2>6. "" \notin Terminal
    BY DEF Terminal
  <2>7. Len(es) \in Nat /\ DOMAIN es = 1 .. Len(es)
    BY <2>1
  <2>8. CASE acc.texts = <<>> /\ r.stop = ""
    <3>1. \A k \in Kept(events) : k \in 1 .. Len(es) /\ events[k].stop = ""
      BY <2>2, <2>3, <2>5, <2>7, <2>8 DEF Kept
    <3>2. KindOf(r) # "final"
      <4>1. CASE Kept(events) = {}
        BY <4>1, NoTextNoEnd DEF events
      <4>2. CASE Kept(events) # {}
        <5>1. Max(Kept(events)) \in Kept(events)
          BY <2>7, <3>1, <4>2, Greatest
        <5>2. ~(events[Max(Kept(events))].stop \in Terminal)
          BY <2>6, <3>1, <5>1
        <5> QED BY <4>2, <5>2, LastTextEnds DEF events
      <4> QED BY <4>1, <4>2
    <3> QED BY <2>6, <2>8, <3>2
  <2>9. CASE ~(acc.texts = <<>> /\ r.stop = "")
    <3> DEFINE n == Len(es) + 1
    <3>1. n \in Nat /\ DOMAIN flushed = 1 .. n /\ flushed[n] = text
          /\ \A k \in 1 .. Len(es) : flushed[k] = es[k]
      <4>1. flushed = Append(es, text)
        BY <2>2, <2>9
      <4> QED BY <2>1, <2>7, <4>1
    <3>2. ASSUME NEW k \in Kept(events)
          PROVE  k \in 1 .. n /\ events[k] = flushed[k] /\ Collects(flushed[k])
      BY <2>3, <3>1 DEF Kept
    <3>3. CASE r.stop \in Terminal
      <4>1. Collects(text)
        BY <2>4, <3>3 DEF Collects, Terminal
      <4>2. n \in Kept(events) /\ events[n] = text
        <5>1. n \in DOMAIN flushed
          BY <2>7, <3>1
        <5>2. n \in Kept(flushed)
          BY <3>1, <4>1, <5>1 DEF Kept
        <5> QED BY <2>3, <3>1, <5>2
      <4>3. Max(Kept(events)) \in Kept(events) /\ n <= Max(Kept(events))
        BY <3>1, <3>2, <4>2, Greatest
      <4>4. Max(Kept(events)) = n
        BY <3>1, <3>2, <4>3
      <4>5. events[Max(Kept(events))].stop \in Terminal
        BY <2>4, <3>3, <4>2, <4>4
      <4>6. KindOf(r) = "final"
        BY <4>2, <4>5, LastTextEnds DEF events
      <4> QED BY <1>5, <3>3, <4>6
    <3>4. CASE r.stop \notin Terminal
      <4>1. ASSUME NEW k \in Kept(events) PROVE events[k].stop \notin Terminal
        <5>1. CASE k = n
          BY <2>4, <3>1, <3>2, <3>4, <5>1
        <5>2. CASE k \in 1 .. Len(es)
          <6>1. events[k] = es[k] /\ Collects(es[k])
            BY <3>1, <3>2, <5>2
          <6> QED BY <2>5, <2>6, <2>7, <5>2, <6>1
        <5> QED BY <2>7, <3>1, <3>2, <5>1, <5>2
      <4>2. KindOf(r) # "final"
        <5>1. CASE Kept(events) = {}
          BY <5>1, NoTextNoEnd DEF events
        <5>2. CASE Kept(events) # {}
          <6>1. Max(Kept(events)) \in Kept(events)
            BY <3>1, <3>2, <5>2, Greatest
          <6> QED BY <4>1, <5>2, <6>1, LastTextEnds DEF events
        <5> QED BY <5>1, <5>2
      <4> QED BY <3>4, <4>2
    <3> QED BY <3>3, <3>4
  <2> QED BY <2>8, <2>9
<1> QED BY <1>3, <1>4, <1>5

-----------------------------------------------------------------------------
\* The MCP file.
Names(list) == {NameOf(list, i) : i \in DOMAIN list}
Files(list) == UNION {[D -> DOMAIN list] : D \in SUBSET Names(list)}
Adding(list, s) == FoldLeft(LAMBDA f, i : AddServer(list, f, i), NoServers, s)

\* A server more.
LEMMA AddType ==
    ASSUME NEW list, NEW f \in Files(list), NEW i \in DOMAIN list
    PROVE  AddServer(list, f, i) \in Files(list)
<1> DEFINE g == AddServer(list, f, i)
           D == DOMAIN f \cup {NameOf(list, i)}
<1>1. DOMAIN f \in SUBSET Names(list) /\ f \in [DOMAIN f -> DOMAIN list]
  BY DEF Files
<1>2. NameOf(list, i) \in Names(list)
  BY DEF Names
<1>3. g = [n \in D |-> IF n = NameOf(list, i) THEN i ELSE f[n]]
  BY DEF AddServer
<1>4. D \in SUBSET Names(list)
  BY <1>1, <1>2
<1> HIDE DEF g
<1>5. g \in [D -> DOMAIN list]
  BY <1>1, <1>3
<1>6. g \in Files(list)
  BY <1>4, <1>5 DEF Files
<1> QED BY <1>6 DEF g

\* A file without servers.
LEMMA NoServersType == ASSUME NEW list PROVE NoServers \in Files(list) /\ DOMAIN NoServers = {}
<1>1. NoServers \in [{} -> DOMAIN list] /\ DOMAIN NoServers = {}
  BY DEF NoServers
<1> QED BY <1>1 DEF Files

\* The servers, one by one.
LEMMA AddFold ==
    ASSUME NEW list
    PROVE  /\ Adding(list, <<>>) = NoServers
           /\ \A s \in Seq(DOMAIN list) : Adding(list, s) \in Files(list)
           /\ \A s \in Seq(DOMAIN list) : \A x \in DOMAIN list :
                  Adding(list, Append(s, x)) = AddServer(list, Adding(list, s), x)
<1> DEFINE step == [p \in Files(list) \X DOMAIN list |-> AddServer(list, p[1], p[2])]
           B == NoServers
<1>1. step \in [Files(list) \X DOMAIN list -> Files(list)] /\ B \in Files(list)
      /\ \A acc \in Files(list) : \A x \in DOMAIN list : step[<<acc, x>>] = AddServer(list, acc, x)
  BY AddType, NoServersType
<1>2. ASSUME NEW s \in Seq(DOMAIN list) PROVE Adding(list, s) = Folded(step, B, s)
  <2> DEFINE run == CHOOSE run : run = [S \in SUBSET DOMAIN s |->
                 IF S = {} THEN B ELSE AddServer(list, run[S \ {Max(S)}], s[Max(S)])]
  <2>1. PICK g \in [SUBSET DOMAIN s -> Files(list)] : IsFold(g, s, B, step)
    <3> HIDE DEF step, B
    <3> QED BY <1>1, FoldExists
  <2>2. ASSUME NEW S \in SUBSET DOMAIN s
        PROVE  g[S] = IF S = {} THEN B ELSE AddServer(list, g[S \ {Max(S)}], s[Max(S)])
    <3>1. CASE S # {}
      <4>1. Max(S) \in S
        <5>1. Len(s) \in Nat /\ DOMAIN s = 1 .. Len(s)
          OBVIOUS
        <5> QED BY <3>1, <5>1, Greatest
      <4>2. s[Max(S)] \in DOMAIN list /\ g[S \ {Max(S)}] \in Files(list)
        BY <4>1
      <4>3. g[S] = step[<<g[S \ {Max(S)}], s[Max(S)]>>]
        <5> HIDE DEF step, B
        <5> QED BY <2>1, <3>1 DEF IsFold
      <4> HIDE DEF step, B
      <4> QED BY <1>1, <3>1, <4>2, <4>3
    <3>2. CASE S = {}
      <4> HIDE DEF step, B
      <4> QED BY <2>1, <3>2 DEF IsFold
    <3> QED BY <3>1, <3>2
  <2>3. run = [S \in SUBSET DOMAIN s |->
                 IF S = {} THEN B ELSE AddServer(list, run[S \ {Max(S)}], s[Max(S)])]
    <3>1. g = [S \in SUBSET DOMAIN s |-> IF S = {} THEN B ELSE AddServer(list, g[S \ {Max(S)}], s[Max(S)])]
      <4> HIDE DEF B
      <4> QED BY <2>2
    <3> QED BY <3>1, Zenon
  <2>4. Adding(list, s) = run[DOMAIN s]
    BY DEF Adding, FoldLeft, MapThenFoldSet
  <2> HIDE DEF run
  <2>5. Alike(run, g, Len(s)) /\ Len(s) \in Nat /\ DOMAIN s = 1 .. Len(s)
    <3> HIDE DEF B
    <3>1. Len(s) \in Nat /\ DOMAIN s = 1 .. Len(s)
      OBVIOUS
    <3> QED BY <2>2, <2>3, <3>1 DEF Alike
  <2>6. run[DOMAIN s] = g[DOMAIN s]
    BY <2>5, FoldsAgree
  <2> HIDE DEF step, B
  <2>7. Folded(step, B, s) = g[DOMAIN s]
    BY <2>1, FoldedIs
  <2> QED BY <2>4, <2>6, <2>7
<1>3. /\ Folded(step, B, <<>>) = B
      /\ \A s \in Seq(DOMAIN list) : Folded(step, B, s) \in Files(list)
      /\ \A s \in Seq(DOMAIN list) : \A x \in DOMAIN list :
             Folded(step, B, Append(s, x)) = step[<<Folded(step, B, s), x>>]
  <2> HIDE DEF step, B
  <2>1. B \in Files(list) /\ step \in [Files(list) \X DOMAIN list -> Files(list)]
    BY <1>1
  <2>2. StepByStep(step, B, DOMAIN list, Files(list))
    BY <2>1, FoldedAppend
  <2> QED BY <2>2 DEF StepByStep
<1>4. Adding(list, <<>>) = B
  <2>1. <<>> \in Seq(DOMAIN list)
    OBVIOUS
  <2> HIDE DEF step, B
  <2> QED BY <1>2, <1>3, <2>1
<1>5. ASSUME NEW s \in Seq(DOMAIN list) PROVE Adding(list, s) \in Files(list)
  <2> HIDE DEF step, B
  <2> QED BY <1>2, <1>3
<1>6. ASSUME NEW s \in Seq(DOMAIN list), NEW x \in DOMAIN list PROVE Adding(list, Append(s, x)) = AddServer(list, Adding(list, s), x)
  <2> HIDE DEF step, B
  <2>1. Append(s, x) \in Seq(DOMAIN list)
    OBVIOUS
  <2>2. Adding(list, Append(s, x)) = step[<<Folded(step, B, s), x>>]
    BY <1>2, <1>3, <2>1
  <2> QED BY <1>1, <1>2, <1>5, <2>2
<1> QED BY <1>4, <1>5, <1>6

\* The first k servers.
First(k) == [i \in 1 .. k |-> i]

\* Of the first servers the file has every name, with the last server of it.
LEMMA FileOfFirst ==
    ASSUME NEW X, NEW list \in Seq(X), NEW k \in Nat, k <= Len(list)
    PROVE  \A i \in 1 .. k :
               LET f == Adding(list, First(k))
                   n == NameOf(list, i)
               IN  n \in DOMAIN f /\ f[n] \in 1 .. k /\ i <= f[n] /\ NameOf(list, f[n]) = n
<1> DEFINE F(j) == Adding(list, First(j))
           Holds(j) == \A i \in 1 .. j :
               /\ NameOf(list, i) \in DOMAIN F(j) /\ F(j)[NameOf(list, i)] \in 1 .. j
               /\ i <= F(j)[NameOf(list, i)]
               /\ NameOf(list, F(j)[NameOf(list, i)]) = NameOf(list, i)
           T == {j \in Nat : j <= Len(list) => Holds(j)}
<1>1. 0 \in T
  OBVIOUS
<1>2. ASSUME NEW j \in Nat, j \in T PROVE j + 1 \in T
  <2> SUFFICES ASSUME j + 1 <= Len(list) PROVE Holds(j + 1)
    <3> HIDE DEF Holds
    <3>1. j + 1 \in Nat
      OBVIOUS
    <3> QED BY <3>1, Zenon
  <2> DEFINE f == F(j)
             g == F(j + 1)
             m == NameOf(list, j + 1)
  <2>1. First(j) \in Seq(DOMAIN list) /\ First(j + 1) = Append(First(j), j + 1)
        /\ j + 1 \in DOMAIN list
    BY DEF First
  <2>2. f \in Files(list) /\ g = AddServer(list, f, j + 1)
    BY <2>1, AddFold
  <2>3. /\ DOMAIN g = DOMAIN f \cup {m}
        /\ \A n \in DOMAIN g : g[n] = IF n = m THEN j + 1 ELSE f[n]
    <3> HIDE DEF f, g
    <3> DEFINE i == j + 1
               h == AddServer(list, f, i)
    <3>1. f \in Files(list) /\ i \in DOMAIN list /\ g = h
      BY <2>1, <2>2
    <3> HIDE DEF i
    <3>2. DOMAIN h = DOMAIN f \cup {NameOf(list, i)}
      BY DEF AddServer
    <3>3. \A n \in DOMAIN h : h[n] = IF n = NameOf(list, i) THEN i ELSE f[n]
      BY DEF AddServer
    <3> QED BY <3>1, <3>2, <3>3 DEF i
  <2>4. \A i \in 1 .. j :
            /\ NameOf(list, i) \in DOMAIN f /\ f[NameOf(list, i)] \in 1 .. j
            /\ i <= f[NameOf(list, i)] /\ NameOf(list, f[NameOf(list, i)]) = NameOf(list, i)
    BY <1>2
  <2> HIDE DEF f, g
  <2>5. ASSUME NEW i \in 1 .. j + 1
        PROVE  /\ NameOf(list, i) \in DOMAIN g /\ g[NameOf(list, i)] \in 1 .. j + 1
               /\ i <= g[NameOf(list, i)] /\ NameOf(list, g[NameOf(list, i)]) = NameOf(list, i)
    <3> DEFINE n == NameOf(list, i)
    <3>1. CASE n = m
      <4>1. g[n] = j + 1 /\ n \in DOMAIN g
        BY <2>3, <3>1
      <4> QED BY <3>1, <4>1
    <3>2. CASE n # m
      <4>1. i # j + 1
        BY <3>2
      <4>2. i \in 1 .. j
        BY <4>1
      <4>3. n \in DOMAIN f /\ f[n] \in 1 .. j /\ i <= f[n] /\ NameOf(list, f[n]) = n
        BY <2>4, <4>2
      <4>4. n \in DOMAIN g /\ g[n] = f[n]
        BY <2>3, <3>2, <4>3
      <4> HIDE DEF n
      <4>5. g[n] \in 1 .. j + 1 /\ i <= g[n] /\ NameOf(list, g[n]) = n
        BY <4>3, <4>4
      <4> QED BY <4>4, <4>5 DEF n
    <3> QED BY <3>1, <3>2
  <2> QED BY <2>5 DEF g
<1> HIDE DEF T
<1>3. k \in T
  BY <1>1, <1>2, Induction
<1> QED BY <1>3 DEF T

\* What McpServersKept says of a request and its file.
LEMMA ServersKept ==
    ASSUME NEW list \in McpLists
    PROVE  \A i \in DOMAIN list :
               \/ \E n \in DOMAIN BuildMCPConfig(list) : BuildMCPConfig(list)[n] = i
               \/ \E j \in DOMAIN list :
                     /\ j > i /\ (list[i].name # "" \/ list[j].name # "")
                     /\ NameOf(list, i) = NameOf(list, j)
<1> DEFINE f == BuildMCPConfig(list)
<1>1. /\ list \in Seq([name : STRING, type : STRING, command : BOOLEAN])
      /\ DOMAIN list \subseteq DOMAIN ServerName
  BY InputAssumption
<1>2. DOMAIN list = 1 .. Len(list) /\ Len(list) \in Nat
  BY <1>1
<1>3. f = Adding(list, First(Len(list)))
  BY <1>2 DEF BuildMCPConfig, Adding, First
<1> HIDE DEF f
<1>4. ASSUME NEW i \in DOMAIN list
      PROVE  \/ \E n \in DOMAIN f : f[n] = i
             \/ \E j \in DOMAIN list : /\ j > i /\ (list[i].name # "" \/ list[j].name # "")
                                       /\ NameOf(list, i) = NameOf(list, j)
  <2> DEFINE n == NameOf(list, i)
             j == f[n]
  <2>1. n \in DOMAIN f /\ j \in 1 .. Len(list) /\ i <= j /\ NameOf(list, j) = n
    <3>1. Len(list) <= Len(list)
      BY <1>2
    <3> QED BY <1>1, <1>2, <1>3, <3>1, FileOfFirst
  <2>2. CASE j = i
    BY <2>1, <2>2
  <2>3. CASE j # i
    <3> HIDE DEF j
    <3>1. j > i /\ j \in DOMAIN list
      BY <1>2, <2>1, <2>3
    <3>2. list[i].name # "" \/ list[j].name # ""
      <4> SUFFICES ASSUME list[i].name = "", list[j].name = "" PROVE FALSE
        OBVIOUS
      <4>1. ServerName[i] = ServerName[j]
        BY <2>1 DEF NameOf
      <4>2. i \in DOMAIN ServerName /\ j \in DOMAIN ServerName
        BY <1>1, <3>1
      <4> QED BY <2>3, <4>1, <4>2, ServerNameAssumption
    <3> QED BY <2>1, <3>1, <3>2
  <2> QED BY <2>2, <2>3
<1> QED BY <1>4 DEF f

-----------------------------------------------------------------------------
\* The settings of a process.  The option of the flag at a position, and
\* whether each flag of a command line that has a word after it likes that word.
FlagOf(s, i, o) == IsFlag(s[i]) /\ OptionOf[s[i].text] = o
Clean(s) == \A i \in 1 .. Len(s) - 1 : \A o \in Options : FlagOf(s, i, o) => ArgAccepts(o, s[i + 1])
Pending(s) == Len(s) # 0 /\ IsFlag(s[Len(s)])

\* What a flag is, and that no flag is a value.
LEMMA FlagFacts ==
    /\ \A w \in Word : IsFlag(w) => OptionOf[w.text] \in Options
    /\ \A w \in Word : \A o \in Options : ArgAccepts(o, w) => ~IsFlag(w)
    /\ "none" \notin Options
<1>1. ASSUME NEW w \in Word, IsFlag(w) PROVE OptionOf[w.text] \in Options
  BY <1>1 DEF IsFlag, Flags, OptionOf, Options
<1>2. ASSUME NEW w \in Word, NEW o \in Options, ArgAccepts(o, w) PROVE ~IsFlag(w)
  <2>1. w.text \in Modes \/ w.text \in DOMAIN Number
    BY <1>2 DEF ArgAccepts, IsValue
  <2>2. w.text \notin Flags
    <3>1. DOMAIN Number \cap (Modes \cup Flags) = {}
      BY ConfigAssumption
    <3>2. Modes \cap Flags = {}
      BY DEF Modes, Flags, OptionOf
    <3> QED BY <2>1, <3>1, <3>2
  <2> QED BY <2>2 DEF IsFlag
<1>3. "none" \notin Options
  BY DEF Options
<1> QED BY <1>1, <1>2, <1>3

\* One word more.
LEMMA CleanAppend ==
    ASSUME NEW s \in Seq(Word), NEW w \in Word
    PROVE  /\ Clean(Append(s, w)) <=>
                  Clean(s) /\ \A o \in Options : Len(s) # 0 /\ FlagOf(s, Len(s), o) => ArgAccepts(o, w)
           /\ Pending(Append(s, w)) <=> IsFlag(w)
           /\ Clean(Append(s, w)) /\ Pending(s) => ~IsFlag(w)
<1> DEFINE t == Append(s, w)
           n == Len(s)
<1>1. t \in Seq(Word) /\ n \in Nat /\ Len(t) = n + 1 /\ t[n + 1] = w
      /\ \A i \in 1 .. n : t[i] = s[i] /\ s[i] \in Word
  OBVIOUS
<1> HIDE DEF t, n
<1>2. \A i \in 1 .. n : \A o \in Options : FlagOf(t, i, o) <=> FlagOf(s, i, o)
  BY <1>1 DEF FlagOf
<1>3. ASSUME Clean(t)
      PROVE  Clean(s) /\ \A o \in Options : n # 0 /\ FlagOf(s, n, o) => ArgAccepts(o, w)
  <2>1. \A i \in 1 .. n : \A o \in Options : FlagOf(s, i, o) => ArgAccepts(o, t[i + 1])
    <3>1. n = Len(t) - 1
      BY <1>1
    <3> QED BY <1>2, <1>3, <3>1 DEF Clean
  <2>2. ASSUME NEW i \in 1 .. n - 1, NEW o \in Options, FlagOf(s, i, o)
        PROVE  ArgAccepts(o, s[i + 1])
    <3>1. i \in 1 .. n /\ t[i + 1] = s[i + 1]
      BY <1>1
    <3> QED BY <2>1, <2>2, <3>1
  <2>3. ASSUME NEW o \in Options, n # 0, FlagOf(s, n, o) PROVE ArgAccepts(o, w)
    <3>1. n \in 1 .. n
      BY <1>1, <2>3
    <3> QED BY <1>1, <2>1, <2>3, <3>1
  <2> QED BY <2>2, <2>3 DEF Clean, n
<1>4. ASSUME Clean(s), \A o \in Options : n # 0 /\ FlagOf(s, n, o) => ArgAccepts(o, w)
      PROVE  Clean(t)
  <2>1. \A i \in 1 .. n - 1 : \A o \in Options : FlagOf(s, i, o) => ArgAccepts(o, s[i + 1])
    BY <1>4 DEF Clean, n
  <2>2. ASSUME NEW i \in 1 .. n, NEW o \in Options, FlagOf(t, i, o) PROVE ArgAccepts(o, t[i + 1])
    <3>1. FlagOf(s, i, o)
      BY <1>2, <2>2
    <3>2. CASE i = n
      BY <1>1, <1>4, <3>1, <3>2
    <3>3. CASE i # n
      <4>1. i \in 1 .. n - 1 /\ t[i + 1] = s[i + 1]
        BY <1>1, <3>3
      <4> QED BY <2>1, <3>1, <4>1
    <3> QED BY <3>2, <3>3
  <2>3. Len(t) - 1 = n
    BY <1>1
  <2> QED BY <2>2, <2>3 DEF Clean
<1>5. Pending(t) <=> IsFlag(w)
  BY <1>1 DEF Pending
<1>6. ASSUME Clean(t), Pending(s) PROVE ~IsFlag(w)
  <2>1. n # 0 /\ IsFlag(s[n]) /\ s[n] \in Word
    BY <1>1, <1>6 DEF Pending, n
  <2>2. PICK o \in Options : FlagOf(s, n, o)
    BY <2>1, FlagFacts DEF FlagOf
  <2>3. ArgAccepts(o, w)
    BY <1>3, <1>6, <2>1, <2>2
  <2> QED BY <2>3, FlagFacts
<1> QED BY <1>3, <1>4, <1>5, <1>6 DEF t, n

\* The first loop finds the flags of a clean command line.
LEMMA DetectedAll ==
    \A s \in Seq(Word) : Clean(s) =>
        /\ Detecting(s).value <=> Pending(s)
        /\ Detecting(s).set = {o \in Options : \E i \in DOMAIN s : FlagOf(s, i, o)}
<1> DEFINE Found(s) == {o \in Options : \E i \in DOMAIN s : FlagOf(s, i, o)}
           T == {s \in Seq(Word) : Clean(s) => /\ Detecting(s).value <=> Pending(s)
                                               /\ Detecting(s).set = Found(s)}
<1>1. <<>> \in T
  <2>1. Detecting(<<>>) = [set |-> {}, value |-> FALSE]
    BY DetectFold
  <2>2. <<>> \in Seq(Word) /\ Len(<<>>) = 0 /\ DOMAIN <<>> = {}
    OBVIOUS
  <2>3. ~Pending(<<>>) /\ Found(<<>>) = {}
    BY <2>2 DEF Pending
  <2>4. Detecting(<<>>).value = FALSE /\ Detecting(<<>>).set = {}
    BY <2>1
  <2> QED BY <2>2, <2>3, <2>4
<1>2. ASSUME NEW s \in Seq(Word), NEW w \in Word, s \in T PROVE Append(s, w) \in T
  <2> DEFINE t == Append(s, w)
             acc == Detecting(s)
  <2>1. t \in Seq(Word) /\ Len(s) \in Nat /\ DOMAIN s = 1 .. Len(s) /\ DOMAIN t = 1 .. Len(s) + 1
        /\ t[Len(s) + 1] = w /\ \A i \in 1 .. Len(s) : t[i] = s[i]
    OBVIOUS
  <2>2. acc \in Detected /\ Detecting(t) = DetectWord(acc, w)
    BY DetectFold
  <2>3. Clean(s) => (acc.value <=> Pending(s)) /\ acc.set = Found(s)
    BY <1>2
  <2>4. /\ Clean(t) => Clean(s) /\ (Pending(s) => ~IsFlag(w))
        /\ Pending(t) <=> IsFlag(w)
    BY CleanAppend
  <2>5. Found(t) = Found(s) \cup {o \in Options : IsFlag(w) /\ OptionOf[w.text] = o}
    <3> HIDE DEF t
    <3>1. \A o \in Options : (\E i \in DOMAIN t : FlagOf(t, i, o)) <=>
              (\E i \in DOMAIN s : FlagOf(s, i, o)) \/ (IsFlag(w) /\ OptionOf[w.text] = o)
      <4>1. Len(s) + 1 \in DOMAIN t /\ \A i \in DOMAIN t : i \in DOMAIN s \/ i = Len(s) + 1
        BY <2>1
      <4>2. \A i \in DOMAIN s : i \in DOMAIN t /\ t[i] = s[i]
        BY <2>1
      <4> QED BY <2>1, <4>1, <4>2 DEF FlagOf
    <3> QED BY <3>1
  <2> HIDE DEF t, acc, Found
  <2>6. ASSUME Clean(t)
        PROVE  (DetectWord(acc, w).value <=> Pending(t)) /\ DetectWord(acc, w).set = Found(t)
    <3>1. (acc.value <=> Pending(s)) /\ acc.set = Found(s) /\ (Pending(s) => ~IsFlag(w))
      BY <2>3, <2>4, <2>6
    <3>2. CASE acc.value
      <4>1. DetectWord(acc, w).value = FALSE /\ DetectWord(acc, w).set = acc.set
        BY <2>2, <3>2 DEF DetectWord, Detected
      <4>2. ~IsFlag(w)
        BY <3>1, <3>2
      <4> QED BY <2>4, <2>5, <3>1, <4>1, <4>2
    <3>3. CASE ~acc.value /\ IsFlag(w)
      <4>1. DetectWord(acc, w) = [set |-> acc.set \cup {OptionOf[w.text]}, value |-> TRUE]
        BY <3>3 DEF DetectWord
      <4>2. DetectWord(acc, w).value = TRUE
            /\ DetectWord(acc, w).set = acc.set \cup {OptionOf[w.text]}
        BY <4>1
      <4>3. {o \in Options : IsFlag(w) /\ OptionOf[w.text] = o} = {OptionOf[w.text]}
        BY <3>3, FlagFacts
      <4> QED BY <2>4, <2>5, <3>1, <3>3, <4>2, <4>3
    <3>4. CASE ~acc.value /\ ~IsFlag(w)
      <4>1. DetectWord(acc, w) = acc
        BY <3>4 DEF DetectWord
      <4> QED BY <2>4, <2>5, <3>1, <3>4, <4>1
    <3> QED BY <3>2, <3>3, <3>4
  <2> QED BY <2>1, <2>2, <2>6 DEF t, Found
<1> HIDE DEF T
<1>3. \A s \in Seq(Word) : s \in T
  BY <1>1, <1>2, SequenceInduction
<1> QED BY <1>3 DEF T

\* Settings that could not be loaded stay so.
LEMMA TakenNone == \A s \in Seq(Word) : Taking(NoConfig, s).config = NoConfig
<1> DEFINE T == {s \in Seq(Word) : Taking(NoConfig, s).config = NoConfig}
<1>1. <<>> \in T
  <2>1. Taking(NoConfig, <<>>) = [config |-> NoConfig, option |-> "none"]
    BY TakeFold
  <2>2. Taking(NoConfig, <<>>).config = NoConfig /\ <<>> \in Seq(Word)
    BY <2>1
  <2> QED BY <2>2
<1>2. ASSUME NEW s \in Seq(Word), NEW w \in Word, s \in T PROVE Append(s, w) \in T
  <2>1. Taking(NoConfig, Append(s, w)) = TakeWord(Taking(NoConfig, s), w)
    BY TakeFold
  <2>2. TakeWord(Taking(NoConfig, s), w) = Taking(NoConfig, s)
    BY <1>2 DEF TakeWord
  <2>3. Append(s, w) \in Seq(Word)
    OBVIOUS
  <2> QED BY <1>2, <2>1, <2>2, <2>3
<1> HIDE DEF T
<1>3. \A s \in Seq(Word) : s \in T
  BY <1>1, <1>2, SequenceInduction
<1> QED BY <1>3 DEF T

\* The last flag of an option that has a value, or that there is none.
LastFlag(s, i, o) ==
    /\ i \in 1 .. Len(s) - 1 /\ FlagOf(s, i, o)
    /\ \A j \in 1 .. Len(s) - 1 : FlagOf(s, j, o) => j <= i
Unflagged(s, o) == \A i \in 1 .. Len(s) - 1 : ~FlagOf(s, i, o)

\* The second loop, which starts with settings c, has after the words of s the
\* option of the flag that waits for its value and the settings d.
TakenAll(c, s, option, d) ==
    /\ Pending(s) => IsFlag(s[Len(s)]) /\ option = OptionOf[s[Len(s)].text]
    /\ ~Pending(s) => option = "none"
    /\ d \in Configs
    /\ \A o \in Options :
          \/ Unflagged(s, o) /\ d[o] = c[o]
          \/ \E i \in 1 .. Len(s) - 1 : LastFlag(s, i, o) /\ d[o] = Value(o, s[i + 1].text)

\* A word after one that is not the option's flag does not change which flag of
\* the option comes last.
LEMMA KeepFlags ==
    ASSUME NEW s \in Seq(Word), NEW w \in Word, NEW o \in Options,
           Len(s) # 0 => ~FlagOf(s, Len(s), o)
    PROVE  /\ Unflagged(s, o) => Unflagged(Append(s, w), o)
           /\ \A i \in 1 .. Len(s) - 1 : LastFlag(s, i, o) =>
                  /\ i \in 1 .. Len(Append(s, w)) - 1 /\ LastFlag(Append(s, w), i, o)
                  /\ Append(s, w)[i + 1] = s[i + 1]
<1> DEFINE t == Append(s, w)
           n == Len(s)
<1>1. n \in Nat /\ Len(t) - 1 = n /\ \A i \in 1 .. n : t[i] = s[i]
  OBVIOUS
<1>2. n # 0 => ~FlagOf(s, n, o)
  OBVIOUS
<1> HIDE DEF t, n
<1>3. ASSUME NEW i \in 1 .. n, FlagOf(t, i, o) PROVE i \in 1 .. n - 1 /\ FlagOf(s, i, o)
  <2>1. FlagOf(s, i, o)
    BY <1>1, <1>3 DEF FlagOf
  <2>2. i # n
    BY <1>1, <1>2, <2>1
  <2> QED BY <1>1, <2>1, <2>2
<1>4. Unflagged(s, o) => Unflagged(t, o)
  BY <1>1, <1>3 DEF Unflagged, n
<1>5. ASSUME NEW i \in 1 .. n - 1, LastFlag(s, i, o)
      PROVE  i \in 1 .. Len(t) - 1 /\ LastFlag(t, i, o) /\ t[i + 1] = s[i + 1]
  <2>1. i \in 1 .. n /\ t[i] = s[i] /\ t[i + 1] = s[i + 1] /\ i \in 1 .. Len(t) - 1
    BY <1>1
  <2>2. FlagOf(t, i, o)
    BY <1>5, <2>1 DEF LastFlag, FlagOf
  <2>3. \A j \in 1 .. Len(t) - 1 : FlagOf(t, j, o) => j <= i
    BY <1>1, <1>3, <1>5 DEF LastFlag, n
  <2> QED BY <2>1, <2>2, <2>3 DEF LastFlag
<1> QED BY <1>4, <1>5 DEF t, n

\* The second loop takes over the flags of a clean command line and refuses any
\* other.
LEMMA TakenFlags ==
    ASSUME NEW c \in Configs
    PROVE  \A s \in Seq(Word) :
               /\ Clean(s) => TakenAll(c, s, Taking(c, s).option, Taking(c, s).config)
               /\ ~Clean(s) => Taking(c, s).config = NoConfig
<1> DEFINE T == {s \in Seq(Word) :
               /\ Clean(s) => TakenAll(c, s, Taking(c, s).option, Taking(c, s).config)
               /\ ~Clean(s) => Taking(c, s).config = NoConfig}
<1>1. <<>> \in T
  <2>1. Taking(c, <<>>) = [config |-> c, option |-> "none"]
    BY TakeFold
  <2>2. Taking(c, <<>>).config = c /\ Taking(c, <<>>).option = "none"
    BY <2>1
  <2>3. <<>> \in Seq(Word) /\ Len(<<>>) = 0
    OBVIOUS
  <2>4. Clean(<<>>) /\ ~Pending(<<>>)
    BY <2>3 DEF Clean, Pending
  <2>5. \A o \in Options : Unflagged(<<>>, o)
    BY <2>3 DEF Unflagged
  <2> QED BY <2>2, <2>3, <2>4, <2>5 DEF TakenAll
<1>2. ASSUME NEW s \in Seq(Word), NEW w \in Word, s \in T PROVE Append(s, w) \in T
  <2> DEFINE t == Append(s, w)
             n == Len(s)
             acc == Taking(c, s)
             next == TakeWord(acc, w)
             d == acc.config
  <2>1. t \in Seq(Word) /\ n \in Nat /\ Len(t) = n + 1 /\ t[n + 1] = w
        /\ \A i \in 1 .. n : t[i] = s[i] /\ s[i] \in Word
    OBVIOUS
  <2>2. acc \in Taken /\ Taking(c, t) = next
    BY TakeFold
  <2>3. /\ Clean(s) => TakenAll(c, s, acc.option, d)
        /\ ~Clean(s) => d = NoConfig
    BY <1>2
  <2>4. /\ Clean(t) <=> Clean(s) /\ \A o \in Options : n # 0 /\ FlagOf(s, n, o) => ArgAccepts(o, w)
        /\ Pending(t) <=> IsFlag(w)
        /\ Clean(t) /\ Pending(s) => ~IsFlag(w)
    BY CleanAppend
  <2>5. ASSUME NEW o \in Options, n # 0 => ~FlagOf(s, n, o)
        PROVE  /\ Unflagged(s, o) => Unflagged(t, o)
               /\ \A i \in 1 .. n - 1 : LastFlag(s, i, o) =>
                      i \in 1 .. Len(t) - 1 /\ LastFlag(t, i, o) /\ t[i + 1] = s[i + 1]
    BY <2>5, KeepFlags
  <2>6. (TakenAll(c, s, acc.option, d) => d \in Configs) /\ \A e \in Configs : e # NoConfig
    BY NoConfigIsNone DEF TakenAll
  <2> HIDE DEF t, n, acc, next, d
  <2>7. CASE ~Clean(s)
    <3>1. next = acc
      BY <2>3, <2>7 DEF TakeWord, next, d
    <3> QED BY <2>1, <2>2, <2>3, <2>4, <2>7, <3>1 DEF d, t
  <2>8. CASE Clean(s) /\ Pending(s)
    <3> DEFINE opt == acc.option
    <3>1. TakenAll(c, s, opt, d) /\ d \in Configs /\ d # NoConfig
      BY <2>3, <2>6, <2>8
    <3>2. n # 0 /\ IsFlag(s[n]) /\ opt = OptionOf[s[n].text] /\ s[n] \in Word
      BY <2>1, <2>8, <3>1 DEF Pending, TakenAll, n
    <3>3. opt \in Options /\ opt # "none" /\ FlagOf(s, n, opt)
          /\ \A o \in Options : FlagOf(s, n, o) => o = opt
      BY <3>2, FlagFacts DEF FlagOf
    <3> HIDE DEF opt
    <3>4. next = [config |-> IF ArgAccepts(opt, w) THEN [d EXCEPT ![opt] = Value(opt, w.text)]
                             ELSE NoConfig,
                  option |-> "none"]
      BY <3>1, <3>3 DEF TakeWord, next, opt, d
    <3>5. CASE ~ArgAccepts(opt, w)
      <4>1. ~Clean(t)
        BY <2>4, <3>2, <3>3, <3>5
      <4>2. next.config = NoConfig
        BY <3>4, <3>5
      <4> QED BY <2>1, <2>2, <4>1, <4>2 DEF t
    <3>6. CASE ArgAccepts(opt, w)
      <4> DEFINE e == [d EXCEPT ![opt] = Value(opt, w.text)]
      <4>1. Clean(t) /\ ~Pending(t)
        BY <2>4, <2>8, <3>3, <3>6
      <4>2. e \in Configs
        BY <3>1, <3>3, <3>6, ValueType, ConfigSet DEF ArgAccepts
      <4>3. \A o \in Options : e[o] = IF o = opt THEN Value(opt, w.text) ELSE d[o]
        BY <3>1 DEF Configs
      <4>4. next.config = e /\ next.option = "none"
        BY <3>4, <3>6
      <4> HIDE DEF e
      <4>5. ASSUME NEW o \in Options
            PROVE  \/ Unflagged(t, o) /\ e[o] = c[o]
                   \/ \E i \in 1 .. Len(t) - 1 : LastFlag(t, i, o) /\ e[o] = Value(o, t[i + 1].text)
        <5>1. CASE o = opt
          <6>1. n \in 1 .. Len(t) - 1 /\ t[n] = s[n] /\ \A j \in 1 .. Len(t) - 1 : j <= n
            BY <2>1, <3>2
          <6>2. LastFlag(t, n, o)
            BY <3>3, <5>1, <6>1 DEF LastFlag, FlagOf
          <6>3. e[o] = Value(o, t[n + 1].text)
            BY <2>1, <4>3, <5>1
          <6> QED BY <6>1, <6>2, <6>3
        <5>2. CASE o # opt
          <6>1. n # 0 => ~FlagOf(s, n, o)
            BY <3>3, <5>2
          <6>2. e[o] = d[o]
            BY <4>3, <5>2
          <6>3. CASE Unflagged(s, o) /\ d[o] = c[o]
            BY <2>5, <6>1, <6>2, <6>3
          <6>4. CASE \E i \in 1 .. n - 1 : LastFlag(s, i, o) /\ d[o] = Value(o, s[i + 1].text)
            <7>1. PICK i \in 1 .. n - 1 : LastFlag(s, i, o) /\ d[o] = Value(o, s[i + 1].text)
              BY <6>4
            <7>2. i \in 1 .. Len(t) - 1 /\ LastFlag(t, i, o) /\ t[i + 1] = s[i + 1]
              BY <2>5, <6>1, <7>1
            <7> QED BY <6>2, <7>1, <7>2
          <6> QED BY <3>1, <6>3, <6>4 DEF TakenAll, n
        <5> QED BY <5>1, <5>2
      <4>6. TakenAll(c, t, "none", e)
        BY <4>1, <4>2, <4>5 DEF TakenAll
      <4> QED BY <2>1, <2>2, <4>1, <4>4, <4>6 DEF t
    <3> QED BY <3>5, <3>6
  <2>9. CASE Clean(s) /\ ~Pending(s)
    <3>1. TakenAll(c, s, acc.option, d) /\ d \in Configs /\ d # NoConfig /\ acc.option = "none"
      BY <2>3, <2>6, <2>9 DEF TakenAll
    <3>2. \A o \in Options : n # 0 => ~FlagOf(s, n, o)
      BY <2>9 DEF Pending, FlagOf, n
    <3>3. Clean(t)
      BY <2>4, <2>9, <3>2
    <3>4. next.config = d /\ next.option = IF IsFlag(w) THEN OptionOf[w.text] ELSE "none"
      <4>1. CASE IsFlag(w)
        <5>1. next = [acc EXCEPT !.option = OptionOf[w.text]]
          BY <3>1, <4>1 DEF TakeWord, next, d
        <5> QED BY <2>2, <4>1, <5>1 DEF Taken, d
      <4>2. CASE ~IsFlag(w)
        <5>1. next = acc
          BY <3>1, <4>2 DEF TakeWord, next, d
        <5> QED BY <3>1, <4>2, <5>1 DEF d
      <4> QED BY <4>1, <4>2
    <3>5. ASSUME NEW o \in Options
          PROVE  \/ Unflagged(t, o) /\ d[o] = c[o]
                 \/ \E i \in 1 .. Len(t) - 1 : LastFlag(t, i, o) /\ d[o] = Value(o, t[i + 1].text)
      <4>1. CASE Unflagged(s, o) /\ d[o] = c[o]
        BY <2>5, <3>2, <4>1
      <4>2. CASE \E i \in 1 .. n - 1 : LastFlag(s, i, o) /\ d[o] = Value(o, s[i + 1].text)
        <5>1. PICK i \in 1 .. n - 1 : LastFlag(s, i, o) /\ d[o] = Value(o, s[i + 1].text)
          BY <4>2
        <5>2. i \in 1 .. Len(t) - 1 /\ LastFlag(t, i, o) /\ t[i + 1] = s[i + 1]
          BY <2>5, <3>2, <5>1
        <5> QED BY <5>1, <5>2
      <4> QED BY <3>1, <4>1, <4>2 DEF TakenAll, n
    <3>6. TakenAll(c, t, next.option, d)
      <4>1. Pending(t) => IsFlag(t[Len(t)]) /\ next.option = OptionOf[t[Len(t)].text]
        BY <2>1, <2>4, <3>4
      <4>2. ~Pending(t) => next.option = "none"
        BY <2>4, <3>4
      <4> QED BY <3>1, <3>5, <4>1, <4>2 DEF TakenAll
    <3> QED BY <2>1, <2>2, <3>3, <3>4, <3>6 DEF t
  <2> QED BY <2>7, <2>8, <2>9
<1> HIDE DEF T
<1>3. \A s \in Seq(Word) : s \in T
  BY <1>1, <1>2, SequenceInduction
<1> QED BY <1>3 DEF T

\* The settings of a command line and an environment: whether there are any, and
\* which of the two, or the default, each option has.
LEMMA LoadFacts ==
    ASSUME NEW s \in Seq(Word), NEW v \in [Options -> Word]
    PROVE  LET p == LoadToolConfig(s, v)
               given(o) == \E i \in DOMAIN s : FlagOf(s, i, o)
               unset(o) == ~given(o) /\ v[o] # Unset
           IN  /\ p # NoConfig => p \in Configs
               /\ p # NoConfig <=>
                      \A o \in Options :
                         /\ \A i \in DOMAIN s : FlagOf(s, i, o) =>
                                i < Len(s) /\ ArgAccepts(o, s[i + 1])
                         /\ unset(o) => EnvAccepts(o, v[o])
               /\ p # NoConfig => \A o \in Options :
                      \/ ~given(o) /\ p[o] = IF unset(o) THEN Value(o, v[o].text) ELSE Default[o]
                      \/ \E i \in DOMAIN s : /\ FlagOf(s, i, o) /\ p[o] = Value(o, s[i + 1].text)
                                             /\ \A j \in DOMAIN s : FlagOf(s, j, o) => j <= i
<1> DEFINE p == LoadToolConfig(s, v)
           n == Len(s)
           given == {o \in Options : \E i \in DOMAIN s : FlagOf(s, i, o)}
           set == DetectCLIToolFlags(s)
           c == FromEnv(set, v)
           end == Taking(c, s)
<1>1. n \in Nat /\ DOMAIN s = 1 .. n /\ \A i \in 1 .. n : s[i] \in Word
  OBVIOUS
<1>2. set = Detecting(s).set /\ p = IF end.option = "none" THEN end.config ELSE NoConfig
  BY DEF DetectCLIToolFlags, Detecting, LoadToolConfig, FromArgs, Taking
<1>3. (c # NoConfig => c \in Configs)
      /\ (c # NoConfig <=> \A o \in Options \ set : v[o] # Unset => EnvAccepts(o, v[o]))
      /\ (c # NoConfig => \A o \in Options :
             c[o] = IF o \notin set /\ v[o] # Unset THEN Value(o, v[o].text) ELSE Default[o])
  <2> HIDE DEF set
  <2> DEFINE used == {o \in Options \ set : v[o] # Unset}
             made == [o \in Options |-> IF o \in used THEN Value(o, v[o].text) ELSE Default[o]]
  <2>1. c = IF \A o \in used : EnvAccepts(o, v[o]) THEN made ELSE NoConfig
    BY DEF FromEnv
  <2> HIDE DEF c
  <2>2. ASSUME \A o \in used : EnvAccepts(o, v[o]) PROVE made \in Configs
    <3>1. ASSUME NEW o \in Options
          PROVE  (o = "toolEvents" => made[o] \in Modes) /\ (o # "toolEvents" => made[o] \in Nat)
      <4>1. CASE o \in used
        <5>1. IsValue(o, v[o].text)
          BY <2>2, <4>1 DEF EnvAccepts
        <5> HIDE DEF used
        <5>2. made[o] = Value(o, v[o].text)
          BY <4>1
        <5> QED BY <5>1, <5>2, ValueType
      <4>2. CASE o \notin used
        <5>1. made[o] = Default[o]
          BY <4>2
        <5> QED BY <5>1, ConfigAssumption DEF Options
      <4> QED BY <4>1, <4>2
    <3>2. \A o \in Options : made[o] \in Modes \cup Nat
      BY <3>1
    <3>3. made \in [Options -> Modes \cup Nat]
      BY <3>2
    <3>4. "toolEvents" \in Options /\ "toolInputMaxBytes" \in Options
          /\ "toolResultMaxBytes" \in Options
      BY DEF Options
    <3> HIDE DEF made
    <3> QED BY <3>1, <3>3, <3>4 DEF Configs
  <2>3. \A o \in Options : made[o] = IF o \in used THEN Value(o, v[o].text) ELSE Default[o]
    OBVIOUS
  <2>4. \A o \in Options : o \in used <=> o \notin set /\ v[o] # Unset
    OBVIOUS
  <2>5. \A o \in used : o \in Options
    OBVIOUS
  <2> HIDE DEF made, used
  <2>6. CASE \A o \in used : EnvAccepts(o, v[o])
    <3>1. c = made /\ c \in Configs /\ c # NoConfig
      BY <2>1, <2>2, <2>6, NoConfigIsNone
    <3> QED BY <2>3, <2>4, <2>6, <3>1
  <2>7. CASE ~(\A o \in used : EnvAccepts(o, v[o]))
    <3>1. c = NoConfig
      BY <2>1, <2>7
    <3> QED BY <2>4, <2>5, <2>7, <3>1
  <2> QED BY <2>6, <2>7
<1>4. \A o \in Options : o \in given <=> \E i \in DOMAIN s : FlagOf(s, i, o)
  OBVIOUS
<1>5. Clean(s) => set = given
  BY <1>2, DetectedAll
<1>6. (\A o \in Options : \A i \in DOMAIN s : FlagOf(s, i, o) => i < n /\ ArgAccepts(o, s[i + 1]))
          <=> Clean(s) /\ ~Pending(s)
  <2> DEFINE Fine(o, i) == FlagOf(s, i, o) => i < n /\ ArgAccepts(o, s[i + 1])
  <2>1. ASSUME \A o \in Options : \A i \in DOMAIN s : Fine(o, i) PROVE Clean(s) /\ ~Pending(s)
    <3>1. Clean(s)
      BY <1>1, <2>1 DEF Clean
    <3>2. ASSUME Pending(s) PROVE FALSE
      <4>1. n \in DOMAIN s /\ IsFlag(s[n]) /\ s[n] \in Word
        BY <1>1, <3>2 DEF Pending
      <4>2. OptionOf[s[n].text] \in Options /\ FlagOf(s, n, OptionOf[s[n].text])
        BY <4>1, FlagFacts DEF FlagOf
      <4>3. n < n
        BY <2>1, <4>1, <4>2
      <4> QED BY <1>1, <4>3
    <3> QED BY <3>1, <3>2
  <2>2. ASSUME Clean(s), ~Pending(s), NEW o \in Options, NEW i \in DOMAIN s, FlagOf(s, i, o)
        PROVE  i < n /\ ArgAccepts(o, s[i + 1])
    <3>1. i # n
      BY <1>1, <2>2 DEF Pending, FlagOf
    <3>2. i \in 1 .. n - 1
      BY <1>1, <3>1
    <3> QED BY <1>1, <2>2, <3>2 DEF Clean
  <2> QED BY <2>1, <2>2
<1>7. ASSUME ~Clean(s) PROVE p = NoConfig
  <2>1. end.config = NoConfig
    <3>1. CASE c = NoConfig
      <4> HIDE DEF c
      <4> QED BY <3>1, TakenNone
    <3>2. CASE c # NoConfig
      <4> HIDE DEF c
      <4> QED BY <1>3, <1>7, <3>2, TakenFlags
    <3> QED BY <3>1, <3>2
  <2> HIDE DEF end, p
  <2> QED BY <1>2, <2>1
<1>8. ASSUME c = NoConfig PROVE p = NoConfig
  <2> HIDE DEF c
  <2>1. end.config = NoConfig
    BY <1>8, TakenNone
  <2> HIDE DEF end, p
  <2> QED BY <1>2, <2>1
<1>9. ASSUME Clean(s), c # NoConfig PROVE TakenAll(c, s, end.option, end.config) /\ c \in Configs
  <2> HIDE DEF c
  <2>1. c \in Configs
    BY <1>3, <1>9
  <2> QED BY <1>9, <2>1, TakenFlags
<1> HIDE DEF p, n, given, set, c, end
<1>10. ASSUME Clean(s), c # NoConfig, Pending(s) PROVE p = NoConfig
  <2>1. IsFlag(s[n]) /\ end.option = OptionOf[s[n].text] /\ n # 0
    BY <1>9, <1>10 DEF TakenAll, Pending, n
  <2>2. end.option \in Options
    BY <1>1, <2>1, FlagFacts
  <2> QED BY <1>2, <2>2, FlagFacts
<1>11. ASSUME Clean(s), c # NoConfig, ~Pending(s)
       PROVE  /\ p \in Configs /\ p # NoConfig
              /\ \A o \in Options :
                    \/ o \notin given /\ p[o] = c[o]
                    \/ \E i \in DOMAIN s : /\ FlagOf(s, i, o) /\ p[o] = Value(o, s[i + 1].text)
                                           /\ \A j \in DOMAIN s : FlagOf(s, j, o) => j <= i
  <2>1. TakenAll(c, s, end.option, end.config)
    BY <1>9, <1>11
  <2>2. p = end.config /\ p \in Configs
    BY <1>2, <1>11, <2>1 DEF TakenAll
  <2>3. ASSUME NEW o \in Options, NEW i \in DOMAIN s, FlagOf(s, i, o) PROVE i \in 1 .. n - 1
    <3>1. i < n
      BY <1>6, <1>11, <2>3
    <3> QED BY <1>1, <3>1
  <2>4. ASSUME NEW o \in Options
        PROVE  \/ o \notin given /\ p[o] = c[o]
               \/ \E i \in DOMAIN s : /\ FlagOf(s, i, o) /\ p[o] = Value(o, s[i + 1].text)
                                      /\ \A j \in DOMAIN s : FlagOf(s, j, o) => j <= i
    <3>1. CASE Unflagged(s, o) /\ p[o] = c[o]
      <4>1. o \notin given
        BY <1>4, <2>3, <3>1 DEF Unflagged, n
      <4> QED BY <3>1, <4>1
    <3>2. CASE \E i \in 1 .. n - 1 : LastFlag(s, i, o) /\ p[o] = Value(o, s[i + 1].text)
      <4>1. PICK i \in 1 .. n - 1 : LastFlag(s, i, o) /\ p[o] = Value(o, s[i + 1].text)
        BY <3>2
      <4>2. FlagOf(s, i, o) /\ \A j \in 1 .. n - 1 : FlagOf(s, j, o) => j <= i
        BY <4>1 DEF LastFlag, n
      <4>3. i \in DOMAIN s /\ \A j \in DOMAIN s : FlagOf(s, j, o) => j <= i
        BY <1>1, <2>3, <4>2
      <4> QED BY <4>1, <4>2, <4>3
    <3> QED BY <2>1, <2>2, <3>1, <3>2 DEF TakenAll, n
  <2> QED BY <2>2, <2>4, NoConfigIsNone
<1>12. p # NoConfig <=> Clean(s) /\ c # NoConfig /\ ~Pending(s)
  BY <1>7, <1>8, <1>10, <1>11
<1>13. p # NoConfig => p \in Configs
  BY <1>11, <1>12
<1>14. ASSUME Clean(s)
       PROVE  c # NoConfig <=> \A o \in Options : o \notin given /\ v[o] # Unset => EnvAccepts(o, v[o])
  BY <1>3, <1>5, <1>14
<1>15. p # NoConfig <=>
           \A o \in Options :
              /\ \A i \in DOMAIN s : FlagOf(s, i, o) => i < n /\ ArgAccepts(o, s[i + 1])
              /\ o \notin given /\ v[o] # Unset => EnvAccepts(o, v[o])
  BY <1>6, <1>12, <1>14
<1>16. ASSUME p # NoConfig, NEW o \in Options
       PROVE  \/ o \notin given /\ p[o] = IF o \notin given /\ v[o] # Unset
                                          THEN Value(o, v[o].text) ELSE Default[o]
              \/ \E i \in DOMAIN s : /\ FlagOf(s, i, o) /\ p[o] = Value(o, s[i + 1].text)
                                     /\ \A j \in DOMAIN s : FlagOf(s, j, o) => j <= i
  <2>1. c # NoConfig /\ set = given
    BY <1>5, <1>12, <1>16
  <2>2. c[o] = IF o \notin given /\ v[o] # Unset THEN Value(o, v[o].text) ELSE Default[o]
    BY <1>3, <2>1
  <2> QED BY <1>11, <1>12, <1>16, <2>2
<1> QED BY <1>4, <1>13, <1>15, <1>16, Zenon DEF p, n

-----------------------------------------------------------------------------
\* The tool updates of a line.
Updated(c) == [e \in Event |-> UpdateFromTranscriptEvent(e, c)]

\* They are those of its tool events, in the same order.
LEMMA ToolUpdatesOf ==
    ASSUME NEW c \in Configs
    PROVE  \A s \in Seq(Event) :
               Among(UpdatesOf(s, c), ToolUpdate) =
                   IF c["toolEvents"] = "off" THEN <<>>
                   ELSE Mapped(Updated(c), Among(s, ToolEvent))
<1> DEFINE U == Updated(c)
           Y == Chunk \cup ToolUpdate \cup {NoUpdate}
           T == {s \in Seq(Event) : Among(UpdatesOf(s, c), ToolUpdate) =
                   IF c["toolEvents"] = "off" THEN <<>> ELSE Mapped(U, Among(s, ToolEvent))}
<1>1. U \in [Event -> Y] /\ \A e \in Event : U[e] = UpdateFromTranscriptEvent(e, c)
  BY UpdateFacts DEF Updated
<1> HIDE DEF U
<1>2. /\ Mapped(U, <<>>) = <<>>
      /\ \A s \in Seq(Event) : \A x \in Event : Mapped(U, Append(s, x)) = Append(Mapped(U, s), U[x])
  <2> HIDE DEF Y
  <2>1. MapsEach(U, Event, Y)
    BY <1>1, MappedAppend
  <2> QED BY <2>1 DEF MapsEach
<1>3. <<>> \in T
  <2>1. UpdatesOf(<<>>, c) = <<>> /\ <<>> \in Seq(Event)
    BY UpdatesFold
  <2>2. Among(<<>>, ToolUpdate) = <<>> /\ Among(<<>>, ToolEvent) = <<>>
    BY AmongEmpty
  <2>3. Among(UpdatesOf(<<>>, c), ToolUpdate) = <<>> /\ Mapped(U, Among(<<>>, ToolEvent)) = <<>>
    BY <1>2, <2>1, <2>2
  <2> QED BY <2>1, <2>3
<1>4. ASSUME NEW s \in Seq(Event), NEW e \in Event, s \in T PROVE Append(s, e) \in T
  <2> DEFINE us == UpdatesOf(s, c)
             u == UpdateFromTranscriptEvent(e, c)
             on == c["toolEvents"] # "off"
  <2>1. us \in Seq(Update) /\ UpdatesOf(Append(s, e), c) = Forward(us, e, c)
    BY UpdatesFold
  <2>2. Forward(us, e, c) = IF u = NoUpdate THEN us ELSE Append(us, u)
    BY DEF Forward
  <2>3. (u # NoUpdate => u \in Update) /\ (u \in ToolUpdate <=> e \in ToolEvent /\ on)
        /\ NoUpdate \notin ToolUpdate
    <3>1. NoUpdate \notin ToolUpdate
      BY DEF NoUpdate, ToolUpdate
    <3> QED BY <3>1, UpdateFacts DEF Update
  <2>4. Among(us, ToolUpdate) = IF ~on THEN <<>> ELSE Mapped(U, Among(s, ToolEvent))
    BY <1>4
  <2>5. Among(Append(s, e), ToolEvent) =
            IF e \in ToolEvent THEN Append(Among(s, ToolEvent), e) ELSE Among(s, ToolEvent)
    BY AmongAppend
  <2>10. Among(s, ToolEvent) \in Seq(Event)
    BY AmongType
  <2>11. Append(s, e) \in Seq(Event)
    OBVIOUS
  <2>6. U[e] = u
    BY <1>1
  <2> HIDE DEF us, u
  <2>7. u # NoUpdate => Among(Append(us, u), ToolUpdate) =
            IF u \in ToolUpdate THEN Append(Among(us, ToolUpdate), u) ELSE Among(us, ToolUpdate)
    BY <2>1, <2>3, AmongAppend
  <2>8. Among(UpdatesOf(Append(s, e), c), ToolUpdate) =
            IF u \in ToolUpdate THEN Append(Among(us, ToolUpdate), u) ELSE Among(us, ToolUpdate)
    BY <2>1, <2>2, <2>3, <2>7
  <2>9. Among(UpdatesOf(Append(s, e), c), ToolUpdate) =
            IF ~on THEN <<>> ELSE Mapped(U, Among(Append(s, e), ToolEvent))
    <3>1. CASE ~on
      BY <2>3, <2>4, <2>8, <3>1
    <3>2. CASE on /\ e \in ToolEvent
      <4>1. Mapped(U, Append(Among(s, ToolEvent), e)) = Append(Mapped(U, Among(s, ToolEvent)), u)
        <5> DEFINE m == Among(s, ToolEvent)
        <5>1. m \in Seq(Event)
          BY <2>10
        <5> HIDE DEF m
        <5> QED BY <1>2, <2>6, <5>1 DEF m
      <4>2. Among(Append(s, e), ToolEvent) = Append(Among(s, ToolEvent), e)
        BY <2>5, <3>2
      <4>3. Among(UpdatesOf(Append(s, e), c), ToolUpdate) = Append(Mapped(U, Among(s, ToolEvent)), u)
        BY <2>3, <2>4, <2>8, <3>2
      <4> QED BY <3>2, <4>1, <4>2, <4>3
    <3>3. CASE on /\ e \notin ToolEvent
      <4>1. Among(Append(s, e), ToolEvent) = Among(s, ToolEvent)
        BY <2>5, <3>3
      <4>2. Among(UpdatesOf(Append(s, e), c), ToolUpdate) = Among(us, ToolUpdate)
        BY <2>3, <2>8, <3>3
      <4> QED BY <2>4, <3>3, <4>1, <4>2
    <3> QED BY <3>1, <3>2, <3>3
  <2> QED BY <2>9, <2>11
<1> HIDE DEF T
<1>5. \A s \in Seq(Event) : s \in T
  BY <1>3, <1>4, SequenceInduction
<1> QED BY <1>5 DEF T, U

\* The blocks that carry a payload of a tool.
Carriers(type) == [type : {type}, text : Texts, data : Payload]

\* They are told by their type.
LEMMA CarrierFacts ==
    ASSUME NEW type, NEW b \in Blocks
    PROVE  /\ b \in Carriers(type) <=> b.type = type
           /\ b.data \in Payload
  BY DEF Blocks, Carriers

\* The tool events of an assistant line are its calls.
LEMMA CallsOf ==
    \A s \in Seq(Blocks) :
        Among(Assisting(s).events, ToolEvent) =
            Mapped([b \in Blocks |-> Tool(b.data)], Among(s, Carriers("tool_use")))
<1> DEFINE V == [b \in Blocks |-> Tool(b.data)]
           C == Carriers("tool_use")
           T == {s \in Seq(Blocks) : Among(Assisting(s).events, ToolEvent) = Mapped(V, Among(s, C))}
<1>1. V \in [Blocks -> Event] /\ \A b \in Blocks : V[b] = Tool(b.data) /\ V[b] \in ToolEvent
  BY CarrierFacts, EventForms
<1>2. \A b \in Blocks : b \in C <=> b.type = "tool_use"
  BY CarrierFacts
<1> HIDE DEF V, C
<1>3. /\ Mapped(V, <<>>) = <<>>
      /\ \A s \in Seq(Blocks) : \A x \in Blocks : Mapped(V, Append(s, x)) = Append(Mapped(V, s), V[x])
  <2>1. V \in [Blocks -> Event]
    BY <1>1
  <2>2. MapsEach(V, Blocks, Event)
    BY <2>1, MappedAppend
  <2> QED BY <2>2 DEF MapsEach
<1>4. <<>> \in T
  <2>1. Assisting(<<>>) = [events |-> <<>>, texts |-> <<>>] /\ <<>> \in Seq(Blocks)
    BY AssistantFold
  <2>2. Assisting(<<>>).events = <<>>
    BY <2>1
  <2>3. Among(<<>>, ToolEvent) = <<>> /\ Among(<<>>, C) = <<>>
    BY AmongEmpty
  <2>4. Among(Assisting(<<>>).events, ToolEvent) = Mapped(V, Among(<<>>, C))
    BY <1>3, <2>2, <2>3
  <2> QED BY <2>1, <2>4
<1>5. ASSUME NEW s \in Seq(Blocks), NEW b \in Blocks, s \in T PROVE Append(s, b) \in T
  <2> DEFINE acc == Assisting(s)
             es == acc.events
             text == Text(acc.texts, "")
             next == AssistantBlock(acc, b)
  <2>1. acc \in Acc /\ Assisting(Append(s, b)) = next
    BY AssistantFold
  <2>2. Among(es, ToolEvent) = Mapped(V, Among(s, C))
    BY <1>5
  <2>3. Append(s, b) \in Seq(Blocks)
    OBVIOUS
  <2>12. Among(Append(s, b), C) = IF b \in C THEN Append(Among(s, C), b) ELSE Among(s, C)
    BY AmongAppend
  <2>13. Among(s, C) \in Seq(Blocks)
    BY AmongType
  <2>14. Mapped(V, Append(Among(s, C), b)) = Append(Mapped(V, Among(s, C)), V[b])
    <3> DEFINE m == Among(s, C)
    <3>1. m \in Seq(Blocks)
      BY <2>13
    <3> HIDE DEF m
    <3> QED BY <1>3, <3>1 DEF m
  <2>4. es \in Seq(Event) /\ text \in Event /\ text \notin ToolEvent
    <3>1. acc.texts \in Seq(Texts) /\ "" \in Reason
      BY <2>1 DEF Acc, Reason
    <3>2. text \in Event /\ text.type = "text"
      BY <3>1, EventForms DEF Text
    <3>3. es \in Seq(Event)
      BY <2>1 DEF Acc
    <3> QED BY <3>2, <3>3 DEF ToolEvent
  <2>5. /\ b.type = "bad" => next.events = Append(es, Other("diagnostic"))
        /\ b.type # "bad" /\ b.type # "tool_use" => next.events = es
    <3>1. ASSUME b.type = "bad" PROVE next.events = Append(es, Other("diagnostic"))
      BY <2>1, <3>1 DEF AssistantBlock, Acc
    <3>2. ASSUME b.type = "text" /\ b.text # "" PROVE next.events = es
      BY <2>1, <3>2 DEF AssistantBlock, Acc
    <3>3. ASSUME b.type # "bad", b.type # "tool_use", ~(b.type = "text" /\ b.text # "")
          PROVE  next = acc
      BY <3>3 DEF AssistantBlock
    <3> QED BY <3>1, <3>2, <3>3
  <2>6. ASSUME b.type = "tool_use"
        PROVE  \/ next.events = Append(es, Tool(b.data))
               \/ next.events = Append(Append(es, text), Tool(b.data))
    <3> DEFINE flushed == Flush(acc, "")
    <3>1. /\ flushed \in Acc
          /\ flushed = IF acc.texts = <<>> THEN acc
                       ELSE [events |-> Append(es, text), texts |-> <<>>]
      <4>1. "" \in Reason
        BY DEF Reason
      <4> QED BY <2>1, <4>1, FlushFacts
    <3>2. next = [flushed EXCEPT !.events = Append(@, Tool(b.data))]
      BY <2>6 DEF AssistantBlock
    <3> HIDE DEF flushed, next, text
    <3>3. next.events = Append(flushed.events, Tool(b.data))
      BY <3>1, <3>2 DEF Acc
    <3>4. flushed.events = es \/ flushed.events = Append(es, text)
      <4>1. CASE acc.texts = <<>>
        BY <3>1, <4>1
      <4>2. CASE acc.texts # <<>>
        <5>1. flushed = [events |-> Append(es, text), texts |-> <<>>]
          BY <3>1, <4>2
        <5>2. flushed.events = Append(es, text)
          BY <5>1
        <5> QED BY <5>2
      <4> QED BY <4>1, <4>2
    <3> QED BY <3>3, <3>4
  <2>7. Other("diagnostic") \in Event /\ Other("diagnostic") \notin ToolEvent
    <3>1. Other("diagnostic") \in Event /\ Other("diagnostic").type = "diagnostic"
      BY EventForms DEF Other
    <3> QED BY <3>1 DEF ToolEvent
  <2>8. V[b] = Tool(b.data) /\ Tool(b.data) \in Event /\ Tool(b.data) \in ToolEvent
    BY <1>1
  <2> HIDE DEF acc, es, text, next
  <2>9. CASE b.type = "bad"
    <3>1. Among(Append(es, Other("diagnostic")), ToolEvent) = Among(es, ToolEvent)
      BY <2>4, <2>7, AmongAppend
    <3>2. Among(Append(s, b), C) = Among(s, C)
      BY <1>2, <2>12, <2>9
    <3> QED BY <2>1, <2>2, <2>3, <2>5, <2>9, <3>1, <3>2
  <2>10. CASE b.type # "bad" /\ b.type # "tool_use"
    <3>1. Among(Append(s, b), C) = Among(s, C)
      BY <1>2, <2>12, <2>10
    <3> QED BY <2>1, <2>2, <2>3, <2>5, <2>10, <3>1
  <2>11. CASE b.type = "tool_use"
    <3>1. Among(Append(s, b), C) = Append(Among(s, C), b)
      BY <1>2, <2>12, <2>11
    <3>2. Mapped(V, Append(Among(s, C), b)) = Append(Mapped(V, Among(s, C)), V[b])
      BY <2>14
    <3>3. Among(Append(es, text), ToolEvent) = Among(es, ToolEvent) /\ Append(es, text) \in Seq(Event)
      BY <2>4, AmongAppend
    <3>4. ASSUME NEW ev \in Seq(Event)
          PROVE  Among(Append(ev, Tool(b.data)), ToolEvent) = Append(Among(ev, ToolEvent), Tool(b.data))
      BY <2>8, AmongAppend
    <3>5. Among(next.events, ToolEvent) = Append(Among(es, ToolEvent), Tool(b.data))
      <4>1. CASE next.events = Append(es, Tool(b.data))
        BY <2>4, <3>4, <4>1
      <4>2. CASE next.events = Append(Append(es, text), Tool(b.data))
        BY <3>3, <3>4, <4>2
      <4> QED BY <2>6, <2>11, <4>1, <4>2
    <3>6. Among(next.events, ToolEvent) = Mapped(V, Among(Append(s, b), C))
      BY <2>2, <2>8, <3>1, <3>2, <3>5
    <3> QED BY <2>1, <2>3, <3>6
  <2> QED BY <2>9, <2>10, <2>11
<1> HIDE DEF T
<1>6. \A s \in Seq(Blocks) : s \in T
  BY <1>4, <1>5, SequenceInduction
<1> QED BY <1>6 DEF T, V, C

\* The tool events of a user line are its results.
LEMMA ResultsOf ==
    \A s \in Seq(Blocks) :
        Among(Using(s), ToolEvent) =
            Mapped([b \in Blocks |-> Result(b.data)], Among(s, Carriers("tool_result")))
<1> DEFINE V == [b \in Blocks |-> Result(b.data)]
           C == Carriers("tool_result")
           T == {s \in Seq(Blocks) : Among(Using(s), ToolEvent) = Mapped(V, Among(s, C))}
<1>1. V \in [Blocks -> Event] /\ \A b \in Blocks : V[b] = Result(b.data) /\ V[b] \in ToolEvent
  BY CarrierFacts, EventForms
<1>2. \A b \in Blocks : b \in C <=> b.type = "tool_result"
  BY CarrierFacts
<1> HIDE DEF V, C
<1>3. /\ Mapped(V, <<>>) = <<>>
      /\ \A s \in Seq(Blocks) : \A x \in Blocks : Mapped(V, Append(s, x)) = Append(Mapped(V, s), V[x])
  <2>1. V \in [Blocks -> Event]
    BY <1>1
  <2>2. MapsEach(V, Blocks, Event)
    BY <2>1, MappedAppend
  <2> QED BY <2>2 DEF MapsEach
<1>4. <<>> \in T
  <2>1. Using(<<>>) = <<>> /\ <<>> \in Seq(Blocks)
    BY UserFold
  <2>2. Among(<<>>, ToolEvent) = <<>> /\ Among(<<>>, C) = <<>>
    BY AmongEmpty
  <2>3. Among(Using(<<>>), ToolEvent) = Mapped(V, Among(<<>>, C))
    BY <1>3, <2>1, <2>2
  <2> QED BY <2>1, <2>3
<1>5. ASSUME NEW s \in Seq(Blocks), NEW b \in Blocks, s \in T PROVE Append(s, b) \in T
  <2> DEFINE es == Using(s)
             next == UserBlock(es, b)
  <2>1. es \in Seq(Event) /\ Using(Append(s, b)) = next
    BY UserFold
  <2>2. Among(es, ToolEvent) = Mapped(V, Among(s, C))
    BY <1>5
  <2>3. Append(s, b) \in Seq(Blocks)
    OBVIOUS
  <2>12. Among(Append(s, b), C) = IF b \in C THEN Append(Among(s, C), b) ELSE Among(s, C)
    BY AmongAppend
  <2>13. Among(s, C) \in Seq(Blocks)
    BY AmongType
  <2>14. Mapped(V, Append(Among(s, C), b)) = Append(Mapped(V, Among(s, C)), V[b])
    <3> DEFINE m == Among(s, C)
    <3>1. m \in Seq(Blocks)
      BY <2>13
    <3> HIDE DEF m
    <3> QED BY <1>3, <3>1 DEF m
  <2>4. /\ b.type = "bad" => next = Append(es, Other("diagnostic"))
        /\ b.type = "tool_result" => next = Append(es, Result(b.data))
        /\ b.type # "bad" /\ b.type # "tool_result" => next = es
    BY DEF UserBlock
  <2>5. Other("diagnostic") \in Event /\ Other("diagnostic") \notin ToolEvent
    <3>1. Other("diagnostic") \in Event /\ Other("diagnostic").type = "diagnostic"
      BY EventForms DEF Other
    <3> QED BY <3>1 DEF ToolEvent
  <2>6. V[b] = Result(b.data) /\ Result(b.data) \in Event /\ Result(b.data) \in ToolEvent
    BY <1>1
  <2> HIDE DEF es, next
  <2>7. CASE b.type = "bad"
    <3>1. Among(Append(es, Other("diagnostic")), ToolEvent) = Among(es, ToolEvent)
      BY <2>1, <2>5, AmongAppend
    <3>2. Among(Append(s, b), C) = Among(s, C)
      BY <1>2, <2>12, <2>7
    <3> QED BY <2>1, <2>2, <2>3, <2>4, <2>7, <3>1, <3>2
  <2>8. CASE b.type = "tool_result"
    <3>1. Among(Append(s, b), C) = Append(Among(s, C), b)
      BY <1>2, <2>12, <2>8
    <3>2. Mapped(V, Append(Among(s, C), b)) = Append(Mapped(V, Among(s, C)), V[b])
      BY <2>14
    <3>3. Among(Append(es, Result(b.data)), ToolEvent) = Append(Among(es, ToolEvent), Result(b.data))
      BY <2>1, <2>6, AmongAppend
    <3>4. Among(next, ToolEvent) = Mapped(V, Among(Append(s, b), C))
      BY <2>2, <2>4, <2>6, <2>8, <3>1, <3>2, <3>3
    <3> QED BY <2>1, <2>3, <3>4
  <2>9. CASE b.type # "bad" /\ b.type # "tool_result"
    <3>1. Among(Append(s, b), C) = Among(s, C)
      BY <1>2, <2>12, <2>9
    <3> QED BY <2>1, <2>2, <2>3, <2>4, <2>9, <3>1
  <2> QED BY <2>7, <2>8, <2>9
<1> HIDE DEF T
<1>6. \A s \in Seq(Blocks) : s \in T
  BY <1>4, <1>5, SequenceInduction
<1> QED BY <1>6 DEF T, V, C

\* No tool event among others.
LEMMA NoToolEvents ==
    ASSUME NEW s \in Seq(Event), \A k \in DOMAIN s : s[k] \notin ToolEvent
    PROVE  Among(s, ToolEvent) = <<>>
  BY AmongNone

\* The carrier of the payloads of a line.
Carrier(r) == IF r.type = "assistant" THEN "tool_use" ELSE "tool_result"

\* A tool event of a line that decodes, for each of its payloads.
LEMMA ToolEventsOf ==
    ASSUME NEW r \in Lines
    PROVE  LET found == Among(ParseTranscriptEvents(r), ToolEvent)
               payloads == Among(r.blocks, Carriers(Carrier(r)))
           IN  \/ found = <<>>
               \/ found = Mapped([b \in Blocks |-> Tool(b.data)], payloads)
               \/ found = Mapped([b \in Blocks |-> Result(b.data)], payloads)
<1> DEFINE events == ParseTranscriptEvents(r)
<1>1. CASE Answering(r)
  <2> DEFINE acc == Assisting(r.blocks)
             es == acc.events
             text == Text(acc.texts, r.stop)
             flushed == Flush(acc, r.stop).events
  <2>1. flushed \in Seq(Event) /\ acc \in Acc /\ text \in TextEvent
    BY LastFlush
  <2>2. flushed = es \/ flushed = Append(es, text)
    BY LastFlush
  <2>3. Among(es, ToolEvent) =
            Mapped([b \in Blocks |-> Tool(b.data)], Among(r.blocks, Carriers("tool_use")))
    BY LineParts, CallsOf
  <2>4. events = Cat(flushed, Usage(r))
    BY <1>1, ParseCases
  <2>5. Usage(r) \in Seq(Event) /\ Among(Usage(r), ToolEvent) = <<>>
    <3>1. Other("usage") \in Event /\ Other("usage").type = "usage"
      BY EventForms DEF Other
    <3>2. Other("usage") \notin ToolEvent
      BY <3>1 DEF ToolEvent
    <3>3. Usage(r) \in Seq(Event) /\ \A k \in DOMAIN Usage(r) : Usage(r)[k] \notin ToolEvent
      BY <3>1, <3>2 DEF Usage
    <3> QED BY <3>3, NoToolEvents
  <2>6. text \in Event /\ text \notin ToolEvent /\ es \in Seq(Event)
    <3>1. text \in Event /\ text.type = "text"
      BY <2>1 DEF Event, TextEvent
    <3>2. es \in Seq(Event)
      BY <2>1 DEF Acc
    <3> QED BY <3>1, <3>2 DEF ToolEvent
  <2> HIDE DEF events, acc, es, text, flushed
  <2>7. Among(flushed, ToolEvent) = Among(es, ToolEvent)
    <3>1. Among(Append(es, text), ToolEvent) = Among(es, ToolEvent)
      BY <2>6, AmongAppend
    <3> QED BY <2>2, <3>1
  <2>8. Among(events, ToolEvent) = Among(flushed, ToolEvent)
    <3> DEFINE u == Usage(r)
               m == Among(flushed, ToolEvent)
    <3>1. u \in Seq(Event) /\ Among(u, ToolEvent) = <<>>
      BY <2>5
    <3> HIDE DEF u
    <3>2. Among(Cat(flushed, u), ToolEvent) = Cat(m, Among(u, ToolEvent))
      BY <2>1, <3>1, AmongConcat
    <3>3. m \in Seq(Event)
      BY <2>1, AmongType
    <3> HIDE DEF m
    <3>4. Cat(m, <<>>) = m
      BY <3>3, Cats
    <3> QED BY <2>4, <3>1, <3>2, <3>4 DEF u, m
  <2>9. Carrier(r) = "tool_use"
    BY <1>1 DEF Answering, Carrier
  <2> QED BY <2>3, <2>7, <2>8, <2>9 DEF events
<1>2. CASE r.type = "user" /\ ~r.broken
  <2>1. events = Using(r.blocks)
    BY <1>2, ParseCases
  <2>2. Among(Using(r.blocks), ToolEvent) =
            Mapped([b \in Blocks |-> Result(b.data)], Among(r.blocks, Carriers("tool_result")))
    BY LineParts, ResultsOf
  <2>3. Carrier(r) = "tool_result"
    BY <1>2 DEF Carrier
  <2> QED BY <2>1, <2>2, <2>3
<1>3. CASE ~Answering(r) /\ ~(r.type = "user" /\ ~r.broken)
  <2>1. events = <<>> \/ \E e \in OtherEvent : events = <<e>>
    BY <1>3, ParseCases
  <2>2. events \in Seq(Event)
    BY ParseType
  <2> HIDE DEF events
  <2>3. ASSUME NEW k \in DOMAIN events PROVE events[k] \notin ToolEvent
    <3>1. PICK e \in OtherEvent : events = <<e>>
      BY <2>1, <2>3
    <3>2. events[k] = e
      BY <2>3, <3>1
    <3> QED BY <3>2 DEF OtherEvent, ToolEvent
  <2>4. Among(events, ToolEvent) = <<>>
    BY <2>2, <2>3, NoToolEvents
  <2> QED BY <2>4 DEF events
<1> QED BY <1>1, <1>2, <1>3

\* The update of a tool event.
LEMMA UpdateOfTool ==
    ASSUME NEW c \in Configs, c["toolEvents"] # "off", NEW data \in Payload, NEW e,
           e = Tool(data) \/ e = Result(data)
    PROVE  /\ Marked(UpdateFromTranscriptEvent(e, c), data, c)
           /\ Limited(UpdateFromTranscriptEvent(e, c), data, c)
<1>1. CASE e = Tool(data)
  <2>1. e.type = "tool"
    BY <1>1 DEF Tool
  <2>2. UpdateFromTranscriptEvent(e, c) = CallUpdate(e, c)
    BY <2>1 DEF UpdateFromTranscriptEvent
  <2> QED BY <1>1, <2>2, CallFacts
<1>2. CASE e = Result(data)
  <2>1. e.type = "result"
    BY <1>2 DEF Result
  <2>2. UpdateFromTranscriptEvent(e, c) = ResultUpdate(e, c)
    BY <2>1 DEF UpdateFromTranscriptEvent
  <2> QED BY <1>2, <2>2, ResultFacts
<1> QED BY <1>1, <1>2

\* A tool update is that of the payload at its place, cut and marked as it should.
LEMMA ToolUpdateFacts ==
    ASSUME NEW r \in Lines, NEW c \in Configs
    PROVE  LET found == Among(UpdatesOf(ParseTranscriptEvents(r), c), ToolUpdate)
               payloads == Among(r.blocks, Carriers(Carrier(r)))
           IN  \A k \in DOMAIN found :
                   Marked(found[k], payloads[k].data, c) /\ Limited(found[k], payloads[k].data, c)
<1> DEFINE events == ParseTranscriptEvents(r)
           tools == Among(events, ToolEvent)
           found == Among(UpdatesOf(events, c), ToolUpdate)
           payloads == Among(r.blocks, Carriers(Carrier(r)))
           V == [b \in Blocks |-> Tool(b.data)]
           W == [b \in Blocks |-> Result(b.data)]
           U == Updated(c)
<1>1. found = IF c["toolEvents"] = "off" THEN <<>> ELSE Mapped(U, tools)
  BY ParseType, ToolUpdatesOf
<1>2. tools = <<>> \/ tools = Mapped(V, payloads) \/ tools = Mapped(W, payloads)
  BY ToolEventsOf
<1>3. payloads \in Seq(Blocks)
  BY LineParts, AmongType
<1>4. /\ \A b \in Blocks : V[b] = Tool(b.data) /\ W[b] = Result(b.data)
      /\ \A b \in Blocks : V[b] \in Event /\ W[b] \in Event /\ b.data \in Payload
  BY CarrierFacts, EventForms
<1>5. \A e \in Event : U[e] = UpdateFromTranscriptEvent(e, c)
  BY DEF Updated
<1> HIDE DEF U, V, W, payloads, found, tools
<1>6. ASSUME NEW k \in DOMAIN found
      PROVE  Marked(found[k], payloads[k].data, c) /\ Limited(found[k], payloads[k].data, c)
  <2>1. c["toolEvents"] # "off" /\ found = Mapped(U, tools)
    BY <1>1, <1>6
  <2>2. k \in DOMAIN tools /\ found[k] = U[tools[k]]
    BY <1>6, <2>1 DEF Mapped
  <2>3. k \in DOMAIN payloads /\ (tools[k] = V[payloads[k]] \/ tools[k] = W[payloads[k]])
    <3>1. CASE tools = <<>>
      BY <2>2, <3>1
    <3>2. CASE tools = Mapped(V, payloads)
      BY <2>2, <3>2 DEF Mapped
    <3>3. CASE tools = Mapped(W, payloads)
      BY <2>2, <3>3 DEF Mapped
    <3> QED BY <1>2, <3>1, <3>2, <3>3
  <2>4. PICK b \in Blocks : b = payloads[k]
    BY <1>3, <2>3
  <2>5. PICK e \in Event : e = tools[k] /\ (e = Tool(b.data) \/ e = Result(b.data))
    BY <1>4, <2>3, <2>4
  <2>6. found[k] = UpdateFromTranscriptEvent(e, c)
    BY <1>5, <2>2, <2>5
  <2>7. b.data \in Payload
    BY <1>4
  <2> QED BY <2>1, <2>4, <2>5, <2>6, <2>7, UpdateOfTool
<1> QED BY <1>6 DEF found, payloads

-----------------------------------------------------------------------------
\* The order of text and tool calls.
Shown == Texts \cup {"tool"}
Seen == {"word", "tool"}
Asked(c) == {"word"} \cup (IF c["toolEvents"] = "off" THEN {} ELSE {"tool"})
PartsOf(u) == IF u.type = "agent_message_chunk" THEN u.parts ELSE <<"tool">>
ItemOf(b) == IF b.type = "text" THEN b.text ELSE IF b.type = "tool_use" THEN "tool" ELSE "blank"

\* Updates are read one by one.
LEMMA ChunksAppend ==
    /\ Chunks(<<>>) = <<>>
    /\ \A us \in Seq(Update) : Chunks(us) \in Seq(Shown)
    /\ \A us \in Seq(Update) : \A u \in Update : Chunks(Append(us, u)) = Cat(Chunks(us), PartsOf(u))
<1> DEFINE P == [u \in Update |-> PartsOf(u)]
<1>1. P \in [Update -> Seq(Shown)] /\ \A u \in Update : P[u] = PartsOf(u)
  <2>1. ASSUME NEW u \in Update PROVE PartsOf(u) \in Seq(Shown)
    <3>1. CASE u.type = "agent_message_chunk"
      <4>1. u.parts \in Seq(Texts)
        BY <3>1 DEF Update, Chunk, ToolUpdate
      <4>2. \A t \in Texts : t \in Shown
        BY DEF Shown
      <4>3. u.parts \in Seq(Shown)
        BY <4>1, <4>2
      <4> QED BY <3>1, <4>3 DEF PartsOf
    <3>2. CASE u.type # "agent_message_chunk"
      BY <3>2 DEF PartsOf, Shown
    <3> QED BY <3>1, <3>2
  <2> QED BY <2>1
<1>2. ASSUME NEW us \in Seq(Update) PROVE Chunks(us) = FlattenSeq(Mapped(P, us))
  <2>1. \A k \in DOMAIN us : P[us[k]] = PartsOf(us[k])
    BY <1>1
  <2>2. [k \in DOMAIN us |-> PartsOf(us[k])] = Mapped(P, us)
    <3> HIDE DEF P
    <3> QED BY <2>1 DEF Mapped
  <2>3. Chunks(us) = FlattenSeq([k \in DOMAIN us |-> PartsOf(us[k])])
    BY DEF Chunks, PartsOf
  <2> QED BY <2>2, <2>3
<1> HIDE DEF P
<1>3. /\ Mapped(P, <<>>) = <<>>
      /\ \A s \in Seq(Update) : Mapped(P, s) \in Seq(Seq(Shown)) /\ Len(Mapped(P, s)) = Len(s)
      /\ \A s \in Seq(Update) : \A x \in Update : Mapped(P, Append(s, x)) = Append(Mapped(P, s), P[x])
  <2>1. MapsEach(P, Update, Seq(Shown))
    BY <1>1, MappedAppend
  <2> QED BY <2>1 DEF MapsEach
<1>4. /\ FlattenSeq(<<>>) = <<>>
      /\ \A s \in Seq(Seq(Shown)) : FlattenSeq(s) \in Seq(Shown)
      /\ \A s \in Seq(Seq(Shown)) : \A x \in Seq(Shown) :
             FlattenSeq(Append(s, x)) = Cat(FlattenSeq(s), x)
  BY FlattenAppend
<1>5. Chunks(<<>>) = <<>>
  <2>1. <<>> \in Seq(Update)
    OBVIOUS
  <2> QED BY <1>2, <1>3, <1>4, <2>1
<1>6. ASSUME NEW us \in Seq(Update) PROVE Chunks(us) \in Seq(Shown)
  BY <1>2, <1>3, <1>4
<1>7. ASSUME NEW us \in Seq(Update), NEW u \in Update
      PROVE  Chunks(Append(us, u)) = Cat(Chunks(us), PartsOf(u))
  <2>1. Append(us, u) \in Seq(Update) /\ P[u] \in Seq(Shown) /\ P[u] = PartsOf(u)
    BY <1>1
  <2>2. Chunks(Append(us, u)) = FlattenSeq(Append(Mapped(P, us), P[u]))
    BY <1>2, <1>3, <2>1
  <2>3. Mapped(P, us) \in Seq(Seq(Shown))
    BY <1>3
  <2>4. FlattenSeq(Append(Mapped(P, us), P[u])) = Cat(FlattenSeq(Mapped(P, us)), P[u])
    BY <1>4, <2>1, <2>3
  <2> QED BY <1>2, <2>1, <2>2, <2>4
<1> QED BY <1>5, <1>6, <1>7

\* One element at the end.
LEMMA CatOne ==
    ASSUME NEW X, NEW s \in Seq(X), NEW x \in X
    PROVE  /\ Append(<<>>, x) \in Seq(X)
           /\ Cat(s, Append(<<>>, x)) = Append(s, x)
<1>1. PICK e : e = <<>>
  OBVIOUS
<1>2. e \in Seq(X) /\ Append(e, x) \in Seq(X)
  BY <1>1
<1>3. Append(Cat(s, e), x) = Cat(s, Append(e, x))
  BY <1>2, Cats
<1>4. Cat(s, e) = s
  BY <1>1, Cats
<1> QED BY <1>1, <1>2, <1>3, <1>4

\* What a client sees of events.
Sees(s, c) == Among(Chunks(UpdatesOf(s, c)), Seen)

\* Of one event more: of a text its words, of a tool that it is one, or nothing.
LEMMA SeesAppend ==
    ASSUME NEW c \in Configs, NEW s \in Seq(Event), NEW e \in Event
    PROVE  /\ Sees(s, c) \in Seq(Shown)
           /\ e \in TextEvent => Sees(Append(s, e), c) = Cat(Sees(s, c), Among(e.parts, Seen))
           /\ e \in ToolEvent /\ c["toolEvents"] # "off" =>
                  Sees(Append(s, e), c) = Append(Sees(s, c), "tool")
           /\ e \notin TextEvent /\ ~(e \in ToolEvent /\ c["toolEvents"] # "off") =>
                  Sees(Append(s, e), c) = Sees(s, c)
<1> DEFINE us == UpdatesOf(s, c)
           u == UpdateFromTranscriptEvent(e, c)
           seen == Sees(s, c)
<1>1. us \in Seq(Update) /\ UpdatesOf(Append(s, e), c) = Forward(us, e, c)
  BY UpdatesFold
<1>2. Forward(us, e, c) = IF u = NoUpdate THEN us ELSE Append(us, u)
  BY DEF Forward
<1>3. Chunks(us) \in Seq(Shown) /\ \A w \in Update : Chunks(Append(us, w)) = Cat(Chunks(us), PartsOf(w))
  BY <1>1, ChunksAppend
<1>4. seen = Among(Chunks(us), Seen)
  BY DEF Sees
<1>5. seen \in Seq(Shown)
  BY <1>3, <1>4, AmongType
<1>6. ASSUME NEW w \in Update, u = w, u # NoUpdate, NEW p \in Seq(Shown), PartsOf(w) = p
      PROVE  Sees(Append(s, e), c) = Cat(seen, Among(p, Seen))
  <2>1. Sees(Append(s, e), c) = Among(Cat(Chunks(us), p), Seen)
    BY <1>1, <1>2, <1>3, <1>6 DEF Sees
  <2> HIDE DEF us, seen
  <2>2. Among(Cat(Chunks(us), p), Seen) = Cat(Among(Chunks(us), Seen), Among(p, Seen))
    BY <1>3, <1>6, AmongConcat
  <2> QED BY <1>4, <2>1, <2>2
<1>7. u = NoUpdate => Sees(Append(s, e), c) = seen
  BY <1>1, <1>2 DEF Sees
<1>8. CASE e \in TextEvent
  <2>1. e.parts \in Seq(Texts) /\ e.type = "text" /\ e \notin ToolEvent
    BY <1>8 DEF TextEvent, ToolEvent
  <2>2. e.parts \in Seq(Shown)
    <3>1. \A t \in Texts : t \in Shown
      BY DEF Shown
    <3> QED BY <2>1, <3>1
  <2>3. CASE u = NoUpdate
    <3>1. \A k \in DOMAIN e.parts : e.parts[k] = "blank"
      <4>1. u = ChunkUpdate(e)
        BY <2>1 DEF UpdateFromTranscriptEvent
      <4>2. [type |-> "agent_message_chunk", parts |-> e.parts] # NoUpdate
        <5>1. [type |-> "agent_message_chunk", parts |-> e.parts].type = "agent_message_chunk"
          OBVIOUS
        <5>2. NoUpdate.type = "none"
          BY DEF NoUpdate
        <5> QED BY <5>1, <5>2
      <4> HIDE DEF u
      <4> QED BY <2>3, <4>1, <4>2 DEF ChunkUpdate
    <3>2. \A k \in DOMAIN e.parts : e.parts[k] \notin Seen
      BY <3>1 DEF Seen
    <3>3. Among(e.parts, Seen) = <<>>
      BY <2>2, <3>2, AmongNone
    <3>4. Cat(seen, <<>>) = seen
      BY <1>5, Cats
    <3> HIDE DEF seen, u
    <3> QED BY <1>5, <1>7, <1>8, <2>1, <2>3, <3>3, <3>4 DEF seen
  <2>4. CASE u # NoUpdate
    <3> DEFINE chunk == [type |-> "agent_message_chunk", parts |-> e.parts]
    <3>1. u = chunk
      BY <1>8, <2>4, UpdateFacts
    <3>2. chunk \in Update /\ PartsOf(chunk) = e.parts
      BY <2>1 DEF Update, Chunk, PartsOf
    <3> HIDE DEF chunk, seen, u
    <3>3. Sees(Append(s, e), c) = Cat(seen, Among(e.parts, Seen))
      BY <1>6, <2>2, <2>4, <3>1, <3>2
    <3> QED BY <1>5, <1>8, <2>1, <3>3 DEF seen
  <2> QED BY <2>3, <2>4
<1>9. CASE e \in ToolEvent /\ c["toolEvents"] # "off"
  <2>1. u \in ToolUpdate
    BY <1>9, UpdateFacts
  <2> HIDE DEF u, seen
  <2>2. u.type = "tool_call" \/ u.type = "tool_call_update"
    BY <2>1 DEF ToolUpdate
  <2>3. u \in Update /\ u # NoUpdate /\ PartsOf(u) = <<"tool">> /\ e \notin TextEvent
    BY <1>9, <2>1, <2>2 DEF Update, NoUpdate, PartsOf, ToolEvent, TextEvent
  <2>4. "tool" \in Shown /\ "tool" \in Seen
    BY DEF Shown, Seen
  <2> DEFINE p == Append(<<>>, "tool")
  <2>5. p \in Seq(Shown) /\ PartsOf(u) = p /\ <<>> \in Seq(Shown)
    <3>1. <<>> \in Seq(Shown)
      OBVIOUS
    <3> QED BY <2>3, <2>4, <3>1
  <2>6. Among(p, Seen) = Append(<<>>, "tool")
    <3>1. Among(<<>>, Seen) = <<>>
      BY AmongEmpty
    <3>2. \A q \in Seq(Shown) : \A x \in Shown :
              x \in Seen => Among(Append(q, x), Seen) = Append(Among(q, Seen), x)
      BY AmongAppend
    <3> QED BY <2>4, <2>5, <3>1, <3>2
  <2> HIDE DEF p
  <2>7. Sees(Append(s, e), c) = Cat(seen, Among(p, Seen))
    BY <1>6, <2>3, <2>5
  <2>8. \A x \in Shown : Cat(seen, Append(<<>>, x)) = Append(seen, x)
    BY <1>5, CatOne
  <2>9. Sees(Append(s, e), c) = Append(seen, "tool")
    BY <2>4, <2>6, <2>7, <2>8
  <2> QED BY <1>5, <1>9, <2>3, <2>9 DEF seen
<1>10. CASE e \notin TextEvent /\ ~(e \in ToolEvent /\ c["toolEvents"] # "off")
  <2>1. e.type # "text" /\ ~(e.type = "tool" /\ c["toolEvents"] # "off")
        /\ ~(e.type = "result" /\ c["toolEvents"] # "off")
    BY <1>10 DEF Event, TextEvent, ToolEvent, OtherEvent
  <2>2. u = NoUpdate
    BY <2>1 DEF UpdateFromTranscriptEvent
  <2> HIDE DEF seen, u
  <2> QED BY <1>5, <1>7, <1>10, <2>2 DEF seen
<1> QED BY <1>8, <1>9, <1>10

\* What is asked for of a line.
LEMMA ItemsAppend ==
    /\ Items(<<>>) = <<>>
    /\ \A s \in Seq(Blocks) : Items(s) \in Seq(Shown)
    /\ \A s \in Seq(Blocks) : \A b \in Blocks : Items(Append(s, b)) = Append(Items(s), ItemOf(b))
<1> DEFINE I == [b \in Blocks |-> ItemOf(b)]
<1>1. I \in [Blocks -> Shown] /\ \A b \in Blocks : I[b] = ItemOf(b)
  <2>1. ASSUME NEW b \in Blocks PROVE ItemOf(b) \in Shown
    BY DEF ItemOf, Shown, Blocks, Texts
  <2> QED BY <2>1
<1>2. ASSUME NEW s \in Seq(Blocks) PROVE Items(s) = Mapped(I, s)
  <2>1. \A k \in DOMAIN s : I[s[k]] = ItemOf(s[k])
    BY <1>1
  <2> HIDE DEF I
  <2> QED BY <2>1 DEF Items, Mapped, ItemOf
<1> HIDE DEF I
<1>3. /\ Mapped(I, <<>>) = <<>>
      /\ \A s \in Seq(Blocks) : Mapped(I, s) \in Seq(Shown) /\ Len(Mapped(I, s)) = Len(s)
      /\ \A s \in Seq(Blocks) : \A x \in Blocks : Mapped(I, Append(s, x)) = Append(Mapped(I, s), I[x])
  <2>1. I \in [Blocks -> Shown]
    BY <1>1
  <2>2. MapsEach(I, Blocks, Shown)
    BY <2>1, MappedAppend
  <2> QED BY <2>2 DEF MapsEach
<1>4. ASSUME NEW s \in Seq(Blocks), NEW b \in Blocks
      PROVE  Items(Append(s, b)) = Append(Items(s), ItemOf(b))
  <2>1. Append(s, b) \in Seq(Blocks)
    OBVIOUS
  <2> QED BY <1>1, <1>2, <1>3, <2>1
<1>5. Items(<<>>) = <<>>
  <2>1. PICK e : e = <<>>
    OBVIOUS
  <2>2. e \in Seq(Blocks)
    BY <2>1
  <2> QED BY <1>2, <1>3, <2>1, <2>2
<1>6. ASSUME NEW s \in Seq(Blocks) PROVE Items(s) \in Seq(Shown)
  BY <1>2, <1>3
<1> QED BY <1>4, <1>5, <1>6

\* Texts that wait for a tool or for the end of the line are sent by a flush.
LEMMA FlushSees ==
    ASSUME NEW c \in Configs, NEW acc \in Acc, NEW stop \in Reason
    PROVE  /\ Sees(Flush(acc, stop).events, c) = Cat(Sees(acc.events, c), Among(acc.texts, Seen))
           /\ Flush(acc, stop).events \in Seq(Event)
           /\ stop = "" => Flush(acc, stop).texts = <<>>
<1> DEFINE es == acc.events
           ts == acc.texts
           text == Text(ts, stop)
           flushed == Flush(acc, stop)
           seen == Sees(es, c)
<1>1. es \in Seq(Event) /\ ts \in Seq(Texts) /\ flushed \in Acc
  BY FlushFacts DEF Acc
<1>2. flushed = IF ts = <<>> /\ stop = "" THEN acc
                ELSE [events |-> Append(es, text), texts |-> <<>>]
  BY FlushFacts
<1>3. text \in Event /\ text \in TextEvent /\ text.parts = ts
  BY <1>1, EventForms DEF Text
<1>4. flushed.events \in Seq(Event)
  BY <1>1 DEF Acc
<1> HIDE DEF es, ts, text, flushed
<1>5. seen \in Seq(Shown) /\ Sees(Append(es, text), c) = Cat(seen, Among(ts, Seen))
  BY <1>1, <1>3, SeesAppend
<1>6. CASE ts = <<>> /\ stop = ""
  <2>1. Among(ts, Seen) = <<>>
    BY <1>6, AmongEmpty
  <2>2. Cat(seen, <<>>) = seen
    BY <1>5, Cats
  <2>3. flushed.events = es /\ flushed.texts = <<>>
    BY <1>2, <1>6 DEF es, ts
  <2> QED BY <1>4, <2>1, <2>2, <2>3 DEF flushed, es, ts
<1>7. CASE ~(ts = <<>> /\ stop = "")
  <2>1. flushed = [events |-> Append(es, text), texts |-> <<>>]
    BY <1>2, <1>7
  <2>2. flushed.events = Append(es, text) /\ flushed.texts = <<>>
    BY <2>1
  <2> HIDE DEF seen
  <2>3. Sees(flushed.events, c) = Cat(seen, Among(ts, Seen))
    BY <1>5, <2>2
  <2> QED BY <1>4, <2>2, <2>3 DEF flushed, es, ts, seen
<1> QED BY <1>6, <1>7

\* After each block: what was sent and what waits is what was asked for.
LEMMA BlocksInOrder ==
    ASSUME NEW c \in Configs
    PROVE  \A s \in Seq(Blocks) :
               Cat(Sees(Assisting(s).events, c), Among(Assisting(s).texts, Seen)) =
               Among(Items(s), Asked(c))
<1> DEFINE A == Asked(c)
           T == {s \in Seq(Blocks) :
                     Cat(Sees(Assisting(s).events, c), Among(Assisting(s).texts, Seen)) =
                     Among(Items(s), A)}
<1>1. <<>> \in T
  <2>1. PICK e : e = <<>>
    OBVIOUS
  <2>2. Assisting(e) = [events |-> e, texts |-> e] /\ e \in Seq(Blocks) /\ e \in Seq(Shown)
    BY <2>1, AssistantFold
  <2>3. Assisting(e).events = e /\ Assisting(e).texts = e
    BY <2>2
  <2>4. \A S : Among(e, S) = e
    BY <2>1, AmongEmpty
  <2>5. Items(e) = e
    BY <2>1, ItemsAppend
  <2>6. Sees(e, c) = e
    <3>1. UpdatesOf(e, c) = e
      BY <2>1, UpdatesFold
    <3>2. Chunks(e) = e
      BY <2>1, ChunksAppend
    <3> QED BY <2>4, <3>1, <3>2 DEF Sees
  <2>7. Cat(e, e) = e
    BY <2>1, <2>2, Cats
  <2> HIDE DEF A
  <2> QED BY <2>1, <2>2, <2>3, <2>4, <2>5, <2>6, <2>7
<1>2. ASSUME NEW s \in Seq(Blocks), NEW b \in Blocks, s \in T PROVE Append(s, b) \in T
  <2> DEFINE acc == Assisting(s)
             es == acc.events
             ts == acc.texts
             seen == Sees(es, c)
             wait == Among(ts, Seen)
             next == AssistantBlock(acc, b)
             items == Items(s)
             item == ItemOf(b)
             asked == Among(items, A)
             tool == Tool(b.data)
  <2>1. acc \in Acc /\ Assisting(Append(s, b)) = next
    BY AssistantFold
  <2>2. es \in Seq(Event) /\ ts \in Seq(Texts)
    BY <2>1 DEF Acc
  <2>3. ts \in Seq(Shown)
    <3>1. \A t \in Texts : t \in Shown
      BY DEF Shown
    <3> QED BY <2>2, <3>1
  <2>4. seen \in Seq(Shown)
    <3>1. Other("diagnostic") \in Event
      BY EventForms
    <3> QED BY <2>2, <3>1, SeesAppend
  <2>5. wait \in Seq(Shown)
    BY <2>3, AmongType
  <2>6. Cat(seen, wait) = asked
    BY <1>2
  <2>7. items \in Seq(Shown) /\ item \in Shown /\ Items(Append(s, b)) = Append(items, item)
    BY ItemsAppend DEF ItemOf, Shown, Blocks, Texts
  <2>8. Among(Append(items, item), A) = IF item \in A THEN Append(asked, item) ELSE asked
    BY <2>7, AmongAppend
  <2>9. Append(s, b) \in Seq(Blocks)
    OBVIOUS
  <2>10. tool \in Event /\ tool \in ToolEvent /\ tool \notin TextEvent
    BY EventForms DEF Blocks, Tool, TextEvent
  <2>11. Other("diagnostic") \in Event /\ Other("diagnostic") \notin TextEvent
         /\ Other("diagnostic") \notin ToolEvent
    BY EventForms DEF Other, TextEvent, ToolEvent
  <2>12. b.text \in Texts
    BY DEF Blocks
  <2>13. Cat(Sees(next.events, c), Among(next.texts, Seen)) =
             IF item \in A THEN Append(asked, item) ELSE asked
    <3>1. CASE b.type = "bad"
      <4>1. next = [acc EXCEPT !.events = Append(@, Other("diagnostic"))]
        BY <3>1 DEF AssistantBlock
      <4>2. next.events = Append(es, Other("diagnostic")) /\ next.texts = ts
        BY <2>1, <4>1 DEF Acc
      <4>3. Sees(Append(es, Other("diagnostic")), c) = seen
        BY <2>2, <2>11, SeesAppend
      <4>4. item \notin A
        BY <3>1 DEF ItemOf, Asked
      <4> HIDE DEF next, seen, wait, asked, item, A, es, ts
      <4> QED BY <2>6, <4>2, <4>3, <4>4 DEF wait
    <3>2. CASE b.type = "text" /\ b.text # ""
      <4>1. next = [acc EXCEPT !.texts = Append(@, b.text)]
        BY <3>2 DEF AssistantBlock
      <4>2. next.events = es /\ next.texts = Append(ts, b.text)
        BY <2>1, <4>1 DEF Acc
      <4>3. item = b.text /\ (item \in A <=> item \in Seen)
        BY <2>12, <3>2 DEF ItemOf, Asked, Texts, Seen
      <4>8. Sees(next.events, c) = seen
        BY <4>2
      <4> HIDE DEF next, seen, asked, item, A, es, ts
      <4>4. Among(Append(ts, item), Seen) = IF item \in Seen THEN Append(wait, item) ELSE wait
        BY <2>3, <2>7, AmongAppend
      <4> HIDE DEF wait
      <4>5. Cat(seen, Append(wait, item)) = Append(Cat(seen, wait), item)
        BY <2>4, <2>5, <2>7, Cats
      <4>6. CASE item \in Seen
        BY <2>6, <4>2, <4>3, <4>4, <4>5, <4>6, <4>8
      <4>7. CASE item \notin Seen
        BY <2>6, <4>2, <4>3, <4>4, <4>7, <4>8
      <4> QED BY <4>6, <4>7
    <3>3. CASE b.type = "tool_use"
      <4> DEFINE flushed == Flush(acc, "")
      <4>1. flushed \in Acc
        <5>1. "" \in Reason
          BY DEF Reason
        <5> QED BY <2>1, <5>1, FlushFacts
      <4>2. next = [flushed EXCEPT !.events = Append(@, tool)]
        BY <3>3 DEF AssistantBlock
      <4>3. Sees(flushed.events, c) = Cat(seen, wait) /\ flushed.events \in Seq(Event)
            /\ flushed.texts = <<>>
        <5>1. "" \in Reason
          BY DEF Reason
        <5>2. ASSUME NEW stop \in Reason, stop = ""
              PROVE  /\ Sees(Flush(acc, stop).events, c) = Cat(seen, wait)
                     /\ Flush(acc, stop).events \in Seq(Event)
                     /\ Flush(acc, stop).texts = <<>>
          BY <2>1, <5>2, FlushSees
        <5> QED BY <5>1, <5>2
      <4>4. item = "tool" /\ (item \in A <=> c["toolEvents"] # "off")
        BY <3>3 DEF ItemOf, Asked
      <4> HIDE DEF flushed, next, seen, wait, asked, item, A, tool
      <4>5. next.events = Append(flushed.events, tool) /\ next.texts = <<>>
        BY <4>1, <4>2, <4>3 DEF Acc
      <4>6. Among(next.texts, Seen) = <<>>
        BY <4>5, AmongEmpty
      <4> DEFINE after == Sees(next.events, c)
      <4>7. after = IF item \in A THEN Append(asked, item) ELSE asked
        <5>1. CASE item \in A
          <6>1. Sees(Append(flushed.events, tool), c) = Append(Sees(flushed.events, c), "tool")
            BY <2>10, <4>3, <4>4, <5>1, SeesAppend
          <6> QED BY <2>6, <4>3, <4>4, <4>5, <5>1, <6>1
        <5>2. CASE item \notin A
          <6>1. Sees(Append(flushed.events, tool), c) = Sees(flushed.events, c)
            BY <2>10, <4>3, <4>4, <5>2, SeesAppend
          <6> QED BY <2>6, <4>3, <4>5, <5>2, <6>1
        <5> QED BY <5>1, <5>2
      <4>8. asked \in Seq(Shown)
        BY <2>4, <2>5, <2>6, Cats
      <4>9. after \in Seq(Shown)
        BY <2>7, <4>7, <4>8
      <4>10. Cat(after, <<>>) = after
        BY <4>9, Cats
      <4> QED BY <4>6, <4>7, <4>10
    <3>4. CASE b.type # "bad" /\ ~(b.type = "text" /\ b.text # "") /\ b.type # "tool_use"
      <4>1. next = acc
        BY <3>4 DEF AssistantBlock
      <4>2. item \notin A
        BY <3>4 DEF ItemOf, Asked
      <4> QED BY <2>6, <4>1, <4>2
    <3> QED BY <3>1, <3>2, <3>3, <3>4
  <2> HIDE DEF acc, es, ts, seen, wait, next, items, item, asked, A
  <2> QED BY <2>1, <2>7, <2>8, <2>9, <2>13
<1> HIDE DEF T
<1>3. \A s \in Seq(Blocks) : s \in T
  BY <1>1, <1>2, SequenceInduction
<1> QED BY <1>3 DEF T, A

\* The line as a whole: its last texts are flushed, and its usage is not seen.
LEMMA LineInOrder ==
    ASSUME NEW r \in Lines, Answering(r), NEW c \in Configs
    PROVE  Sees(ParseTranscriptEvents(r), c) = Among(Items(r.blocks), Asked(c))
<1> DEFINE acc == Assisting(r.blocks)
           flushed == Flush(acc, r.stop).events
           use == Other("usage")
<1>1. r.blocks \in Seq(Blocks) /\ r.stop \in Reason
  BY LineParts
<1>2. acc \in Acc
  BY <1>1, AssistantFold
<1>3. Sees(flushed, c) = Cat(Sees(acc.events, c), Among(acc.texts, Seen)) /\ flushed \in Seq(Event)
  BY <1>1, <1>2, FlushSees
<1>4. Sees(flushed, c) = Among(Items(r.blocks), Asked(c))
  BY <1>1, <1>3, BlocksInOrder
<1>5. use \in Event /\ use \notin TextEvent /\ use \notin ToolEvent
  BY EventForms DEF Other, TextEvent, ToolEvent
<1>6. ParseTranscriptEvents(r) = Cat(flushed, Usage(r))
  BY ParseCases
<1> HIDE DEF acc, flushed, use
<1>7. CASE r.usage
  <2>1. Usage(r) = Append(<<>>, use)
    BY <1>7 DEF Usage, use
  <2>2. Cat(flushed, Append(<<>>, use)) = Append(flushed, use)
    BY <1>3, <1>5, CatOne
  <2>3. Sees(Append(flushed, use), c) = Sees(flushed, c)
    BY <1>3, <1>5, SeesAppend
  <2> QED BY <1>4, <1>6, <2>1, <2>2, <2>3
<1>8. CASE ~r.usage
  <2>1. Usage(r) = <<>>
    BY <1>8 DEF Usage
  <2>2. Cat(flushed, <<>>) = flushed
    BY <1>3, Cats
  <2> QED BY <1>4, <1>6, <2>1, <2>2
<1> QED BY <1>7, <1>8

-----------------------------------------------------------------------------
\* The inductive invariant.  What a phase says of the settings: they are what
\* was loaded of the arguments, and settings once the session has them.
SettingsInv ==
    /\ phase \in {"start", "exit", "serve", "new", "session", "prompt"}
    /\ process \in Configs \cup {NoConfig} /\ config \in Configs \cup {NoConfig}
    /\ phase \in {"start", "serve", "exit"} => args \in ArgLists /\ env \in Envs
    /\ phase \in {"serve", "exit"} =>
          process = LoadToolConfig(args, env) /\ (phase = "serve" <=> process # NoConfig)
    /\ phase = "new" => process \in Configs
    /\ phase \in {"session", "prompt"} => config \in Configs

FileInv == phase = "new" => servers \in McpLists /\ file = BuildMCPConfig(servers)

\* Of a prompt: the updates are those of the line read last.
Answers == {"none", "end_turn", "max_tokens", "max_turn_requests", "refusal"}
PromptInv ==
    /\ record # NoRecord => /\ phase = "prompt" /\ record \in Records
                            /\ updates = UpdatesOf(ParseTranscriptEvents(record), config)
    /\ record = NoRecord => updates = <<>>
    /\ collected \in Collected /\ answer \in Answers

IInv == SettingsInv /\ FileInv /\ PromptInv

\* What the inputs are, one by one.
LEMMA Inputs ==
    /\ \A s \in ArgLists : s \in Seq(Word)
    /\ \A v \in Envs : v \in [Options -> Word]
    /\ \A v \in Values : v.json \in {"string", "int", "null", "other"} /\ v.num \in Int
    /\ \A r \in Records : r \in Lines
  BY InputAssumption

\* No settings yet, or settings: what is loaded is one or the other.
LEMMA Loaded ==
    ASSUME NEW s \in ArgLists, NEW v \in Envs
    PROVE  LoadToolConfig(s, v) \in Configs \cup {NoConfig}
<1>1. s \in Seq(Word) /\ v \in [Options -> Word]
  BY Inputs
<1> QED BY <1>1, LoadFacts

\* A value that session/set_config_option accepts makes settings of settings.
LEMMA OptionSet ==
    ASSUME NEW c \in Configs, NEW o \in Options, NEW v \in Values, OptionAccepts(o, v)
    PROVE  SetOption(c, o, v) \in Configs
<1> DEFINE x == IF o = "toolEvents" THEN ParsedString(v)[1] ELSE ParsedInt(v)[1]
<1>1. o = "toolEvents" => x \in Modes
  BY DEF OptionAccepts
<1>2. ASSUME o # "toolEvents" PROVE x \in Nat
  <2>1. v.json \in {"string", "int", "null", "other"} /\ v.num \in Int
    BY Inputs
  <2>2. ParsedInt(v) # <<>> /\ ParsedInt(v)[1] >= 0 /\ x = ParsedInt(v)[1]
    BY <1>2 DEF OptionAccepts
  <2>3. CASE v.json = "int"
    <3>1. ParsedInt(v) = <<v.num>>
      BY <2>3 DEF ParsedInt
    <3> QED BY <2>1, <2>2, <3>1
  <2>4. CASE v.json = "null"
    <3>1. ParsedInt(v) = <<0>>
      BY <2>4 DEF ParsedInt
    <3> QED BY <2>2, <3>1
  <2>5. CASE v.json \in {"string", "other"}
    <3>1. ParsedInt(v) = <<>>
      BY <2>5 DEF ParsedInt
    <3> QED BY <2>2, <3>1
  <2> QED BY <2>1, <2>3, <2>4, <2>5
<1>3. SetOption(c, o, v) = [c EXCEPT ![o] = x]
  BY DEF SetOption
<1> HIDE DEF x
<1>4. [c EXCEPT ![o] = x] \in Configs
  BY <1>1, <1>2, ConfigSet
<1> QED BY <1>3, <1>4

\* A stop reason that ends a turn has an answer: the two lists agree.
LEMMA TerminalAnswered ==
    ASSUME NEW c \in Collected, c.last \in Terminal
    PROVE  StopReason(c) \in Answers
  BY DEF StopReason, Terminal, Answers

\* A prompt starts with nothing collected.
LEMMA NothingCollected == Nothing \in Collected
  BY DEF Nothing, Collected, Reason

\* What a line adds to what was collected.
LEMMA LineCollected ==
    ASSUME NEW c \in Collected, NEW r \in Records
    PROVE  Collect(c, ParseTranscriptEvents(r)) \in Collected
<1>1. ParseTranscriptEvents(r) \in Seq(Event)
  BY Inputs, ParseType
<1> QED BY <1>1, CollectFold

\* A line is not NoRecord.
LEMMA RecordIsLine == \A r \in Records : r # NoRecord
<1> SUFFICES ASSUME NEW r \in Records PROVE r # NoRecord
  OBVIOUS
<1>1. r.type \in {"ignored", "invalid", "unknown", "title", "assistant", "user"}
  BY Inputs DEF Lines
<1>2. NoRecord.type = "none"
  BY DEF NoRecord
<1> QED BY <1>1, <1>2

\* The invariant holds in the initial states.
LEMMA InitInv == Init => IInv
<1> SUFFICES ASSUME Init PROVE IInv
  OBVIOUS
<1>1. SettingsInv
  BY DEF Init, SettingsInv
<1>2. FileInv
  BY DEF Init, FileInv
<1>3. PromptInv
  BY NothingCollected DEF Init, PromptInv, Answers
<1> QED BY <1>1, <1>2, <1>3 DEF IInv

\* Each step keeps it.
LEMMA StepInv == IInv /\ [Next]_vars => IInv'
<1> SUFFICES ASSUME IInv, [Next]_vars PROVE IInv'
  OBVIOUS
<1> USE DEF IInv
<1>1. CASE Run
  <2>1. phase' = IF process' = NoConfig THEN "exit" ELSE "serve"
    BY <1>1 DEF Run
  <2>2. process' = LoadToolConfig(args, env) /\ args' = args /\ env' = env
        /\ args \in ArgLists /\ env \in Envs /\ config' = config
    BY <1>1 DEF Run, SettingsInv
  <2>3. process' \in Configs \cup {NoConfig}
    BY <2>2, Loaded
  <2>4. SettingsInv'
    BY <2>1, <2>2, <2>3 DEF SettingsInv
  <2>5. FileInv'
    BY <2>1 DEF FileInv
  <2>6. PromptInv'
    BY <1>1, <2>1 DEF Run, PromptInv
  <2> QED BY <2>4, <2>5, <2>6
<1>2. ASSUME NEW list \in McpLists, NewSession(list) PROVE IInv'
  <2>1. SettingsInv'
    BY <1>2 DEF NewSession, SettingsInv
  <2>2. FileInv'
    BY <1>2 DEF NewSession, FileInv
  <2>3. PromptInv'
    BY <1>2 DEF NewSession, PromptInv
  <2> QED BY <2>1, <2>2, <2>3
<1>3. CASE NewSessionConfig
  <2>1. SettingsInv'
    BY <1>3 DEF NewSessionConfig, SettingsInv
  <2>2. FileInv'
    BY <1>3 DEF NewSessionConfig, FileInv
  <2>3. PromptInv'
    BY <1>3 DEF NewSessionConfig, PromptInv
  <2> QED BY <2>1, <2>2, <2>3
<1>4. ASSUME NEW o \in Options, NEW v \in Values, SetConfigOption(o, v) PROVE IInv'
  <2>1. config' = SetOption(config, o, v) /\ config \in Configs /\ OptionAccepts(o, v)
    BY <1>4 DEF SetConfigOption, SettingsInv
  <2>2. config' \in Configs
    BY <2>1, OptionSet
  <2>3. SettingsInv'
    BY <1>4, <2>2 DEF SetConfigOption, SettingsInv
  <2>4. FileInv'
    BY <1>4 DEF SetConfigOption, FileInv
  <2>5. PromptInv'
    <3>1. record = NoRecord /\ record' = record /\ updates' = updates
      BY <1>4 DEF SetConfigOption, PromptInv
    <3> QED BY <1>4, <3>1 DEF SetConfigOption, PromptInv
  <2> QED BY <2>3, <2>4, <2>5
<1>5. CASE StartPrompt
  <2>1. SettingsInv'
    BY <1>5 DEF StartPrompt, SettingsInv
  <2>2. FileInv'
    BY <1>5 DEF StartPrompt, FileInv
  <2>3. PromptInv'
    <3>1. record = NoRecord /\ record' = record /\ updates' = updates
      BY <1>5 DEF StartPrompt, PromptInv
    <3> QED BY <1>5, <3>1, NothingCollected DEF StartPrompt, PromptInv, Answers
  <2> QED BY <2>1, <2>2, <2>3
<1>6. ASSUME NEW r \in Records, ReadRecord(r) PROVE IInv'
  <2>1. SettingsInv'
    BY <1>6 DEF ReadRecord, SettingsInv
  <2>2. FileInv'
    BY <1>6 DEF ReadRecord, FileInv
  <2>3. PromptInv'
    <3>1. /\ phase' = "prompt" /\ record' = r /\ config' = config /\ answer' = answer
          /\ updates' = UpdatesOf(ParseTranscriptEvents(r), config)
          /\ collected' = Collect(collected, ParseTranscriptEvents(r))
      BY <1>6 DEF ReadRecord
    <3>2. collected' \in Collected
      BY <3>1, LineCollected DEF PromptInv
    <3>3. r # NoRecord
      BY RecordIsLine
    <3> QED BY <3>1, <3>2, <3>3 DEF PromptInv
  <2> QED BY <2>1, <2>2, <2>3
<1>7. CASE CompletePrompt
  <2>1. SettingsInv'
    BY <1>7 DEF CompletePrompt, SettingsInv
  <2>2. FileInv'
    BY <1>7 DEF CompletePrompt, FileInv
  <2>3. PromptInv'
    <3>1. answer' \in Answers
      BY <1>7, TerminalAnswered DEF CompletePrompt, HasTerminalAssistant, PromptInv
    <3> QED BY <1>7, <3>1, NothingCollected DEF CompletePrompt, PromptInv
  <2> QED BY <2>1, <2>2, <2>3
<1>8. CASE UNCHANGED vars
  BY <1>8 DEF vars, SettingsInv, FileInv, PromptInv
<1>9. CASE \/ Exited
           \/ \E list \in McpLists : NewSessionRefused(list)
           \/ \E o \in Options, v \in Values : SetConfigOptionRefused(o, v)
  <2>1. UNCHANGED vars
    BY <1>9 DEF Exited, NewSessionRefused, SetConfigOptionRefused
  <2> QED BY <1>8, <2>1
<1> QED BY <1>1, <1>2, <1>3, <1>4, <1>5, <1>6, <1>7, <1>8, <1>9 DEF Next

\* The invariant always holds.
THEOREM ConversionsInvariance == Spec => []IInv
  BY InitInv, StepInv, PTL DEF Spec

\* The updates are of the kinds that the model knows.
LEMMA UpdatesKnown == IInv => updates \in Seq(Update) /\ (config \in Configs \/ updates = <<>>)
<1> SUFFICES ASSUME IInv PROVE updates \in Seq(Update) /\ (config \in Configs \/ updates = <<>>)
  OBVIOUS
<1>1. CASE record = NoRecord
  <2>1. updates = <<>>
    BY <1>1 DEF IInv, PromptInv
  <2> QED BY <2>1
<1>2. CASE record # NoRecord
  <2>1. /\ config \in Configs /\ record \in Records
        /\ updates = UpdatesOf(ParseTranscriptEvents(record), config)
    BY <1>2 DEF IInv, PromptInv, SettingsInv
  <2>2. ParseTranscriptEvents(record) \in Seq(Event)
    BY <2>1, Inputs, ParseType
  <2>3. UpdatesOf(ParseTranscriptEvents(record), config) \in Seq(Update)
    BY <2>1, <2>2, UpdatesFold
  <2> QED BY <2>1, <2>3
<1> QED BY <1>1, <1>2

\* No update is of a kind that ACP has not, no settings miss an option, and
\* every answer is one of the known ones.
THEOREM ConversionsTypes == Spec => []TypeOK
<1>1. IInv => TypeOK
  <2> SUFFICES ASSUME IInv PROVE TypeOK
    OBVIOUS
  <2>1. phase \in {"start", "exit", "serve", "new", "session", "prompt"}
    BY DEF IInv, SettingsInv
  <2>2. DOMAIN process \in {{}, Options} /\ DOMAIN config \in {{}, Options}
    <3>1. \A c \in Configs \cup {NoConfig} : DOMAIN c \in {{}, Options}
      BY DEF Configs, NoConfig
    <3> QED BY <3>1 DEF IInv, SettingsInv
  <2>3. ASSUME NEW k \in DOMAIN updates
        PROVE  updates[k].type \in {"agent_message_chunk", "tool_call", "tool_call_update"}
    <3>1. updates[k] \in Update
      BY UpdatesKnown
    <3> QED BY <3>1 DEF Update, Chunk, ToolUpdate
  <2>4. collected.blank \in BOOLEAN
    BY DEF IInv, PromptInv, Collected
  <2>5. answer \in {"none", "end_turn", "max_tokens", "max_turn_requests", "refusal", "error"}
    BY DEF IInv, PromptInv, Answers
  <2> QED BY <2>1, <2>2, <2>3, <2>4, <2>5 DEF TypeOK
<1> QED BY <1>1, ConversionsInvariance, PTL

\* A turn that the transcript completed is never answered with an error: each
\* reason of transcript.go that ends a turn is known to prompt.go.
THEOREM CompletedTurnsHaveReasons == Spec => []CompletedHasReason
<1>1. IInv => CompletedHasReason
  BY DEF IInv, PromptInv, Answers, CompletedHasReason
<1> QED BY <1>1, ConversionsInvariance, PTL

\* The settings of a session are valid, however the client changed them.
THEOREM SettingsStayValid == Spec => []SettingsValid
<1>1. IInv => SettingsValid
  <2> SUFFICES ASSUME IInv, config # NoConfig
               PROVE  /\ config["toolEvents"] \in Modes
                      /\ config["toolInputMaxBytes"] >= 0 /\ config["toolResultMaxBytes"] >= 0
    BY DEF SettingsValid
  <2>1. config \in Configs
    BY DEF IInv, SettingsInv
  <2>2. /\ config["toolEvents"] \in Modes
        /\ config["toolInputMaxBytes"] \in Nat /\ config["toolResultMaxBytes"] \in Nat
    BY <2>1, ConfigParts
  <2> QED BY <2>2
<1> QED BY <1>1, ConversionsInvariance, PTL

\* What Given means, for the words of a command line.
LEMMA GivenFacts ==
    ASSUME NEW o \in Options, args \in Seq(Word)
    PROVE  /\ Given(o) \in SUBSET (1 .. Len(args)) /\ Len(args) \in Nat
           /\ Given(o) = {} <=> ~\E i \in DOMAIN args : FlagOf(args, i, o)
           /\ \A i \in DOMAIN args : i \in Given(o) <=> FlagOf(args, i, o)
           /\ \A i \in Given(o) : i \in DOMAIN args
  BY DEF Given, FlagOf

\* The flags of the command line come before the environment and the last of
\* them counts; a wrong value ends the program, but not one of the environment
\* that the command line overrides.
THEOREM SettingsPrecedence == Spec => []Precedence
<1>1. IInv => Precedence
  <2> SUFFICES ASSUME IInv, phase \in {"serve", "exit"}
               PROVE  /\ (phase = "serve") <=>
                             \A o \in Options :
                                /\ \A i \in Given(o) : i < Len(args) /\ ArgAccepts(o, args[i + 1])
                                /\ FromEnvironment(o) => EnvAccepts(o, env[o])
                      /\ phase = "serve" =>
                             \A o \in Options :
                                process[o] = IF Given(o) # {} THEN Value(o, args[Max(Given(o)) + 1].text)
                                             ELSE IF FromEnvironment(o) THEN Value(o, env[o].text)
                                             ELSE Default[o]
    BY DEF Precedence
  <2> DEFINE given(o) == \E i \in DOMAIN args : FlagOf(args, i, o)
             unset(o) == ~given(o) /\ env[o] # Unset
  <2>1. /\ args \in Seq(Word) /\ env \in [Options -> Word]
        /\ process = LoadToolConfig(args, env) /\ (phase = "serve" <=> process # NoConfig)
    BY Inputs DEF IInv, SettingsInv
  <2>2. /\ process # NoConfig <=>
               \A o \in Options :
                  /\ \A i \in DOMAIN args : FlagOf(args, i, o) =>
                         i < Len(args) /\ ArgAccepts(o, args[i + 1])
                  /\ unset(o) => EnvAccepts(o, env[o])
        /\ process # NoConfig => \A o \in Options :
               \/ ~given(o) /\ process[o] = IF unset(o) THEN Value(o, env[o].text) ELSE Default[o]
               \/ \E i \in DOMAIN args : /\ FlagOf(args, i, o) /\ process[o] = Value(o, args[i + 1].text)
                                         /\ \A j \in DOMAIN args : FlagOf(args, j, o) => j <= i
    BY <2>1, LoadFacts
  <2>3. ASSUME NEW o \in Options
        PROVE  /\ FromEnvironment(o) <=> unset(o)
               /\ Given(o) = {} <=> ~given(o)
               /\ (\A i \in Given(o) : i < Len(args) /\ ArgAccepts(o, args[i + 1])) <=>
                      (\A i \in DOMAIN args : FlagOf(args, i, o) =>
                           i < Len(args) /\ ArgAccepts(o, args[i + 1]))
    BY <2>1, GivenFacts DEF FromEnvironment
  <2>4. ASSUME process # NoConfig, NEW o \in Options
        PROVE  process[o] = IF Given(o) # {} THEN Value(o, args[Max(Given(o)) + 1].text)
                            ELSE IF FromEnvironment(o) THEN Value(o, env[o].text) ELSE Default[o]
    <3>1. CASE ~given(o) /\ process[o] = IF unset(o) THEN Value(o, env[o].text) ELSE Default[o]
      <4>1. Given(o) = {} /\ (FromEnvironment(o) <=> unset(o))
        BY <2>3, <3>1
      <4> HIDE DEF given, unset
      <4> QED BY <3>1, <4>1
    <3>2. CASE \E i \in DOMAIN args : /\ FlagOf(args, i, o) /\ process[o] = Value(o, args[i + 1].text)
                                      /\ \A j \in DOMAIN args : FlagOf(args, j, o) => j <= i
      <4>1. PICK i \in DOMAIN args : /\ FlagOf(args, i, o) /\ process[o] = Value(o, args[i + 1].text)
                                     /\ \A j \in DOMAIN args : FlagOf(args, j, o) => j <= i
        BY <3>2
      <4>2. Given(o) \in SUBSET (1 .. Len(args)) /\ Len(args) \in Nat /\ i \in Given(o)
            /\ \A j \in Given(o) : j \in DOMAIN args /\ FlagOf(args, j, o)
        BY <2>1, <4>1, GivenFacts
      <4>3. Max(Given(o)) \in Given(o) /\ i <= Max(Given(o))
        BY <4>2, Greatest
      <4>4. Max(Given(o)) <= i
        BY <4>1, <4>2, <4>3
      <4>5. Max(Given(o)) = i
        BY <4>2, <4>3, <4>4
      <4> QED BY <4>1, <4>2, <4>5
    <3> HIDE DEF given, unset
    <3> QED BY <2>2, <2>4, <3>1, <3>2
  <2> HIDE DEF given, unset
  <2>5. (phase = "serve") <=>
             \A o \in Options :
                /\ \A i \in Given(o) : i < Len(args) /\ ArgAccepts(o, args[i + 1])
                /\ FromEnvironment(o) => EnvAccepts(o, env[o])
    BY <2>1, <2>2, <2>3
  <2> QED BY <2>1, <2>4, <2>5
<1> QED BY <1>1, ConversionsInvariance, PTL

\* No server of session/new is lost from the MCP file but to a later one of
\* the same name, and never one without a name to another one without.
THEOREM ServersInFile == Spec => []McpServersKept
<1>1. IInv => McpServersKept
  <2> SUFFICES ASSUME IInv, phase = "new"
               PROVE  \A i \in DOMAIN servers :
                         \/ \E n \in DOMAIN file : file[n] = i
                         \/ \E j \in DOMAIN servers :
                               /\ j > i /\ (servers[i].name # "" \/ servers[j].name # "")
                               /\ NameOf(servers, i) = NameOf(servers, j)
    BY DEF McpServersKept
  <2>1. servers \in McpLists /\ file = BuildMCPConfig(servers)
    BY DEF IInv, FileInv
  <2> QED BY <2>1, ServersKept
<1> QED BY <1>1, ConversionsInvariance, PTL

\* A line with a terminal stop reason ends the turn, and no other line does.
THEOREM TurnsEndAtTerminalLines == Spec => []TerminalLineEnds
<1>1. IInv => TerminalLineEnds
  <2> SUFFICES ASSUME IInv, record # NoRecord
               PROVE  KindOf(record) = "final" <=>
                          (/\ record.type = "assistant" /\ ~record.broken /\ record.role = "assistant"
                           /\ record.stop \in Terminal)
    BY DEF TerminalLineEnds
  <2>1. record \in Lines
    BY Inputs DEF IInv, PromptInv
  <2>2. KindOf(record) = "final" <=> Answering(record) /\ record.stop \in Terminal
    BY <2>1, KindFacts
  <2> QED BY <2>2 DEF Answering
<1> QED BY <1>1, ConversionsInvariance, PTL

\* What is known of the updates about tools.
LEMMA ToolUpdatesKnown ==
    IInv => \A k \in DOMAIN ToolUpdates :
                /\ ToolUpdates[k] \in ToolUpdate /\ config \in Configs
                /\ Marked(ToolUpdates[k], Payloads[k].data, config)
                /\ Limited(ToolUpdates[k], Payloads[k].data, config)
<1> SUFFICES ASSUME IInv, NEW k \in DOMAIN ToolUpdates
             PROVE  /\ ToolUpdates[k] \in ToolUpdate /\ config \in Configs
                    /\ Marked(ToolUpdates[k], Payloads[k].data, config)
                    /\ Limited(ToolUpdates[k], Payloads[k].data, config)
  OBVIOUS
<1>1. record # NoRecord
  <2> SUFFICES ASSUME record = NoRecord PROVE FALSE
    OBVIOUS
  <2>1. updates = <<>>
    BY DEF IInv, PromptInv
  <2>2. ToolUpdates = <<>>
    BY <2>1, AmongEmpty DEF ToolUpdates
  <2> QED BY <2>2
<1>2. /\ config \in Configs /\ record \in Lines
      /\ updates = UpdatesOf(ParseTranscriptEvents(record), config)
  BY <1>1, Inputs DEF IInv, PromptInv, SettingsInv
<1>3. Payloads = Among(record.blocks, Carriers(Carrier(record)))
  BY DEF Payloads, Carriers, Carrier
<1>4. ToolUpdates = Among(UpdatesOf(ParseTranscriptEvents(record), config), ToolUpdate)
  BY <1>2 DEF ToolUpdates
<1>5. /\ Marked(ToolUpdates[k], Payloads[k].data, config)
      /\ Limited(ToolUpdates[k], Payloads[k].data, config)
  BY <1>2, <1>3, <1>4, ToolUpdateFacts
<1>6. ToolUpdates[k] \in ToolUpdate
  <2>1. updates \in Seq(Update)
    BY UpdatesKnown
  <2>2. ToolUpdates \in Seq(Update \cap ToolUpdate)
    BY <2>1, AmongBoth DEF ToolUpdates
  <2> QED BY <2>2
<1> QED BY <1>2, <1>5, <1>6

\* An update says that it was cut exactly when it was, and of how much; what
\* is not marked carries all there was.
THEOREM CutsAreMarked == Spec => []CutsMarked
<1>1. IInv => CutsMarked
  <2> SUFFICES ASSUME IInv PROVE CutsMarked
    OBVIOUS
  <2>1. ASSUME NEW k \in DOMAIN ToolUpdates,
               NEW u, u = ToolUpdates[k], NEW data, data = Payloads[k].data
        PROVE  LET whole == u.type = "tool_call" \/ config["toolEvents"] = "full"
                   size == IF whole THEN Len(data.raw) ELSE Len(data.text)
               IN  /\ u.truncated <=> Over(u, data)
                   /\ u.original = IF u.truncated THEN size ELSE 0
                   /\ ~u.truncated => /\ whole => u.raw = data.raw
                                      /\ u.type = "tool_call_update" => u.content = Len(data.text)
    <3>1. Marked(u, data, config)
      BY <2>1, ToolUpdatesKnown
    <3> QED BY <3>1 DEF Marked, Over
  <2> QED BY <2>1 DEF CutsMarked
<1> QED BY <1>1, ConversionsInvariance, PTL

\* No update has more text than the limits, but where a cut splits a rune, and
\* none more raw JSON than six times the hard limit, the quotes and the dots.
THEOREM UpdatesWithinLimits == Spec => []WithinLimits
<1>1. IInv => WithinLimits
  BY ToolUpdatesKnown DEF WithinLimits, Limited, Limit, LimitOf
<1> QED BY <1>1, ConversionsInvariance, PTL

\* The client sees the texts and the tool calls of a line in their order.
THEOREM LinesInOrder == Spec => []TextAndToolsInOrder
<1>1. IInv => TextAndToolsInOrder
  <2> SUFFICES ASSUME IInv, Answering(record)
               PROVE  Among(Chunks(updates), {"word", "tool"}) =
                      Among(Items(record.blocks),
                            {"word"} \cup (IF config["toolEvents"] = "off" THEN {} ELSE {"tool"}))
    BY DEF TextAndToolsInOrder, Answering
  <2>1. record # NoRecord
    BY DEF Answering, NoRecord
  <2>2. /\ config \in Configs /\ record \in Lines
        /\ updates = UpdatesOf(ParseTranscriptEvents(record), config)
    BY <2>1, Inputs DEF IInv, PromptInv, SettingsInv
  <2>3. Sees(ParseTranscriptEvents(record), config) = Among(Items(record.blocks), Asked(config))
    BY <2>2, LineInOrder
  <2> QED BY <2>2, <2>3 DEF Sees, Seen, Asked
<1> QED BY <1>1, ConversionsInvariance, PTL
=============================================================================
