---------------------------- MODULE SequenceFacts ----------------------------
(***************************************************************************)
(* What the proofs need to know of sequences: induction over the natural   *)
(* numbers, folds, and the operator of Subsequences.  Induction is about a *)
(* set of numbers and not about a predicate, since no prover here can take *)
(* an operator for a parameter; it comes from the order of the numbers     *)
(* being well-founded.                                                     *)
(***************************************************************************)
EXTENDS Subsequences, Integers, WellFoundedInduction, TLAPS

\* A set of natural numbers has a least one.
LEMMA LeastNatural ==
    ASSUME NEW T \in SUBSET Nat, T # {}
    PROVE  \E n \in T : \A m \in T : n <= m
<1>1. PICK n \in T : \A m \in T : <<m, n>> \notin OpToRel(<, Nat)
  BY WFMin, NatLessThanWellFounded
<1>2. \A m \in T : ~(m < n)
  BY <1>1 DEF OpToRel
<1> QED BY <1>2

\* A set with zero and the successor of each of its numbers has them all.
LEMMA Induction ==
    ASSUME NEW T, 0 \in T, \A n \in Nat : n \in T => n + 1 \in T
    PROVE  \A n \in Nat : n \in T
<1> DEFINE U == {n \in Nat : n \notin T}
<1> SUFFICES ASSUME U # {} PROVE FALSE
  OBVIOUS
<1>1. PICK n \in U : \A m \in U : n <= m
  <2> HIDE DEF U
  <2> U \in SUBSET Nat
    BY DEF U
  <2> QED BY LeastNatural
<1>2. n # 0 /\ n - 1 \in Nat /\ n - 1 \in U
  BY <1>1
<1> QED BY <1>1, <1>2

\* Max is the greatest of a set of positions.
LEMMA Greatest ==
    ASSUME NEW n \in Nat, NEW S \in SUBSET (1 .. n), S # {}
    PROVE  Max(S) \in S /\ \A m \in S : m <= Max(S)
<1> DEFINE T == {n - m : m \in S}
<1>1. PICK k \in T : \A j \in T : k <= j
  <2> HIDE DEF T
  <2>1. \A m \in S : n - m \in Nat /\ m \in Nat
    OBVIOUS
  <2> T \in SUBSET Nat /\ T # {}
    BY <2>1 DEF T
  <2> QED BY LeastNatural
<1>2. PICK m \in S : k = n - m
  BY <1>1
<1>3. \A j \in S : m >= j /\ j <= m
  <2> SUFFICES ASSUME NEW j \in S PROVE m >= j /\ j <= m
    OBVIOUS
  <2>1. n - j \in T
    OBVIOUS
  <2>2. j \in Int /\ m \in Int
    OBVIOUS
  <2>3. k <= n - j
    BY <1>1, <2>1
  <2> HIDE DEF T
  <2> QED BY <1>2, <2>2, <2>3
<1> QED BY <1>3 DEF Max

\* g folds s with step, over any set of positions.
IsFold(g, s, base, step) ==
    \A S \in SUBSET DOMAIN s :
        g[S] = IF S = {} THEN base ELSE step[<<g[S \ {Max(S)}], s[Max(S)]>>]

\* There is a function that folds the elements of s at any set of positions, the
\* last one outermost: what MapThenFoldSet chooses exists.
LEMMA FoldExists ==
    ASSUME NEW X, NEW s \in Seq(X), NEW Acc, NEW base \in Acc,
           NEW step \in [Acc \X X -> Acc]
    PROVE  \E g \in [SUBSET DOMAIN s -> Acc] : IsFold(g, s, base, step)
<1> DEFINE Folds(n, g) == \A S \in SUBSET (1 .. n) :
               g[S] = IF S = {} THEN base ELSE step[<<g[S \ {Max(S)}], s[Max(S)]>>]
           T == {n \in Nat : n <= Len(s) => \E g \in [SUBSET (1 .. n) -> Acc] : Folds(n, g)}
<1>1. 0 \in T
  <2> DEFINE g == [S \in SUBSET (1 .. 0) |-> base]
  <2>1. 1 .. 0 = {}
    OBVIOUS
  <2>2. g \in [SUBSET (1 .. 0) -> Acc] /\ Folds(0, g)
    BY <2>1
  <2> QED BY <2>2
<1>2. ASSUME NEW n \in Nat, n \in T PROVE n + 1 \in T
  <2> SUFFICES ASSUME n + 1 <= Len(s)
               PROVE  \E g \in [SUBSET (1 .. n + 1) -> Acc] : Folds(n + 1, g)
    <3> HIDE DEF Folds
    <3>1. n + 1 \in Nat
      OBVIOUS
    <3> QED BY <3>1, Zenon
  <2>1. PICK f \in [SUBSET (1 .. n) -> Acc] : Folds(n, f)
    <3>1. n <= Len(s)
      OBVIOUS
    <3> QED BY <1>2, <3>1, Zenon
  <2> DEFINE g == [S \in SUBSET (1 .. n + 1) |->
                      IF n + 1 \in S THEN step[<<f[S \ {n + 1}], s[n + 1]>>] ELSE f[S]]
  <2>2. s[n + 1] \in X
    OBVIOUS
  <2>3. ASSUME NEW S \in SUBSET (1 .. n + 1)
        PROVE  S \ {n + 1} \in SUBSET (1 .. n) /\ (n + 1 \notin S => S \in SUBSET (1 .. n))
    OBVIOUS
  <2>4. g \in [SUBSET (1 .. n + 1) -> Acc]
    BY <2>2, <2>3
  <2>5. ASSUME NEW S \in SUBSET (1 .. n + 1)
        PROVE  g[S] = IF S = {} THEN base ELSE step[<<g[S \ {Max(S)}], s[Max(S)]>>]
    <3>1. CASE n + 1 \in S
      <4>1. Max(S) \in S /\ \A m \in S : m <= Max(S)
        <5>1. n + 1 \in Nat /\ S # {}
          BY <3>1
        <5> QED BY <5>1, Greatest
      <4>2. Max(S) = n + 1
        <5>1. Max(S) \in 1 .. n + 1 /\ n + 1 <= Max(S)
          BY <3>1, <4>1
        <5> QED BY <5>1
      <4>3. g[S \ {n + 1}] = f[S \ {n + 1}]
        BY <2>3
      <4> QED BY <3>1, <4>2, <4>3
    <3>2. CASE n + 1 \notin S
      <4>1. S \in SUBSET (1 .. n) /\ g[S] = f[S]
        BY <2>3, <3>2
      <4>2. S \ {Max(S)} \in SUBSET (1 .. n) /\ S \ {Max(S)} \in SUBSET (1 .. n + 1)
            /\ n + 1 \notin S \ {Max(S)}
        BY <4>1, <3>2
      <4>3. g[S \ {Max(S)}] = f[S \ {Max(S)}]
        BY <4>2
      <4> QED BY <2>1, <4>1, <4>3
    <3> QED BY <3>1, <3>2
  <2> QED BY <2>4, <2>5
<1> HIDE DEF T
<1>3. Len(s) \in T /\ Len(s) \in Nat /\ DOMAIN s = 1 .. Len(s)
  BY <1>1, <1>2, Induction
<1>4. \E g \in [SUBSET (1 .. Len(s)) -> Acc] : Folds(Len(s), g)
  <2> HIDE DEF Folds
  <2>1. Len(s) <= Len(s)
    BY <1>3
  <2> QED BY <1>3, <2>1 DEF T
<1> QED BY <1>3, <1>4, Zenon DEF IsFold

\* Two folds of n elements that begin alike and go on alike.
Alike(g, h, n) ==
    /\ g[{}] = h[{}]
    /\ \A S \in SUBSET (1 .. n) : S # {} /\ g[S \ {Max(S)}] = h[S \ {Max(S)}] => g[S] = h[S]

\* They are the same.
LEMMA FoldsAgree ==
    ASSUME NEW n \in Nat, NEW g, NEW h, Alike(g, h, n)
    PROVE  \A S \in SUBSET (1 .. n) : g[S] = h[S]
<1> DEFINE T == {k \in Nat : k <= n => \A S \in SUBSET (1 .. k) : g[S] = h[S]}
<1>1. g[{}] = h[{}]
  BY DEF Alike
<1>2. \A S \in SUBSET (1 .. n) : S # {} /\ g[S \ {Max(S)}] = h[S \ {Max(S)}] => g[S] = h[S]
  BY DEF Alike
<1>3. 0 \in T
  <2>1. 1 .. 0 = {}
    OBVIOUS
  <2> QED BY <1>1, <2>1
<1>4. ASSUME NEW k \in Nat, k \in T PROVE k + 1 \in T
  <2> SUFFICES ASSUME k + 1 <= n, NEW S \in SUBSET (1 .. k + 1) PROVE g[S] = h[S]
    <3>1. k + 1 \in Nat
      OBVIOUS
    <3> QED BY <3>1, Zenon
  <2>1. \A R \in SUBSET (1 .. k) : g[R] = h[R]
    BY <1>4
  <2>2. CASE S \in SUBSET (1 .. k)
    BY <2>1, <2>2
  <2>3. CASE k + 1 \in S
    <3>1. Max(S) \in S /\ \A m \in S : m <= Max(S)
      <4>1. k + 1 \in Nat /\ S # {}
        BY <2>3
      <4> QED BY <4>1, Greatest
    <3>2. Max(S) = k + 1
      <4>1. Max(S) \in 1 .. k + 1 /\ k + 1 <= Max(S)
        BY <2>3, <3>1
      <4> QED BY <4>1
    <3>3. S \ {Max(S)} \in SUBSET (1 .. k) /\ S \in SUBSET (1 .. n) /\ S # {}
      BY <2>3, <3>2
    <3> QED BY <1>2, <2>1, <3>3
  <2> QED BY <2>2, <2>3
<1> HIDE DEF T
<1>5. n \in T
  BY <1>3, <1>4, Induction
<1> QED BY <1>5 DEF T

\* What Among has after each element of s.
Collecting(run, s, S, X) ==
    /\ run \in [0 .. Len(s) -> Seq(X)]
    /\ run[0] = <<>>
    /\ \A k \in Nat : k < Len(s) =>
           run[k + 1] = IF s[k + 1] \in S THEN Append(run[k], s[k + 1]) ELSE run[k]
    /\ Among(s, S) = run[Len(s)]

\* Among goes through its sequence step by step.
LEMMA AmongRun ==
    ASSUME NEW X, NEW s \in Seq(X), NEW S
    PROVE  \E run : Collecting(run, s, S, X)
<1> DEFINE Runs(n, f) == \A k \in 0 .. n :
               f[k] = IF k = 0 THEN <<>>
                      ELSE IF s[k] \in S THEN Append(f[k - 1], s[k]) ELSE f[k - 1]
           T == {n \in Nat : n <= Len(s) => \E f \in [0 .. n -> Seq(X)] : Runs(n, f)}
<1>1. 0 \in T
  <2> DEFINE f == [k \in 0 .. 0 |-> <<>>]
  <2>1. f \in [0 .. 0 -> Seq(X)] /\ Runs(0, f)
    OBVIOUS
  <2> HIDE DEF f, Runs
  <2> QED BY <2>1
<1>2. ASSUME NEW n \in Nat, n \in T PROVE n + 1 \in T
  <2> SUFFICES ASSUME n + 1 <= Len(s)
               PROVE  \E f \in [0 .. n + 1 -> Seq(X)] : Runs(n + 1, f)
    <3> HIDE DEF Runs
    <3>1. n + 1 \in Nat
      OBVIOUS
    <3> QED BY <3>1, Zenon
  <2>1. PICK f \in [0 .. n -> Seq(X)] : Runs(n, f)
    <3>1. n <= Len(s)
      OBVIOUS
    <3> QED BY <1>2, <3>1, Zenon
  <2> DEFINE g == [k \in 0 .. n + 1 |->
                      IF k = n + 1 THEN IF s[k] \in S THEN Append(f[n], s[k]) ELSE f[n] ELSE f[k]]
  <2>2. s[n + 1] \in X /\ f[n] \in Seq(X)
    OBVIOUS
  <2>3. g \in [0 .. n + 1 -> Seq(X)]
    BY <2>2
  <2>4. ASSUME NEW k \in 0 .. n + 1
        PROVE  g[k] = IF k = 0 THEN <<>>
                      ELSE IF s[k] \in S THEN Append(g[k - 1], s[k]) ELSE g[k - 1]
    <3>1. CASE k = n + 1
      <4>1. g[n] = f[n] /\ k - 1 = n /\ k # 0
        BY <3>1
      <4> QED BY <3>1, <4>1
    <3>2. CASE k \in 0 .. n
      <4>1. g[k] = f[k] /\ (k # 0 => g[k - 1] = f[k - 1])
        BY <3>2
      <4> QED BY <2>1, <3>2, <4>1
    <3> QED BY <3>1, <3>2
  <2> QED BY <2>3, <2>4
<1>3. PICK run \in [0 .. Len(s) -> Seq(X)] : Runs(Len(s), run)
  <2> HIDE DEF T
  <2>1. Len(s) \in T /\ Len(s) <= Len(s)
    BY <1>1, <1>2, Induction
  <2> HIDE DEF Runs
  <2> QED BY <2>1 DEF T
<1> DEFINE upTo == CHOOSE upTo : upTo = [k \in 0 .. Len(s) |->
                       IF k = 0 THEN <<>>
                       ELSE IF s[k] \in S THEN Append(upTo[k - 1], s[k]) ELSE upTo[k - 1]]
<1>4. run = [k \in 0 .. Len(s) |->
                IF k = 0 THEN <<>>
                ELSE IF s[k] \in S THEN Append(run[k - 1], s[k]) ELSE run[k - 1]]
  BY <1>3
<1>5. upTo = [k \in 0 .. Len(s) |->
                 IF k = 0 THEN <<>>
                 ELSE IF s[k] \in S THEN Append(upTo[k - 1], s[k]) ELSE upTo[k - 1]]
  BY <1>4
<1>6. Among(s, S) = upTo[Len(s)]
  BY DEF Among
<1> HIDE DEF upTo
<1>7. ASSUME NEW n \in Nat, n < Len(s)
      PROVE  /\ run[n + 1] = IF s[n + 1] \in S THEN Append(run[n], s[n + 1]) ELSE run[n]
             /\ upTo[n + 1] = IF s[n + 1] \in S THEN Append(upTo[n], s[n + 1]) ELSE upTo[n]
  <2>1. PICK k \in 0 .. Len(s) : k = n + 1 /\ k # 0 /\ k - 1 = n
    BY <1>7
  <2>2. run[k] = IF s[k] \in S THEN Append(run[k - 1], s[k]) ELSE run[k - 1]
    BY <1>3, <2>1
  <2>3. upTo[k] = IF s[k] \in S THEN Append(upTo[k - 1], s[k]) ELSE upTo[k - 1]
    BY <1>5, <2>1
  <2> QED BY <2>1, <2>2, <2>3
<1>8. run[0] = <<>> /\ upTo[0] = <<>>
  BY <1>3, <1>5
<1>9. \A n \in Nat : n <= Len(s) => upTo[n] = run[n]
  <2> DEFINE U == {n \in Nat : n <= Len(s) => upTo[n] = run[n]}
  <2>1. 0 \in U
    BY <1>8
  <2>2. ASSUME NEW n \in Nat, n \in U PROVE n + 1 \in U
    BY <1>7, <2>2
  <2> HIDE DEF U
  <2>3. \A n \in Nat : n \in U
    BY <2>1, <2>2, Induction
  <2> QED BY <2>3 DEF U
<1> QED BY <1>6, <1>7, <1>8, <1>9 DEF Collecting

\* One element more.
LEMMA AmongAppend ==
    ASSUME NEW X, NEW s \in Seq(X), NEW x \in X, NEW S
    PROVE  Among(Append(s, x), S) =
               IF x \in S THEN Append(Among(s, S), x) ELSE Among(s, S)
<1> DEFINE t == Append(s, x)
<1>1. t \in Seq(X) /\ Len(t) = Len(s) + 1 /\ t[Len(s) + 1] = x
      /\ \A k \in 1 .. Len(s) : t[k] = s[k]
  OBVIOUS
<1> HIDE DEF t
<1>2. PICK f : Collecting(f, s, S, X)
  BY AmongRun
<1>3. PICK g : Collecting(g, t, S, X)
  BY <1>1, AmongRun
<1>4. \A n \in Nat : n <= Len(s) => f[n] = g[n]
  <2> DEFINE U == {m \in Nat : m <= Len(s) => f[m] = g[m]}
  <2>1. 0 \in U
    BY <1>2, <1>3 DEF Collecting
  <2>2. ASSUME NEW n \in Nat, n \in U PROVE n + 1 \in U
    <3> SUFFICES ASSUME n + 1 <= Len(s) PROVE f[n + 1] = g[n + 1]
      OBVIOUS
    <3>1. f[n] = g[n] /\ n < Len(s) /\ n < Len(t) /\ t[n + 1] = s[n + 1]
      BY <1>1, <2>2
    <3>2. f[n + 1] = IF s[n + 1] \in S THEN Append(f[n], s[n + 1]) ELSE f[n]
      BY <1>2, <3>1 DEF Collecting
    <3>3. g[n + 1] = IF s[n + 1] \in S THEN Append(g[n], t[n + 1]) ELSE g[n]
      BY <1>3, <3>1 DEF Collecting
    <3> QED BY <3>1, <3>2, <3>3
  <2> HIDE DEF U
  <2>3. \A n \in Nat : n \in U
    BY <2>1, <2>2, Induction
  <2> QED BY <2>3 DEF U
<1>5. f[Len(s)] = g[Len(s)] /\ Len(s) \in Nat /\ Len(s) < Len(t)
  BY <1>1, <1>4
<1>6. g[Len(s) + 1] = IF x \in S THEN Append(g[Len(s)], x) ELSE g[Len(s)]
  BY <1>1, <1>3, <1>5 DEF Collecting
<1>7. Among(s, S) = f[Len(s)] /\ Among(t, S) = g[Len(s) + 1]
  BY <1>1, <1>2, <1>3 DEF Collecting
<1> QED BY <1>5, <1>6, <1>7 DEF t

\* Nothing is among nothing.
LEMMA AmongEmpty == ASSUME NEW S PROVE Among(<<>>, S) = <<>>
<1>1. <<>> \in Seq({}) /\ Len(<<>>) = 0
  OBVIOUS
<1>2. PICK run : Collecting(run, <<>>, S, {})
  BY <1>1, AmongRun
<1> QED BY <1>1, <1>2 DEF Collecting

\* What is among the elements of s is a sequence of elements of s.
LEMMA AmongType ==
    ASSUME NEW X, NEW s \in Seq(X), NEW S PROVE Among(s, S) \in Seq(X)
<1>1. PICK run : Collecting(run, s, S, X)
  BY AmongRun
<1> QED BY <1>1 DEF Collecting

\* Nothing of s is in S.
LEMMA AmongNone ==
    ASSUME NEW X, NEW s \in Seq(X), NEW S, \A k \in DOMAIN s : s[k] \notin S
    PROVE  Among(s, S) = <<>>
<1>1. PICK run : Collecting(run, s, S, X)
  BY AmongRun
<1> DEFINE U == {n \in Nat : n <= Len(s) => run[n] = <<>>}
<1>2. 0 \in U
  BY <1>1 DEF Collecting
<1>3. ASSUME NEW n \in Nat, n \in U PROVE n + 1 \in U
  <2> SUFFICES ASSUME n + 1 <= Len(s) PROVE run[n + 1] = <<>>
    OBVIOUS
  <2>1. n < Len(s) /\ run[n] = <<>> /\ n + 1 \in DOMAIN s
    BY <1>3
  <2> QED BY <1>1, <2>1 DEF Collecting
<1> HIDE DEF U
<1>4. Len(s) \in U
  BY <1>2, <1>3, Induction
<1> QED BY <1>1, <1>4 DEF Collecting, U

\* Sequences with the same elements are the same.
LEMMA SameElements ==
    ASSUME NEW X, NEW s \in Seq(X), NEW t \in Seq(X), Len(s) = Len(t),
           \A k \in 1 .. Len(s) : s[k] = t[k]
    PROVE  s = t
  OBVIOUS

\* A prefix, element by element.
LEMMA PrefixElements ==
    ASSUME NEW X, NEW s \in Seq(X), NEW t \in Seq(X)
    PROVE  IsPrefix(s, t) <=> Len(s) <= Len(t) /\ \A k \in 1 .. Len(s) : s[k] = t[k]
<1>1. ASSUME IsPrefix(s, t) PROVE Len(s) <= Len(t) /\ \A k \in 1 .. Len(s) : s[k] = t[k]
  <2>1. Len(s) <= Len(t) /\ SubSeq(s, 1, Len(s)) = SubSeq(t, 1, Len(s))
    BY <1>1 DEF IsPrefix
  <2> QED BY <2>1
<1>2. ASSUME Len(s) <= Len(t), \A k \in 1 .. Len(s) : s[k] = t[k] PROVE IsPrefix(s, t)
  <2>1. SubSeq(s, 1, Len(s)) = SubSeq(t, 1, Len(s))
    BY <1>2
  <2> QED BY <1>2, <2>1 DEF IsPrefix
<1> QED BY <1>1, <1>2
-----------------------------------------------------------------------------
\* A set with the empty sequence that is closed under Append has every sequence.
LEMMA SequenceInduction ==
    ASSUME NEW X, NEW T, <<>> \in T,
           \A s \in Seq(X) : \A x \in X : s \in T => Append(s, x) \in T
    PROVE  \A s \in Seq(X) : s \in T
<1> DEFINE U == {n \in Nat : \A s \in Seq(X) : Len(s) = n => s \in T}
<1>1. 0 \in U
  <2>1. \A s \in Seq(X) : Len(s) = 0 => s = <<>>
    OBVIOUS
  <2> QED BY <2>1
<1>2. ASSUME NEW n \in Nat, n \in U PROVE n + 1 \in U
  <2> SUFFICES ASSUME NEW s \in Seq(X), Len(s) = n + 1 PROVE s \in T
    OBVIOUS
  <2> DEFINE r == SubSeq(s, 1, n)
  <2>1. r \in Seq(X) /\ Len(r) = n /\ s[n + 1] \in X /\ s = Append(r, s[n + 1])
    OBVIOUS
  <2>2. r \in T
    BY <1>2, <2>1
  <2> HIDE DEF r
  <2> QED BY <2>1, <2>2
<1> HIDE DEF U
<1>3. \A n \in Nat : n \in U
  BY <1>1, <1>2, Induction
<1> QED BY <1>3 DEF U

-----------------------------------------------------------------------------
\* What a fold of all of s gives.  Every FoldLeft of the models is shown to be
\* one of these, with a function for its operator.
Folded(step, base, s) ==
    LET g == CHOOSE g : IsFold(g, s, base, step)
    IN  g[DOMAIN s]

\* Folded is what any fold gives.
LEMMA FoldedIs ==
    ASSUME NEW X, NEW s \in Seq(X), NEW base, NEW step, NEW g, IsFold(g, s, base, step)
    PROVE  Folded(step, base, s) = g[DOMAIN s]
<1> DEFINE h == CHOOSE h : IsFold(h, s, base, step)
<1>1. IsFold(h, s, base, step)
  OBVIOUS
<1>2. Folded(step, base, s) = h[DOMAIN s]
  BY DEF Folded
<1> HIDE DEF h
<1>3. Len(s) \in Nat /\ DOMAIN s = 1 .. Len(s)
  OBVIOUS
<1>4. Alike(g, h, Len(s))
  BY <1>1, <1>3 DEF IsFold, Alike
<1>5. g[1 .. Len(s)] = h[1 .. Len(s)]
  BY <1>3, <1>4, FoldsAgree
<1> QED BY <1>2, <1>3, <1>5

\* The fold of nothing, and of one element more.
StepByStep(step, base, X, Acc) ==
    /\ Folded(step, base, <<>>) = base
    /\ \A s \in Seq(X) : Folded(step, base, s) \in Acc
    /\ \A s \in Seq(X) : \A x \in X :
           Folded(step, base, Append(s, x)) = step[<<Folded(step, base, s), x>>]

\* They are what they should be.
LEMMA FoldedAppend ==
    ASSUME NEW X, NEW Acc, NEW base \in Acc, NEW step \in [Acc \X X -> Acc]
    PROVE  StepByStep(step, base, X, Acc)
<1>1. Folded(step, base, <<>>) = base
  <2>1. <<>> \in Seq(X) /\ DOMAIN <<>> = {}
    OBVIOUS
  <2>2. PICK g : IsFold(g, <<>>, base, step)
    BY <2>1, FoldExists
  <2>3. Folded(step, base, <<>>) = g[DOMAIN <<>>]
    BY <2>1, <2>2, FoldedIs
  <2> QED BY <2>1, <2>2, <2>3 DEF IsFold
<1>2. ASSUME NEW s \in Seq(X)
      PROVE  \E g \in [SUBSET DOMAIN s -> Acc] :
                 IsFold(g, s, base, step) /\ Folded(step, base, s) = g[DOMAIN s]
  <2>1. PICK g \in [SUBSET DOMAIN s -> Acc] : IsFold(g, s, base, step)
    BY FoldExists
  <2>2. Folded(step, base, s) = g[DOMAIN s]
    BY <2>1, FoldedIs
  <2> QED BY <2>1, <2>2
<1>3. ASSUME NEW s \in Seq(X), NEW x \in X
      PROVE  Folded(step, base, Append(s, x)) = step[<<Folded(step, base, s), x>>]
  <2> DEFINE t == Append(s, x)
             n == Len(s)
  <2>1. t \in Seq(X) /\ n \in Nat /\ DOMAIN s = 1 .. n /\ DOMAIN t = 1 .. n + 1 /\ t[n + 1] = x
        /\ \A k \in 1 .. n : t[k] = s[k]
    OBVIOUS
  <2> HIDE DEF t, n
  <2>0. n + 1 \in Nat /\ n + 1 \in 1 .. n + 1 /\ (1 .. n + 1) \ {n + 1} = 1 .. n
    BY <2>1
  <2>2. PICK f : IsFold(f, s, base, step) /\ Folded(step, base, s) = f[DOMAIN s]
    BY <1>2
  <2>3. PICK g : IsFold(g, t, base, step) /\ Folded(step, base, t) = g[DOMAIN t]
    BY <1>2, <2>1
  <2>4. IsFold(g, s, base, step)
    <3>1. ASSUME NEW S \in SUBSET DOMAIN s, S # {} PROVE t[Max(S)] = s[Max(S)]
      <4>1. Max(S) \in S
        BY <2>1, <3>1, Greatest
      <4> QED BY <2>1, <4>1
    <3>2. ASSUME NEW S \in SUBSET DOMAIN s PROVE S \in SUBSET DOMAIN t
      BY <2>1
    <3> QED BY <2>3, <3>1, <3>2 DEF IsFold
  <2>5. g[DOMAIN s] = f[DOMAIN s]
    <3>1. ASSUME NEW S \in SUBSET (1 .. n), S # {}, g[S \ {Max(S)}] = f[S \ {Max(S)}]
          PROVE  g[S] = f[S]
      <4>1. g[S] = step[<<g[S \ {Max(S)}], s[Max(S)]>>]
        BY <2>1, <2>4, <3>1 DEF IsFold
      <4>2. f[S] = step[<<f[S \ {Max(S)}], s[Max(S)]>>]
        BY <2>1, <2>2, <3>1 DEF IsFold
      <4> QED BY <3>1, <4>1, <4>2
    <3>2. g[{}] = f[{}]
      <4>1. {} \in SUBSET DOMAIN s
        OBVIOUS
      <4> QED BY <2>2, <2>4, <4>1 DEF IsFold
    <3>3. Alike(g, f, n)
      BY <3>1, <3>2 DEF Alike
    <3> QED BY <2>1, <3>3, FoldsAgree
  <2>6. Max(DOMAIN t) = n + 1
    <3>1. DOMAIN t # {} /\ n + 1 \in DOMAIN t
      BY <2>0, <2>1
    <3>2. Max(DOMAIN t) \in DOMAIN t /\ n + 1 <= Max(DOMAIN t)
      BY <2>0, <2>1, <3>1, Greatest
    <3> QED BY <2>1, <3>2
  <2>7. DOMAIN t \ {n + 1} = DOMAIN s /\ DOMAIN t # {}
    BY <2>0, <2>1
  <2>8. g[DOMAIN t] = step[<<g[DOMAIN s], x>>]
    <3>1. g[DOMAIN t] = step[<<g[DOMAIN t \ {Max(DOMAIN t)}], t[Max(DOMAIN t)]>>]
      BY <2>3, <2>7 DEF IsFold
    <3>2. t[n + 1] = x
      BY <2>1
    <3> QED BY <2>6, <2>7, <3>1, <3>2
  <2> QED BY <2>2, <2>3, <2>5, <2>8 DEF t
<1>4. ASSUME NEW s \in Seq(X) PROVE Folded(step, base, s) \in Acc
  <2>1. PICK g \in [SUBSET DOMAIN s -> Acc] : Folded(step, base, s) = g[DOMAIN s]
    BY <1>2
  <2> QED BY <2>1
<1> QED BY <1>1, <1>3, <1>4 DEF StepByStep
-----------------------------------------------------------------------------
\* Concatenation under a name: the provers take \o apart wherever they see it,
\* and then cannot use what is known of it.
Cat(s, t) == s \o t

\* Concatenation, the empty sequence and Append.
LEMMA Cats ==
    ASSUME NEW X
    PROVE  /\ \A s \in Seq(X) : Cat(s, <<>>) = s /\ Cat(<<>>, s) = s
           /\ \A s, t \in Seq(X) : Cat(s, t) \in Seq(X)
           /\ \A s, t \in Seq(X) : \A x \in X : Append(Cat(s, t), x) = Cat(s, Append(t, x))
           /\ \A s, t, r \in Seq(X) : Cat(Cat(s, t), r) = Cat(s, Cat(t, r))
<1>1. \A s \in Seq(X) : Cat(s, <<>>) = s /\ Cat(<<>>, s) = s
  BY DEF Cat
<1>2. \A s, t \in Seq(X) : Cat(s, t) \in Seq(X)
  BY DEF Cat
<1>3. ASSUME NEW s \in Seq(X), NEW t \in Seq(X), NEW x \in X
      PROVE  Append(Cat(s, t), x) = Cat(s, Append(t, x))
  BY DEF Cat
<1>4. ASSUME NEW s \in Seq(X), NEW t \in Seq(X), NEW r \in Seq(X)
      PROVE  Cat(Cat(s, t), r) = Cat(s, Cat(t, r))
  BY DEF Cat
<1> QED BY <1>1, <1>2, <1>3, <1>4

-----------------------------------------------------------------------------
\* Among, by induction over its sequence.
\* What is among s and in S is a sequence over both.
LEMMA AmongBoth ==
    ASSUME NEW X, NEW s \in Seq(X), NEW S PROVE Among(s, S) \in Seq(X \cap S)
<1> DEFINE T == {r \in Seq(X) : Among(r, S) \in Seq(X \cap S)}
<1>1. <<>> \in T
  <2>1. Among(<<>>, S) = <<>> /\ <<>> \in Seq(X) /\ <<>> \in Seq(X \cap S)
    BY AmongEmpty
  <2> QED BY <2>1
<1>2. ASSUME NEW r \in Seq(X), NEW x \in X, r \in T PROVE Append(r, x) \in T
  <2>1. Append(r, x) \in Seq(X)
        /\ Among(Append(r, x), S) = IF x \in S THEN Append(Among(r, S), x) ELSE Among(r, S)
    BY AmongAppend
  <2>2. Among(r, S) \in Seq(X \cap S)
    BY <1>2
  <2>3. x \in S => Append(Among(r, S), x) \in Seq(X \cap S)
    BY <2>2
  <2> QED BY <2>1, <2>2, <2>3
<1> HIDE DEF T
<1>3. s \in T
  BY <1>1, <1>2, SequenceInduction
<1> QED BY <1>3 DEF T

\* Only the elements of s matter.
LEMMA AmongSame ==
    ASSUME NEW X, NEW s \in Seq(X), NEW S, NEW U, \A x \in X : x \in S <=> x \in U
    PROVE  Among(s, S) = Among(s, U)
<1> DEFINE T == {r \in Seq(X) : Among(r, S) = Among(r, U)}
<1>1. <<>> \in T
  BY AmongEmpty
<1>2. ASSUME NEW r \in Seq(X), NEW x \in X, r \in T PROVE Append(r, x) \in T
  <2>1. /\ Append(r, x) \in Seq(X)
        /\ Among(Append(r, x), S) = IF x \in S THEN Append(Among(r, S), x) ELSE Among(r, S)
        /\ Among(Append(r, x), U) = IF x \in U THEN Append(Among(r, U), x) ELSE Among(r, U)
    BY AmongAppend
  <2>2. Among(r, S) = Among(r, U)
    BY <1>2
  <2>3. x \in S <=> x \in U
    OBVIOUS
  <2>4. Among(Append(r, x), S) = Among(Append(r, x), U)
    BY <2>1, <2>2, <2>3
  <2> QED BY <2>1, <2>4
<1> HIDE DEF T
<1>3. s \in T
  BY <1>1, <1>2, SequenceInduction
<1> QED BY <1>3 DEF T

\* Of two sequences, one after the other.
LEMMA AmongConcat ==
    ASSUME NEW X, NEW s \in Seq(X), NEW t \in Seq(X), NEW S
    PROVE  Among(Cat(s, t), S) = Cat(Among(s, S), Among(t, S))
<1> DEFINE T == {r \in Seq(X) : Among(Cat(s, r), S) = Cat(Among(s, S), Among(r, S))}
<1>1. <<>> \in T
  <2>1. Among(s, S) \in Seq(X) /\ Among(<<>>, S) = <<>> /\ <<>> \in Seq(X)
    BY AmongType, AmongEmpty
  <2> QED BY <2>1, Cats
<1>2. ASSUME NEW r \in Seq(X), NEW x \in X, r \in T PROVE Append(r, x) \in T
  <2>1. /\ Append(r, x) \in Seq(X)
        /\ Among(Append(r, x), S) = IF x \in S THEN Append(Among(r, S), x) ELSE Among(r, S)
    BY AmongAppend
  <2>2. Cat(s, r) \in Seq(X) /\ Cat(s, Append(r, x)) = Append(Cat(s, r), x)
    BY Cats
  <2>3. Among(Append(Cat(s, r), x), S) =
            IF x \in S THEN Append(Among(Cat(s, r), S), x) ELSE Among(Cat(s, r), S)
    BY <2>2, AmongAppend
  <2>4. Among(s, S) \in Seq(X) /\ Among(r, S) \in Seq(X)
    BY AmongType
  <2>5. Append(Cat(Among(s, S), Among(r, S)), x) = Cat(Among(s, S), Append(Among(r, S), x))
    BY <2>4, Cats
  <2>6. Among(Cat(s, r), S) = Cat(Among(s, S), Among(r, S))
    BY <1>2
  <2> QED BY <2>1, <2>2, <2>3, <2>5, <2>6
<1> HIDE DEF T
<1>3. t \in T
  BY <1>1, <1>2, SequenceInduction
<1> QED BY <1>3 DEF T

\* Twice is at once.
LEMMA AmongTwice ==
    ASSUME NEW X, NEW s \in Seq(X), NEW S, NEW U
    PROVE  Among(Among(s, S), U) = Among(s, S \cap U)
<1> DEFINE T == {r \in Seq(X) : Among(Among(r, S), U) = Among(r, S \cap U)}
<1>1. <<>> \in T
  BY AmongEmpty
<1>2. ASSUME NEW r \in Seq(X), NEW x \in X, r \in T PROVE Append(r, x) \in T
  <2>1. /\ Append(r, x) \in Seq(X)
        /\ Among(Append(r, x), S) = IF x \in S THEN Append(Among(r, S), x) ELSE Among(r, S)
        /\ Among(Append(r, x), S \cap U) =
               IF x \in S \cap U THEN Append(Among(r, S \cap U), x) ELSE Among(r, S \cap U)
    BY AmongAppend, SMTT(20)
  <2>2. Among(r, S) \in Seq(X)
    BY AmongType
  <2>3. Among(Append(Among(r, S), x), U) =
            IF x \in U THEN Append(Among(Among(r, S), U), x) ELSE Among(Among(r, S), U)
    BY <2>2, AmongAppend
  <2>4. Among(Among(r, S), U) = Among(r, S \cap U)
    BY <1>2
  <2>5. CASE x \in S
    <3>1. Among(Append(r, x), S) = Append(Among(r, S), x) /\ (x \in S \cap U <=> x \in U)
      BY <2>1, <2>5
    <3> QED BY <2>1, <2>3, <2>4, <3>1
  <2>6. CASE x \notin S
    BY <2>1, <2>4, <2>6
  <2> QED BY <2>5, <2>6
<1> HIDE DEF T
<1>3. s \in T
  BY <1>1, <1>2, SequenceInduction
<1> QED BY <1>3 DEF T

\* The images of the elements of s, in their order.
Mapped(f, s) == [k \in DOMAIN s |-> f[s[k]]]

\* The images of nothing, of a sequence, and of one element more.
MapsEach(f, X, Y) ==
    /\ Mapped(f, <<>>) = <<>>
    /\ \A s \in Seq(X) : Mapped(f, s) \in Seq(Y) /\ Len(Mapped(f, s)) = Len(s)
    /\ \A s \in Seq(X) : \A x \in X : Mapped(f, Append(s, x)) = Append(Mapped(f, s), f[x])

\* A function is applied to the elements one by one.
LEMMA MappedAppend ==
    ASSUME NEW X, NEW Y, NEW f \in [X -> Y]
    PROVE  MapsEach(f, X, Y)
<1>1. Mapped(f, <<>>) = <<>>
  BY DEF Mapped
<1>2. ASSUME NEW s \in Seq(X) PROVE Mapped(f, s) \in Seq(Y) /\ Len(Mapped(f, s)) = Len(s)
  BY DEF Mapped
<1>3. ASSUME NEW s \in Seq(X), NEW x \in X
      PROVE  Mapped(f, Append(s, x)) = Append(Mapped(f, s), f[x])
  <2> DEFINE l == Mapped(f, Append(s, x))
             r == Append(Mapped(f, s), f[x])
  <2>1. f[x] \in Y /\ Append(s, x) \in Seq(X) /\ Len(Append(s, x)) = Len(s) + 1
    OBVIOUS
  <2>2. l \in Seq(Y) /\ Len(l) = Len(s) + 1
    BY <1>2, <2>1
  <2>4. r \in Seq(Y) /\ Len(r) = Len(s) + 1
    BY <1>2, <2>1
  <2>3. ASSUME NEW k \in 1 .. Len(s) + 1 PROVE l[k] = r[k]
    <3>1. l[k] = f[Append(s, x)[k]]
      BY <2>1 DEF Mapped
    <3>2. CASE k = Len(s) + 1
      <4>1. r[k] = f[x]
        BY <1>2, <2>1, <3>2
      <4> QED BY <3>1, <3>2, <4>1
    <3>3. CASE k \in 1 .. Len(s)
      <4>1. r[k] = Mapped(f, s)[k]
        BY <1>2, <2>1, <3>3
      <4>2. Mapped(f, s)[k] = f[s[k]]
        BY <3>3 DEF Mapped
      <4> QED BY <3>1, <3>3, <4>1, <4>2
    <3>4. k = Len(s) + 1 \/ k \in 1 .. Len(s)
      <4>1. Len(s) \in Nat
        OBVIOUS
      <4> QED BY <4>1
    <3> HIDE DEF l, r
    <3> QED BY <3>2, <3>3, <3>4
  <2> HIDE DEF l, r
  <2>5. l = r
    BY <2>2, <2>3, <2>4, SameElements
  <2> QED BY <2>5 DEF l, r
<1> QED BY <1>1, <1>2, <1>3 DEF MapsEach

\* To choose among the images is to choose among the elements.
LEMMA AmongMapped ==
    ASSUME NEW X, NEW Y, NEW f \in [X -> Y], NEW s \in Seq(X), NEW S, NEW U,
           \A x \in X : x \in S <=> f[x] \in U
    PROVE  Among(Mapped(f, s), U) = Mapped(f, Among(s, S))
<1> DEFINE T == {r \in Seq(X) : Among(Mapped(f, r), U) = Mapped(f, Among(r, S))}
<1>5. MapsEach(f, X, Y)
  BY MappedAppend
<1>1. <<>> \in T
  <2>1. Among(<<>>, S) = <<>> /\ Among(<<>>, U) = <<>>
    BY AmongEmpty
  <2>2. Mapped(f, <<>>) = <<>>
    BY <1>5 DEF MapsEach
  <2> QED BY <2>1, <2>2
<1>4. /\ \A r \in Seq(X) : Mapped(f, r) \in Seq(Y)
      /\ \A r \in Seq(X) : \A x \in X : Mapped(f, Append(r, x)) = Append(Mapped(f, r), f[x])
  BY <1>5 DEF MapsEach
<1>2. ASSUME NEW r \in Seq(X), NEW x \in X, r \in T PROVE Append(r, x) \in T
  <2>1. /\ Append(r, x) \in Seq(X) /\ Among(r, S) \in Seq(X)
        /\ Among(Append(r, x), S) = IF x \in S THEN Append(Among(r, S), x) ELSE Among(r, S)
    BY AmongAppend, AmongType
  <2>2. /\ Mapped(f, r) \in Seq(Y) /\ f[x] \in Y
        /\ Mapped(f, Append(r, x)) = Append(Mapped(f, r), f[x])
    BY <1>4
  <2>4. Mapped(f, Append(Among(r, S), x)) = Append(Mapped(f, Among(r, S)), f[x])
    BY <1>4, <2>1
  <2>3. Among(Append(Mapped(f, r), f[x]), U) =
            IF f[x] \in U THEN Append(Among(Mapped(f, r), U), f[x]) ELSE Among(Mapped(f, r), U)
    BY <2>2, AmongAppend
  <2>5. Among(Mapped(f, r), U) = Mapped(f, Among(r, S))
    BY <1>2
  <2> QED BY <2>1, <2>2, <2>3, <2>4, <2>5
<1> HIDE DEF T
<1>3. s \in T
  BY <1>1, <1>2, SequenceInduction
<1> QED BY <1>3 DEF T

-----------------------------------------------------------------------------
\* FlattenSeq of nothing, and of one sequence more.
LEMMA FlattenAppend ==
    ASSUME NEW X
    PROVE  /\ FlattenSeq(<<>>) = <<>>
           /\ \A s \in Seq(Seq(X)) : FlattenSeq(s) \in Seq(X)
           /\ \A s \in Seq(Seq(X)) : \A x \in Seq(X) :
                  FlattenSeq(Append(s, x)) = Cat(FlattenSeq(s), x)
<1> DEFINE step == [p \in Seq(X) \X Seq(X) |-> Cat(p[1], p[2])]
           F(s) == Folded(step, <<>>, s)
<1>1. /\ F(<<>>) = <<>>
      /\ \A s \in Seq(Seq(X)) : F(s) \in Seq(X)
      /\ \A s \in Seq(Seq(X)) : \A x \in Seq(X) : F(Append(s, x)) = Cat(F(s), x)
  <2>1. step \in [Seq(X) \X Seq(X) -> Seq(X)] /\ <<>> \in Seq(X)
    <3>1. ASSUME NEW p \in Seq(X) \X Seq(X) PROVE Cat(p[1], p[2]) \in Seq(X)
      BY Cats
    <3> QED BY <3>1
  <2>2. \A a \in Seq(X) : \A x \in Seq(X) : step[<<a, x>>] = Cat(a, x)
    OBVIOUS
  <2> HIDE DEF step
  <2>3. /\ F(<<>>) = <<>>
        /\ \A s \in Seq(Seq(X)) : F(s) \in Seq(X)
        /\ \A s \in Seq(Seq(X)) : \A x \in Seq(X) : F(Append(s, x)) = step[<<F(s), x>>]
    <3>1. StepByStep(step, <<>>, Seq(X), Seq(X))
      BY <2>1, FoldedAppend
    <3> QED BY <3>1 DEF StepByStep
  <2> QED BY <2>2, <2>3
<1>2. FlattenSeq(<<>>) = <<>>
  BY DEF FlattenSeq
<1> HIDE DEF F
<1>3. ASSUME NEW s \in Seq(Seq(X)) PROVE FlattenSeq(s) = F(s)
  <2>1. CASE s = <<>>
    BY <1>1, <1>2, <2>1
  <2>2. CASE s # <<>>
    <3> DEFINE n == Len(s)
               h == [i \in 1 .. n |-> F(SubSeq(s, 1, i))]
               flatten == CHOOSE f : f = [i \in 1 .. n |->
                                             IF i = 1 THEN s[i] ELSE Cat(f[i - 1], s[i])]
    <3>1. n \in Nat /\ n >= 1
      BY <2>2
    <3>2. ASSUME NEW i \in 1 .. n
          PROVE  F(SubSeq(s, 1, i)) =
                     IF i = 1 THEN s[i] ELSE Cat(F(SubSeq(s, 1, i - 1)), s[i])
      <4>1. SubSeq(s, 1, i - 1) \in Seq(Seq(X)) /\ s[i] \in Seq(X)
            /\ SubSeq(s, 1, i) = Append(SubSeq(s, 1, i - 1), s[i])
        OBVIOUS
      <4>2. F(SubSeq(s, 1, i)) = Cat(F(SubSeq(s, 1, i - 1)), s[i])
        BY <1>1, <4>1
      <4>3. i = 1 => SubSeq(s, 1, i - 1) = <<>>
        OBVIOUS
      <4>4. Cat(<<>>, s[i]) = s[i]
        BY <4>1, Cats
      <4> QED BY <1>1, <4>2, <4>3, <4>4
    <3>3. h = [i \in 1 .. n |-> IF i = 1 THEN s[i] ELSE Cat(h[i - 1], s[i])]
      BY <3>1, <3>2
    <3>4. flatten = [i \in 1 .. n |-> IF i = 1 THEN s[i] ELSE Cat(flatten[i - 1], s[i])]
      <4> HIDE DEF h
      <4> QED BY <3>3
    <3>5. FlattenSeq(s) = flatten[n]
      BY <3>1 DEF FlattenSeq, Cat
    <3> HIDE DEF flatten
    <3> DEFINE U == {i \in Nat : i + 1 <= n => flatten[i + 1] = F(SubSeq(s, 1, i + 1))}
    <3>6. 0 \in U
      <4>1. flatten[1] = s[1] /\ F(SubSeq(s, 1, 1)) = s[1]
        BY <3>1, <3>2, <3>4
      <4> QED BY <4>1
    <3>7. ASSUME NEW i \in Nat, i \in U PROVE i + 1 \in U
      <4> SUFFICES ASSUME i + 2 <= n PROVE flatten[i + 2] = F(SubSeq(s, 1, i + 2))
        OBVIOUS
      <4>1. PICK j \in 1 .. n : j = i + 2 /\ j # 1 /\ j - 1 = i + 1
        BY <3>1
      <4>2. flatten[j - 1] = F(SubSeq(s, 1, j - 1))
        BY <3>7, <4>1
      <4>3. flatten[j] = Cat(flatten[j - 1], s[j])
        BY <3>4, <4>1
      <4>4. F(SubSeq(s, 1, j)) = Cat(F(SubSeq(s, 1, j - 1)), s[j])
        BY <3>2, <4>1
      <4> QED BY <4>1, <4>2, <4>3, <4>4
    <3> HIDE DEF U
    <3>8. \A i \in Nat : i \in U
      BY <3>6, <3>7, Induction
    <3>9. n - 1 \in Nat /\ n - 1 + 1 = n
      BY <3>1
    <3>10. flatten[n] = F(SubSeq(s, 1, n))
      <4>1. PICK i \in Nat : i = n - 1 /\ i + 1 = n
        BY <3>9
      <4>2. i \in U /\ i + 1 <= n
        BY <3>1, <3>8, <4>1
      <4> QED BY <4>1, <4>2 DEF U
    <3>11. SubSeq(s, 1, n) = s
      OBVIOUS
    <3> QED BY <3>5, <3>10, <3>11
  <2> QED BY <2>1, <2>2
<1>4. ASSUME NEW s \in Seq(Seq(X)), NEW x \in Seq(X)
      PROVE  FlattenSeq(Append(s, x)) = Cat(FlattenSeq(s), x)
  <2>1. Append(s, x) \in Seq(Seq(X))
    OBVIOUS
  <2> QED BY <1>1, <1>3, <2>1
<1> QED BY <1>1, <1>2, <1>3, <1>4
=============================================================================
