---------------------------- MODULE Subsequences -----------------------------
(***************************************************************************)
(* A part of a sequence, in its order: what a loop over the sequence keeps *)
(* when it skips some of the elements.  It is SelectSeq with a set for the *)
(* test and with a definition that proofs can expand.                      *)
(***************************************************************************)
EXTENDS Naturals, SequencesExt

\* The elements of s that are in S.
Among(s, S) ==
    LET upTo[k \in 0 .. Len(s)] ==
            IF k = 0 THEN <<>>
            ELSE IF s[k] \in S THEN Append(upTo[k - 1], s[k]) ELSE upTo[k - 1]
    IN  upTo[Len(s)]
=============================================================================
