----------------------------- MODULE MCService -----------------------------
(* Small instances of Service for TLC. *)
EXTENDS Service, TLC

Sym == Permutations(Callers) \cup Permutations(Turns) \cup Permutations(Transports)

\* One result of each kind Run distinguishes.
Result(err, last, blank) == [err |-> err, last |-> last, blank |-> blank]
OneOutcome == {Result(FALSE, "end_turn", FALSE)}
NoText == {Result(FALSE, "other", TRUE)}
TwoOutcomes == {Result(TRUE, "none", TRUE), Result(FALSE, "end_turn", FALSE)}
=============================================================================
