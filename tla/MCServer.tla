----------------------------- MODULE MCServer ------------------------------
(* Small instances of Server for TLC. *)
EXTENDS Server, TLC

TurnSymmetry == Permutations(Turns)

Result(err, last, blank) == [err |-> err, last |-> last, blank |-> blank]
OneOutcome == {Result(FALSE, "end_turn", FALSE)}
=============================================================================
