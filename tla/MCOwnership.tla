---------------------------- MODULE MCOwnership ----------------------------
(* Small instances of Ownership for TLC. *)
EXTENDS Ownership, TLC

Sym == Permutations(Procs) \cup Permutations(Sessions)
=============================================================================
