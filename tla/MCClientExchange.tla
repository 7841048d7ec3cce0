-------------------------- MODULE MCClientExchange --------------------------
(* Small instances of ClientExchange for TLC. *)
EXTENDS ClientExchange, TLC

Symmetry == Permutations(Instructions) \cup Permutations(Events)
=============================================================================
