------------------------- MODULE MCTreasuryPayments -------------------------
(* Small instances of TreasuryPayments for TLC. *)
EXTENDS TreasuryPayments, TLC

Symmetry == Permutations(Payments) \cup Permutations(Profiles) \cup Permutations(Bindings)
=============================================================================
