----------------------- MODULE MCFundingReservations -----------------------
(* Small instances of FundingReservations for TLC. *)
EXTENDS FundingReservations, TLC

\* Obligations are interchangeable, and so are reservations and accounts.
Symmetry ==
  Permutations(Obligations) \cup Permutations(Reservations) \cup Permutations(Accounts)
=============================================================================
