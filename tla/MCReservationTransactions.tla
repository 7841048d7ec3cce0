--------------------- MODULE MCReservationTransactions ---------------------
(* Small instances of ReservationTransactions for TLC. *)
EXTENDS ReservationTransactions, TLC

Symmetry ==
  Permutations(Obligations) \cup Permutations(Reservations) \cup Permutations(Connections)
=============================================================================
