---------------------------------- MODULE Sums ----------------------------------
(***************************************************************************)
(* The sum of the amounts a function gives to finitely many things: each   *)
(* thing has as many units as its amount is, and the sum counts the units. *)
(***************************************************************************)
EXTENDS Naturals, FiniteSets

Units(f) == UNION {{x} \X (1 .. f[x]) : x \in DOMAIN f}
Sum(f) == Cardinality(Units(f))
=============================================================================
