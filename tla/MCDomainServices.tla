--------------------------- MODULE MCDomainServices ---------------------------
(* The two users are also the keys and the callers of onboarding, so that    *)
(* one small symmetry serves all services.                                   *)
EXTENDS DomainServices, Sequences, TLC

Symmetry == Permutations(Accounts) \cup Permutations(Users)

\* A second instruction is explored before the first reconciliation only: two
\* instructions are one story, a rebalance between two runs is another.
Explored == runs > 0 => Len(instruction) <= 1
=============================================================================
