--------------------------- MODULE MCServerComponents ---------------------------
(* One set of two keys and one of two callers serve all components, so that    *)
(* the symmetry stays small.                                                   *)
EXTENDS ServerComponents, TLC
Symmetry == Permutations(Commands) \cup Permutations(Handlers)

\* Bindings with ties in score, with each selector, with and without a second
\* leg, in both scopes.
Binding(scope, filter, instrumentClass, multiLegs, priority, quality, profile, route) ==
  [scope |-> scope, filter |-> filter, instrument |-> instrumentClass, multiLegs |-> multiLegs,
   priority |-> priority, quality |-> quality, profile |-> profile, route |-> route]
RouteBindings ==
  {Binding("default", "any", "absent", FALSE, 1, 0, 1, 1),
   Binding("other", "virtual", "none", FALSE, 1, 0, 1, 2),
   Binding("default", "any", "wallet", FALSE, 0, 10, 1, 3),
   Binding("other", "virtual", "wallet_or_fiat", FALSE, 2, 0, 1, 4),
   Binding("other", "any", "fiat", FALSE, 2, 0, 2, 5),
   Binding("other", "virtual", "wallet_and_fiat", FALSE, 1, 10, 1, 6),
   Binding("default", "any", "absent", TRUE, 1, 0, 2, 7)}

\* The first of two transfers fails.
TransferEvents == {<<1, "failed">>}
=============================================================================
