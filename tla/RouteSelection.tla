----------------------------- MODULE RouteSelection -----------------------------
(***************************************************************************)
(* postgres-route-handler.ts: how the route of an internal payment         *)
(* instruction is chosen.  Creation asks for linked instruments by type    *)
(* and intent and plans the legs; routing filters the bindings in force,   *)
(* orders them by score and plans the legs anew.  Accounts are linked and  *)
(* unlinked in between, and an instruction is routed again and again.      *)
(*                                                                         *)
(* A binding's filters by equality (currency, accounts, purposes, regions, *)
(* amounts) are one filter, on the instruction's type; `quality' is the    *)
(* weighted sum of its profile's weights.  Statuses, locks and changes of  *)
(* the catalogue are in TreasuryPayments.                                  *)
(***************************************************************************)
EXTENDS Naturals, FiniteSets

\* Bindings in force, with their profiles' rank in the alphabet.
CONSTANT Bindings

Types == {"fiat_in", "fiat_out", "mint", "virtual"}
Intents == {"none", "wallet", "fiat"}
Links == {"wallet", "fiat"}
Selectors == {"absent", "none", "wallet", "fiat", "wallet_or_fiat", "wallet_and_fiat"}

BindingsAssumption ==
  /\ Bindings \subseteq [scope : {"default", "other"}, filter : Types \cup {"any"},
                         instrument : Selectors, multiLegs : BOOLEAN, priority : Nat,
                         quality : Nat, profile : Nat, route : Nat]
  /\ \A a, b \in Bindings : a.route = b.route => a = b    \* unique (tenant, route_code)

VARIABLES
  catalogue,    \* the bindings of the tenant
  destination,  \* classes of verified instruments linked to the destination account
  instruction,  \* type and leg plan of the instruction
  decision      \* its row in routing_decisions

vars == <<catalogue, destination, instruction, decision>>

NoInstruction == [type |-> "none", legs |-> {}]
NoDecision == [override |-> 0, links |-> {}, route |-> 0, legs |-> {}]

Init ==
  /\ catalogue \in SUBSET Bindings
  /\ destination = {}
  /\ instruction = NoInstruction
  /\ decision = NoDecision

-----------------------------------------------------------------------------
(* Creation *)

\* resolveInternalTreasuryInstructionPolicy: the links it asks for ...
NeedsAtSource(type) == IF type = "fiat_in" THEN {"fiat"} ELSE {}
NeedsAtDestination(type, intent) ==
  CASE type = "fiat_out" -> {"fiat"}
    [] type = "mint" -> {"wallet"}
    [] type = "virtual" /\ intent # "none" -> {intent}
    [] OTHER -> {}
\* ... and the externalization that it plans as a second leg.
PlannedSecondLeg(type, intent) == IF type = "virtual" THEN {intent} \ {"none"} ELSE {}

CreateInstruction(type, intent, source) ==
  /\ instruction = NoInstruction
  /\ NeedsAtSource(type) \subseteq source
  /\ NeedsAtDestination(type, intent) \subseteq destination
  /\ instruction' = [type |-> type, legs |-> PlannedSecondLeg(type, intent)]
  /\ UNCHANGED <<catalogue, destination, decision>>

-----------------------------------------------------------------------------
(* Routing *)

\* linkedInstrumentSelectorMatches
SelectorMatches(selector, links) ==
  CASE selector = "wallet" -> "wallet" \in links
    [] selector = "fiat" -> "fiat" \in links
    [] selector = "wallet_or_fiat" -> links # {}
    [] selector = "wallet_and_fiat" -> links = Links
    [] selector = "none" -> links = {}
    [] OTHER -> TRUE

\* routeBindingMatches: a default binding matches whatever its expression says.
RouteBindingMatches(b, type, links) ==
  \/ b.scope = "default"
  \/ b.filter \in {"any", type} /\ SelectorMatches(b.instrument, links)

\* computeRouteCandidateScore
Score(b) == 10 * b.priority + b.quality

\* Mutant: bindings of a profile are alike.
UpToProfile(a, b) ==
  \/ Score(a) > Score(b)
  \/ Score(a) = Score(b) /\ a.priority > b.priority
  \/ Score(a) = Score(b) /\ a.priority = b.priority /\ a.profile < b.profile
\* The order of the candidates.
Before(a, b) ==
  \/ UpToProfile(a, b)
  \/ /\ Score(a) = Score(b) /\ a.priority = b.priority /\ a.profile = b.profile
     /\ a.route < b.route

\* The first candidates in that order; of candidates that the order does not
\* tell apart the sort keeps the order of the rows, which is any.
First(candidates) == {a \in candidates : ~ \E b \in candidates : Before(b, a)}

RequiresMultiLegs(b) == b.multiLegs \/ b.instrument \notin {"absent", "none"}

\* Mutant: the selector is not compared with the links again.
AsSelected(b, links) ==
  IF b.instrument \in {"fiat"} THEN {"fiat"}
  ELSE IF b.instrument \in {"wallet", "wallet_and_fiat"} \/ "wallet" \in links THEN {"wallet"}
  ELSE links
\* deriveBindingLegRequirement: the second leg goes to the wallet if there is
\* one; there is no second leg if the selector does not match.
ResolvedSecondLeg(b, links) ==
  IF b.instrument = "none" \/ ~SelectorMatches(b.instrument, links) THEN {}
  ELSE IF b.instrument = "fiat" THEN {"fiat"}
  ELSE IF "wallet" \in links THEN {"wallet"} ELSE links

\* Routing with an override selects the one binding of that code.  A binding
\* that requires a second leg which cannot be resolved refuses the routing;
\* the next candidate is not tried.
RouteInstruction(override) ==
  /\ instruction # NoInstruction
  /\ LET candidates == {b \in catalogue : RouteBindingMatches(b, instruction.type, destination)}
     IN  \E b \in IF override = 0 THEN First(candidates)
                  ELSE {c \in candidates : c.route = override} :
           LET second == IF RequiresMultiLegs(b) THEN ResolvedSecondLeg(b, destination) ELSE {}
           IN  /\ RequiresMultiLegs(b) => second # {}
               /\ instruction' = [instruction EXCEPT !.legs = second]
               /\ decision' = [override |-> override, links |-> destination,
                               route |-> b.route, legs |-> second]
  /\ UNCHANGED <<catalogue, destination>>

\* Linking and unlinking at the destination: see LinkedInstruments.
Relink(class) ==
  /\ destination' = IF class \in destination THEN destination \ {class} ELSE destination \cup {class}
  /\ UNCHANGED <<catalogue, instruction, decision>>

Next ==
  \/ \E type \in Types, intent \in Intents, source \in SUBSET {"fiat"} :
       CreateInstruction(type, intent, source)
  \/ \E override \in {0} \cup {b.route : b \in catalogue} : RouteInstruction(override)
  \/ \E class \in Links : Relink(class)

Spec == Init /\ [][Next]_vars

-----------------------------------------------------------------------------
(* Properties *)

TypeOK ==
  /\ catalogue \subseteq Bindings
  /\ destination \subseteq Links
  /\ instruction \in [type : Types \cup {"none"}, legs : SUBSET Links]
  /\ decision.override \in {0, decision.route} /\ decision.links \subseteq Links

\* "selected highest deterministic score": an instruction that is routed again,
\* with the same links, keeps its route and its legs, in whatever order the rows
\* of the bindings come.
RoutedTheSameAgain ==
  [][decision # NoDecision /\ decision'.override = decision.override /\ decision'.links = decision.links
       => decision' = decision]_vars

\* A second leg that routing plans goes to one instrument, and one that was
\* linked then, also by an override or a default binding, which ignore the
\* filter; the instruction's plan is that of its decision.
SecondLegIsLinked ==
  decision # NoDecision =>
    /\ Cardinality(decision.legs) <= 1 /\ decision.legs \subseteq decision.links
    /\ instruction.legs = decision.legs
=============================================================================
