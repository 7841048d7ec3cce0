----------------------------- MODULE DomainServices -----------------------------
(***************************************************************************)
(* The domain services of src/src side by side: each run of this           *)
(* specification is a run of one of them, while the others stay as they    *)
(* begin.  The services share only what the modules model as each other's  *)
(* environment (the balances of DomainFunds and DomainRebalancing), so     *)
(* nothing is lost by not interleaving them.                               *)
(***************************************************************************)
EXTENDS Naturals

CONSTANTS
  Accounts, Obligations, Amounts, Events, DepositIds, InternalKeys, ExternalKeys, RedemptionKeys,
  MaxOpening, MaxReservations, MaxCredits, MaxOrders,                       \* DomainFunds
  Holders, Users, Targets, Buffers, Fees, Thresholds, Reports,
  MaxBalance, MaxReserved, MaxMovements, MaxInstructions, MaxRuns, MaxBreaks, \* DomainRebalancing
  Clients, Keys, CircleIds, Applications, Calls                             \* DomainOnboarding

VARIABLES
  service,  \* the service that runs
  opening, balance, obligation, reservation, event, deposit, credits, payment, external, redemption, refused,
  funds, buffer, instruction, broken, reported, runs, break, moved, outside, movements,
  client, record, account, application, provider, pending, approvals

Funds == INSTANCE DomainFunds
Rebalancing == INSTANCE DomainRebalancing
Onboarding == INSTANCE DomainOnboarding

ASSUME FundsAssumption == Funds!AmountsPositive /\ Funds!BoundsNat /\ Funds!KeysFinite
ASSUME RebalancingAssumption == Rebalancing!RebalancingAssumption
ASSUME OnboardingAssumption == Onboarding!OnboardingAssumption

fundsVars == <<opening, balance, obligation, reservation, event, deposit, credits, payment, external, redemption, refused>>
rebalancingVars == <<funds, buffer, instruction, broken, reported, runs, break, moved, outside, movements>>
onboardingVars == <<client, record, account, application, provider, pending, approvals>>
vars == <<service, fundsVars, rebalancingVars, onboardingVars>>

Init ==
  /\ service \in {"funds", "rebalancing", "onboarding"}
  /\ Funds!Init /\ Rebalancing!Init /\ Onboarding!Init

FundsStep ==
  /\ service = "funds" /\ Funds!Next
  /\ UNCHANGED <<service, rebalancingVars, onboardingVars>>

RebalancingStep ==
  /\ service = "rebalancing" /\ Rebalancing!Next
  /\ UNCHANGED <<service, fundsVars, onboardingVars>>

OnboardingStep ==
  /\ service = "onboarding" /\ Onboarding!Next
  /\ UNCHANGED <<service, fundsVars, rebalancingVars>>

Next == FundsStep \/ RebalancingStep \/ OnboardingStep

Spec == Init /\ [][Next]_vars

-----------------------------------------------------------------------------
(* The properties; the conjuncts are stated, and say what they mean, in the *)
(* modules of the services.                                                 *)

Types == Funds!TypeOK /\ Rebalancing!TypeOK /\ Onboarding!TypeOK

\* sprint3/obligations.ts, sprint5, sprint6: active reservations never exceed
\* what an obligation needs, the funding it shows never falls behind them, and
\* payments spend only what reservations have set aside.
FundsAddUp ==
  /\ Funds!NeverOverfunded
  /\ Funds!FundingNotUnderstated
  /\ Funds!PaidFromReservations

\* sprint7, sprint2/onboarding.ts: what moves is what was approved, whatever is
\* asked twice or at the wrong time: balances account for every executed
\* rebalance and its fee, once; movements whose recommendation required an
\* approval were seen by two users; accounts follow the provider's approvals.
MovesFollowApprovals ==
  /\ Types
  /\ Rebalancing!BalancesMatchRebalances
  /\ Rebalancing!RequiredApprovalsHaveTwoUsers
  /\ Onboarding!AccountsFollowApprovals

\* sprint7: a daily close that is ready hides no mismatch of the latest run.
ReadyCloseIsReviewed == Rebalancing!ReadyCloseIsReviewed
=============================================================================
