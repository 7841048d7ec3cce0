--------------------------- MODULE DomainRebalancing ---------------------------
(***************************************************************************)
(* Rebalancing and reconciliation of the domain services                   *)
(* (src/sprint4/positions.ts, src/sprint7/liquidity-reconciliation.ts):    *)
(* an instruction is recommended on positions computed at that moment,     *)
(* perhaps approved, and executed later on whatever the balances are then; *)
(* reconciliation compares the balances with what Circle reported last,    *)
(* and the daily close is ready when nobody has a break to resolve.        *)
(*                                                                         *)
(* All other services change balances between the calls; Elsewhere stands  *)
(* for them.  Roles, alerts, forecasts and the reports that change nothing *)
(* are left out; a snapshot of a position is its deployable amount, and a  *)
(* snapshot computed for a recommendation is fresh.                        *)
(***************************************************************************)
EXTENDS Integers, Sequences, FiniteSets, Sums

CONSTANTS
  Holders,          \* accounts of digital asset
  Users,            \* treasury operators
  Targets,          \* target balances asked for
  Buffers,          \* minimum balances of a policy
  Fees,             \* estimated fees, an input of every recommendation
  Thresholds,       \* approval thresholds, an input of every recommendation
  Reports,          \* balances Circle reports
  MaxBalance,       \* bound on the available balance other services leave
  MaxReserved,      \* bound on the reserved balance they leave
  MaxMovements,     \* bound on their calls
  MaxInstructions,  \* bound on the recommendations
  MaxRuns,          \* bound on the reconciliation runs
  MaxBreaks         \* bound on the reconciliation breaks

RebalancingAssumption ==
  /\ IsFiniteSet(Holders)
  /\ {MaxBalance, MaxReserved, MaxMovements, MaxInstructions, MaxRuns, MaxBreaks} \subseteq Nat
  /\ Targets \subseteq Nat /\ Buffers \subseteq Nat /\ Reports \subseteq Nat
  /\ Fees \subseteq Nat /\ Thresholds \subseteq Nat

VARIABLES
  funds,        \* balances: available and reserved
  buffer,       \* minimumBalanceMinorUnits of the account's policy, or 0
  instruction,  \* rebalancingInstructions, oldest first
  broken,       \* instructions one of whose two positions was marked broken
  reported,     \* the latest Circle balance snapshot of an account, or NotReported
  runs,         \* number of reconciliationRuns
  break,        \* reconciliationBreaks, oldest first
  moved,        \* history: accounts whose balance or report was set since the latest run
  outside,      \* history: what other services brought in, less what they took
  movements     \* number of their calls

NotReported == -1

ledger == <<funds, outside, movements>>
reconciliation == <<runs, break>>
vars == <<ledger, buffer, instruction, broken, reported, reconciliation, moved>>

Init ==
  /\ funds = [a \in Holders |-> [available |-> 0, reserved |-> 0]]
  /\ buffer = [a \in Holders |-> 0]
  /\ instruction = <<>>
  /\ broken = {}
  /\ reported = [a \in Holders |-> NotReported]
  /\ runs = 0
  /\ break = <<>>
  /\ moved = Holders
  /\ outside = [a \in Holders |-> 0]
  /\ movements = 0

Total(a) == funds[a].available + funds[a].reserved

\* Deposits, reservations, payments and reprojections of the other services.
Elsewhere(a, available, reserved) ==
  /\ movements < MaxMovements /\ movements' = movements + 1
  /\ funds' = [funds EXCEPT ![a] = [available |-> available, reserved |-> reserved]]
  /\ outside' = [outside EXCEPT ![a] = @ + available + reserved - Total(a)]
  /\ moved' = moved \cup {a}
  /\ UNCHANGED <<buffer, instruction, broken, reported, reconciliation>>

-----------------------------------------------------------------------------
(* Positions and rebalancing *)

SetPolicy(a, minimum) ==
  /\ buffer' = [buffer EXCEPT ![a] = minimum]
  /\ UNCHANGED <<ledger, instruction, broken, reported, reconciliation, moved>>

\* calculateAccountPosition: the deployable amount
Deployable(a) ==
  LET spare == funds[a].available - funds[a].reserved - buffer[a]
  IN  IF spare > 0 THEN spare ELSE 0

Eligible(permitted, destination, shortfall, fee) ==
  {a \in permitted \ {destination} : Deployable(a) >= shortfall + fee}

RecommendForShortfall(user, destination, target, permitted, threshold, fee) ==
  LET shortfall == target - funds[destination].available
      eligible == Eligible(permitted, destination, shortfall, fee)
  IN  /\ Len(instruction) < MaxInstructions
      /\ shortfall > 0
      /\ \E source \in eligible :
           /\ \A a \in eligible : Deployable(a) <= Deployable(source)
           /\ instruction' = Append(instruction,
                [source |-> source, destination |-> destination, amount |-> shortfall, fee |-> fee,
                 createdBy |-> user, approvedBy |-> "none", approvalRequired |-> shortfall > threshold,
                 status |-> IF shortfall > threshold THEN "pending_approval" ELSE "approved"])
      /\ UNCHANGED <<ledger, buffer, broken, reported, reconciliation, moved>>

\* Mutant: the maker may approve.
AnyChecker(user, n) == TRUE
Checker(user, n) == instruction[n].createdBy # user

ApproveRebalance(user, n) ==
  /\ instruction[n].status = "pending_approval"
  /\ Checker(user, n)
  /\ instruction' = [instruction EXCEPT ![n].approvedBy = user, ![n].status = "approved"]
  /\ UNCHANGED <<ledger, buffer, broken, reported, reconciliation, moved>>

\* Is the source's balance sufficient?  Mutant: the recommendation has seen to it.
CoveredThen(n) == TRUE
Covered(n) == funds[instruction[n].source].available >= instruction[n].amount + instruction[n].fee

\* The instruction after its execution.  Mutant: it can be executed again.
StillApproved(i) == i
Executed(i) == [i EXCEPT !.status = "executed"]

ExecuteRebalance(n) ==
  LET i == instruction[n]
  IN  /\ i.status = "approved"
      /\ n \notin broken
      /\ Covered(n)
      /\ funds' = [funds EXCEPT ![i.source].available = @ - (i.amount + i.fee),
                                ![i.destination].available = @ + i.amount]
      /\ instruction' = [instruction EXCEPT ![n] = Executed(i)]
      /\ moved' = moved \cup {i.source, i.destination}
      /\ UNCHANGED <<outside, movements, buffer, broken, reported, reconciliation>>

MarkPositionSnapshotBroken(n) ==
  /\ broken' = broken \cup {n}
  /\ UNCHANGED <<ledger, buffer, instruction, reported, reconciliation, moved>>

-----------------------------------------------------------------------------
(* Reconciliation *)

CaptureCircleBalanceSnapshot(a, amount) ==
  /\ reported' = [reported EXCEPT ![a] = amount]
  /\ moved' = moved \cup {a}
  /\ UNCHANGED <<ledger, buffer, instruction, broken, reconciliation>>

Delta(a) == Total(a) - reported[a]
Mismatched == {a \in Holders : reported[a] # NotReported /\ Delta(a) # 0}

\* The accounts a run reports, whether they have breaks or not.  Mutant: an
\* account that has one is known already.
ReportedOnce == {a \in Mismatched : \A n \in DOMAIN break : break[n].account # a}
ToReport == Mismatched

RunDailyReconciliation ==
  /\ runs < MaxRuns /\ runs' = runs + 1
  /\ Len(break) + Cardinality(ToReport) <= MaxBreaks
  /\ \E order \in [1 .. Cardinality(ToReport) -> ToReport] :
       /\ \A a \in ToReport : \E n \in DOMAIN order : order[n] = a
       /\ break' = break \o [n \in DOMAIN order |->
            [run |-> runs + 1, account |-> order[n], delta |-> Delta(order[n]), status |-> "open"]]
  /\ moved' = {}
  /\ UNCHANGED <<ledger, buffer, instruction, broken, reported>>

\* assignBreak and resolveBreak
TreatBreak(n, status) ==
  /\ break[n].status # "resolved"
  /\ break' = [break EXCEPT ![n].status = status]
  /\ UNCHANGED <<ledger, buffer, instruction, broken, reported, runs, moved>>

\* generateDailyClose, which changes nothing: is the close ready?  Its trial
\* balance is always balanced.  Mutant: breaks that are assigned do not count.
NoneOpen == \A n \in DOMAIN break : break[n].status # "open"
DailyCloseReady == \A n \in DOMAIN break : break[n].status = "resolved"

Next ==
  \/ \E a \in Holders :
       \/ \E available \in 0 .. MaxBalance, reserved \in 0 .. MaxReserved : Elsewhere(a, available, reserved)
       \/ \E minimum \in Buffers : SetPolicy(a, minimum)
       \/ \E amount \in Reports : CaptureCircleBalanceSnapshot(a, amount)
       \/ \E user \in Users, target \in Targets, permitted \in SUBSET Holders, threshold \in Thresholds, fee \in Fees :
            RecommendForShortfall(user, a, target, permitted, threshold, fee)
  \/ \E n \in DOMAIN instruction :
       \/ \E user \in Users : ApproveRebalance(user, n)
       \/ ExecuteRebalance(n)
       \/ MarkPositionSnapshotBroken(n)
  \/ RunDailyReconciliation
  \/ \E n \in DOMAIN break, status \in {"assigned", "resolved"} : TreatBreak(n, status)

Spec == Init /\ [][Next]_vars

-----------------------------------------------------------------------------
(* Properties *)

\* Types.  That balances are natural numbers says that rebalances recommended
\* on one position, or on one that other services have used up since, never
\* overdraw an account.
TypeOK ==
  /\ funds \in [Holders -> [available : Nat, reserved : Nat]]
  /\ buffer \in [Holders -> Nat]
  /\ Len(instruction) <= MaxInstructions
  /\ \A n \in DOMAIN instruction :
       /\ instruction[n].status \in {"pending_approval", "approved", "executed"}
       /\ {instruction[n].source, instruction[n].destination} \subseteq Holders
  /\ broken \subseteq DOMAIN instruction
  /\ reported \in [Holders -> {NotReported} \cup Nat]
  /\ runs <= MaxRuns /\ Len(break) <= MaxBreaks
  /\ moved \subseteq Holders

\* An account holds what the other services left there and what executed
\* instructions moved, each once: repeated and overlapping executions neither
\* lose nor repeat a movement, and each costs the source its fee.
BalancesMatchRebalances ==
  \A a \in Holders :
    LET done == {n \in DOMAIN instruction : instruction[n].status = "executed"}
        received == {n \in done : instruction[n].destination = a}
        sent == {n \in done : instruction[n].source = a}
    IN  Total(a) + Sum([n \in sent |-> instruction[n].amount + instruction[n].fee])
          = outside[a] + Sum([n \in received |-> instruction[n].amount])

\* A movement whose recommendation required an approval was seen by two users,
\* however recommendations, approvals and executions mix.  Whether it is required
\* is for the recommendation to say, with the threshold it is given.
RequiredApprovalsHaveTwoUsers ==
  \A n \in DOMAIN instruction :
    instruction[n].status = "executed" /\ instruction[n].approvalRequired
      => instruction[n].approvedBy \in Users \ {instruction[n].createdBy}

\* When the daily close is ready, somebody has resolved every mismatch that there
\* is: not a break of an earlier run for the same account but one of the latest
\* run, with the difference the account has now.  Only what was moved or reported
\* after that run may have a difference that nobody has seen.
ReadyCloseIsReviewed ==
  DailyCloseReady =>
    \A a \in Mismatched \ moved :
      \E n \in DOMAIN break :
        /\ break[n].run = runs /\ break[n].account = a /\ break[n].delta = Delta(a)
        /\ break[n].status = "resolved"
=============================================================================
