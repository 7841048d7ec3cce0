------------------------------ MODULE DomainFunds ------------------------------
(***************************************************************************)
(* The domain services' in-memory funds (src/sprint2/balances.ts,          *)
(* src/sprint3/obligations.ts, src/sprint5/settlement.ts,                  *)
(* src/sprint6/external-redemption.ts): one balance per account, projected *)
(* from the journal and then changed in place by reservations, deposits,   *)
(* payments and redemptions.  A call runs alone, but one that throws keeps *)
(* what it has done before: there is no transaction around these maps.     *)
(*                                                                         *)
(* Roles, tenants, audit and accounting evidence, wire instructions and    *)
(* recipients, and the buckets pending and locked (always 0) are left out. *)
(* A balance's version only tells a caller with an old balance apart; such *)
(* a call is refused.                                                      *)
(***************************************************************************)
EXTENDS Naturals, Sequences, FiniteSets, Sums

CONSTANTS
  Accounts,         \* accounts of digital asset
  Obligations,      \* trade payables
  Amounts,          \* amounts of obligations, reservations, payments
  Events,           \* event ids of deposit webhooks
  DepositIds,       \* the provider's ids of deposits
  InternalKeys,     \* idempotency keys of payment instructions
  ExternalKeys,     \* idempotency keys of external payments
  RedemptionKeys,   \* idempotency keys of redemptions
  MaxOpening,       \* bound on what is posted to an account
  MaxReservations,  \* bound on the reservations
  MaxCredits,       \* bound on the deposits credited
  MaxOrders         \* bound on the events, payments and redemptions together

AmountsPositive == Amounts \subseteq Nat \ {0}
KeysFinite == IsFiniteSet(InternalKeys) /\ IsFiniteSet(ExternalKeys)
BoundsNat == {MaxOpening, MaxReservations, MaxCredits, MaxOrders} \subseteq Nat

VARIABLES
  opening,       \* what the journal says of an account
  balance,       \* BalanceProjectionService.balances
  obligation,    \* ObligationReservationService.obligations
  reservation,   \* .reservations, with their allocation, oldest first
  event,         \* webhook notifications
  deposit,       \* FundingDeposit by provider deposit id: the event it names
  credits,       \* number of deposits credited
  payment,       \* PaymentInstruction by idempotency key
  external,      \* ExternalPaymentExecution by idempotency key
  redemption,    \* RedemptionInstruction by idempotency key
  refused        \* history: reservations whose release threw half-way

records == <<obligation, reservation, refused>>
inbox == <<event, deposit, credits>>
orders == <<payment, external, redemption>>
vars == <<opening, balance, records, inbox, orders>>

None == [status |-> "none"]
Zero == [available |-> 0, reserved |-> 0, suspense |-> 0]

Init ==
  /\ opening = [a \in Accounts |-> 0]
  /\ balance = [a \in Accounts |-> Zero]
  /\ obligation = [o \in Obligations |-> None]
  /\ reservation = <<>>
  /\ event = [e \in Events |-> None]
  /\ deposit = [d \in DepositIds |-> "none"]
  /\ credits = 0
  /\ payment = [k \in InternalKeys |-> None]
  /\ external = [k \in ExternalKeys |-> None]
  /\ redemption = [k \in RedemptionKeys |-> None]
  /\ refused = {}

Known(map) == Cardinality({x \in DOMAIN map : map[x] # None})
Room == Known(event) + Known(payment) + Known(external) + Known(redemption) < MaxOrders

-----------------------------------------------------------------------------
(* Balances *)

\* postOpeningJournal, a line on 10020
Post(a, amount) ==
  /\ opening[a] + amount <= MaxOpening
  /\ opening' = [opening EXCEPT ![a] = @ + amount]
  /\ UNCHANGED <<balance, records, inbox, orders>>

\* projectBalancesForAccount: from the journal alone.
Project(a) ==
  /\ balance' = [balance EXCEPT ![a] = [Zero EXCEPT !.available = opening[a]]]
  /\ UNCHANGED <<opening, records, inbox, orders>>

-----------------------------------------------------------------------------
(* Obligations and reservations *)

CreateTradePayable(o, amount, disputed) ==
  /\ obligation[o] = None
  /\ disputed <= amount
  /\ obligation' = [obligation EXCEPT ![o] = [status |-> "draft", required |-> amount - disputed, funding |-> "unfunded"]]
  /\ UNCHANGED <<opening, balance, reservation, refused, inbox, orders>>

ApproveObligation(o) ==
  /\ obligation[o].status = "draft"
  /\ obligation' = [obligation EXCEPT ![o].status = "approved"]
  /\ UNCHANGED <<opening, balance, reservation, refused, inbox, orders>>

\* activeAllocatedAmount
Allocated(list, o) ==
  LET allocated == {n \in DOMAIN list : list[n].obligation = o /\ list[n].status = "active"}
  IN  Sum([n \in allocated |-> list[n].amount])

\* reservableAmount.  Mutant: the newest reservation is not counted.
ReservableBefore(o) ==
  LET older == IF reservation = <<>> THEN <<>> ELSE SubSeq(reservation, 1, Len(reservation) - 1)
      open == Allocated(older, o)
  IN  IF obligation[o].required > open THEN obligation[o].required - open ELSE 0
Reservable(o) ==
  LET open == Allocated(reservation, o)
  IN  IF obligation[o].required > open THEN obligation[o].required - open ELSE 0

\* deriveFundingStatus, given the reservations
Funding(list, o) ==
  LET funded == Allocated(list, o)
  IN  IF funded = 0 THEN "unfunded"
      ELSE IF funded >= obligation[o].required THEN "fully_funded" ELSE "partially_funded"

\* refreshFundingStatus.  Mutant: only a funding that is complete is shown.
RefreshedWhenFull(list, o) ==
  IF Funding(list, o) = "fully_funded"
  THEN [obligation EXCEPT ![o].funding = "fully_funded", ![o].status = "fully_funded"] ELSE obligation
Refreshed(list, o) ==
  [obligation EXCEPT ![o].funding = Funding(list, o),
     ![o].status = IF Funding(list, o) = "unfunded" THEN "approved" ELSE Funding(list, o)]

ActivateReservation(o, a, amount) ==
  LET list == Append(reservation, [obligation |-> o, account |-> a, amount |-> amount, status |-> "active"])
  IN  /\ Len(reservation) < MaxReservations
      /\ obligation[o].status \notin {"none", "draft"}
      /\ amount <= Reservable(o)
      /\ amount <= balance[a].available
      /\ reservation' = list
      /\ balance' = [balance EXCEPT ![a].available = @ - amount, ![a].reserved = @ + amount]
      /\ obligation' = Refreshed(list, o)
      /\ UNCHANGED <<opening, refused, inbox, orders>>

\* applyReservationBalanceUpdate(..., "release").
\* Mutant: reserved is left as it is.
GivenBackTwice(a, amount) == [balance EXCEPT ![a].available = @ + amount]
GivenBack(a, amount) == [balance EXCEPT ![a].available = @ + amount, ![a].reserved = @ - amount]

\* releaseReservation, expireReservation and cancelReservation of an active
\* reservation: its status is written first; when the balance has less reserved
\* the update throws and nothing else is done.  (A cancelled one is released
\* on the way, and stays released then.)
EndReservation(n, status) ==
  LET r == reservation[n]
      list == [reservation EXCEPT ![n].status = status]
  IN  /\ r.status = "active"
      /\ IF r.amount <= balance[r.account].reserved
         THEN /\ reservation' = list
              /\ balance' = GivenBack(r.account, r.amount)
              /\ obligation' = Refreshed(list, r.obligation)
              /\ UNCHANGED refused
         ELSE /\ reservation' = [reservation EXCEPT ![n].status = IF status = "cancelled" THEN "released" ELSE status]
              /\ refused' = refused \cup {n}
              /\ UNCHANGED <<balance, obligation>>
      /\ UNCHANGED <<opening, inbox, orders>>

-----------------------------------------------------------------------------
(* Deposits *)

ReceiveWebhook(e, a, d, valid) ==
  /\ event[e] = None /\ Room
  /\ event' = [event EXCEPT ![e] = [status |-> IF valid THEN "queued" ELSE "dead_letter",
                                    valid |-> valid, account |-> a, deposit |-> d]]
  /\ UNCHANGED <<opening, balance, records, deposit, credits, orders>>

\* processDepositWebhook of an event that is not processed, dead-lettered or
\* not; the deposit replaces one of the same provider id.
ProcessDepositWebhook(e, amount) ==
  /\ event[e] # None
  /\ event[e].valid /\ event[e].status # "processed"
  /\ credits < MaxCredits
  /\ deposit' = [deposit EXCEPT ![event[e].deposit] = e]
  /\ balance' = [balance EXCEPT ![event[e].account].available = @ + amount]
  /\ event' = [event EXCEPT ![e].status = "processed"]
  /\ credits' = credits + 1
  /\ UNCHANGED <<opening, records, orders>>

RecordDeadLetter(e) ==
  /\ event[e] # None
  /\ event' = [event EXCEPT ![e].status = "dead_letter"]
  /\ UNCHANGED <<opening, balance, records, deposit, credits, orders>>

-----------------------------------------------------------------------------
(* Payments and redemptions *)

CreatePaymentInstruction(k, a, b, amount) ==
  /\ payment[k] = None /\ Room
  /\ payment' = [payment EXCEPT ![k] = [status |-> "created", source |-> a, destination |-> b, amount |-> amount]]
  /\ UNCHANGED <<opening, balance, records, inbox, external, redemption>>

\* The destination's update fails on its version when it is the source, and
\* the payment is not settled; the source has paid.
ExecuteInternalSettlement(k) ==
  LET p == payment[k]
  IN  /\ p.status = "created"
      /\ p.amount <= balance[p.source].reserved
      /\ IF p.source = p.destination
         THEN /\ balance' = [balance EXCEPT ![p.source].reserved = @ - p.amount]
              /\ UNCHANGED payment
         ELSE /\ balance' = [balance EXCEPT ![p.source].reserved = @ - p.amount,
                                            ![p.destination].available = @ + p.amount]
              /\ payment' = [payment EXCEPT ![k].status = "settled"]
      /\ UNCHANGED <<opening, records, inbox, external, redemption>>

\* A failed payment gives the amount back, not the fee, and opens a reversal.
SubmitExternalPayment(k, a, amount, fee, fails) ==
  /\ external[k] = None /\ Room
  /\ amount + fee <= balance[a].reserved
  /\ external' = [external EXCEPT ![k] =
       [status |-> IF fails THEN "failed" ELSE "complete", source |-> a, amount |-> amount, fee |-> fee, reversal |-> fails]]
  /\ balance' = [balance EXCEPT ![a].reserved = @ - (amount + fee),
                                ![a].available = @ + (IF fails THEN amount ELSE 0)]
  /\ UNCHANGED <<opening, records, inbox, payment, redemption>>

TimeoutExternalPayment(k) ==
  /\ external[k] # None
  /\ external' = [external EXCEPT ![k].status = "timeout"]
  /\ UNCHANGED <<opening, balance, records, inbox, payment, redemption>>

SubmitRedemption(k, a, amount, unknown) ==
  /\ redemption[k] = None /\ Room
  /\ amount <= balance[a].available
  /\ redemption' = [redemption EXCEPT ![k] =
       [status |-> IF unknown THEN "unknown_suspense" ELSE "complete", source |-> a, amount |-> amount]]
  /\ balance' = [balance EXCEPT ![a].available = @ - amount, ![a].suspense = @ + (IF unknown THEN amount ELSE 0)]
  /\ UNCHANGED <<opening, records, inbox, payment, external>>

ManualStatusRefresh(k, status) ==
  /\ redemption[k] # None
  /\ redemption' = [redemption EXCEPT ![k].status = status]
  /\ UNCHANGED <<opening, balance, records, inbox, payment, external>>

Next ==
  \/ \E a \in Accounts : Project(a) \/ \E amount \in Amounts : Post(a, amount)
  \/ \E o \in Obligations :
       \/ \E amount \in Amounts, disputed \in {0, 1} : CreateTradePayable(o, amount, disputed)
       \/ ApproveObligation(o)
       \/ \E a \in Accounts, amount \in Amounts : ActivateReservation(o, a, amount)
  \/ \E n \in DOMAIN reservation, status \in {"released", "expired", "cancelled"} : EndReservation(n, status)
  \/ \E e \in Events :
       \/ \E a \in Accounts, d \in DepositIds, valid \in BOOLEAN : ReceiveWebhook(e, a, d, valid)
       \/ \E amount \in Amounts : ProcessDepositWebhook(e, amount)
       \/ RecordDeadLetter(e)
  \/ \E k \in InternalKeys :
       \/ \E a, b \in Accounts, amount \in Amounts : CreatePaymentInstruction(k, a, b, amount)
       \/ ExecuteInternalSettlement(k)
  \/ \E k \in ExternalKeys :
       \/ \E a \in Accounts, amount \in Amounts, fee \in {0, 1}, fails \in BOOLEAN :
            SubmitExternalPayment(k, a, amount, fee, fails)
       \/ TimeoutExternalPayment(k)
  \/ \E k \in RedemptionKeys :
       \/ \E a \in Accounts, amount \in Amounts, unknown \in BOOLEAN : SubmitRedemption(k, a, amount, unknown)
       \/ \E status \in {"complete", "failed"} : ManualStatusRefresh(k, status)

Spec == Init /\ [][Next]_vars

-----------------------------------------------------------------------------
(* Properties *)

FundingStatuses == <<"unfunded", "partially_funded", "fully_funded">>

TypeOK ==
  /\ opening \in [Accounts -> 0 .. MaxOpening]
  /\ \A a \in Accounts : balance[a] \in [available : Nat, reserved : Nat, suspense : Nat]
  /\ \A o \in Obligations : obligation[o] # None =>
       obligation[o].status \in {"draft", "approved", "partially_funded", "fully_funded"}
       /\ obligation[o].funding \in {FundingStatuses[n] : n \in 1 .. 3}
  /\ Len(reservation) <= MaxReservations
  /\ credits \in 0 .. MaxCredits
  /\ refused \subseteq DOMAIN reservation

\* However reservations are activated, given back and refused half-way, an
\* obligation's active reservations never add up to more than it needs.
NeverOverfunded ==
  \A o \in Obligations : obligation[o] # None => Allocated(reservation, o) <= obligation[o].required

\* The funding an obligation shows never falls behind its reservations, and it
\* is what they add up to until giving one of them back has thrown half-way.
FundingNotUnderstated ==
  LET Rank(status) == CHOOSE n \in 1 .. 3 : FundingStatuses[n] = status
  IN  \A o \in Obligations : obligation[o] # None =>
        /\ Rank(Funding(reservation, o)) <= Rank(obligation[o].funding)
        /\ (\A n \in refused : reservation[n].obligation # o) => obligation[o].funding = Funding(reservation, o)

\* An account's payments do not spend more than was reserved on it: what it
\* still has reserved and all it has paid are covered by reservations that were
\* not given back.  Reprojecting, a payment to itself and refused releases may
\* lose reserved funds, and none of them creates any.
PaidFromReservations ==
  \A a \in Accounts :
    LET held == {n \in DOMAIN reservation : reservation[n].account = a /\ (reservation[n].status = "active" \/ n \in refused)}
        settled == {k \in InternalKeys : payment[k].status = "settled" /\ payment[k].source = a}
        sent == {k \in ExternalKeys : external[k] # None /\ external[k].source = a}
    IN  balance[a].reserved + Sum([k \in settled |-> payment[k].amount])
          + Sum([k \in sent |-> external[k].amount + external[k].fee])
        <= Sum([n \in held |-> reservation[n].amount])
=============================================================================
