------------------------- MODULE FundingReservations -------------------------
(***************************************************************************)
(* Settlement obligations, the reservations that hold funds for them and   *)
(* the balance rows the funds are held in: the durable command handlers    *)
(* createSettlementObligation, createFundingReservation,                   *)
(* transitionFundingReservation and transitionSettlementObligation of      *)
(* apps/api/src/db/postgres-route-handler.ts.  One action is one committed *)
(* transaction; ReservationTransactions models the row locks that make a   *)
(* transaction atomic and refines this module.                             *)
(*                                                                         *)
(* A variable is a column, a function from row ids to values.  A row that  *)
(* has not been inserted has status "absent".  Commands that answer with   *)
(* an error, or with 200 and nothing written (an idempotent repeat), leave *)
(* every row alone and are stuttering steps.                               *)
(***************************************************************************)
EXTENDS Integers, FiniteSets

CONSTANTS
  Obligations,    \* ids of settlement_obligations rows
  Reservations,   \* ids of funding_reservations rows
  Accounts,       \* accounts of digital asset with a balance row
  MaxUnits,       \* bound: no account is ever credited more than this
  None            \* a column of a row that does not exist

ASSUME ReservationsFinite == IsFiniteSet(Reservations)
ASSUME MaxUnitsNat == MaxUnits \in Nat

VARIABLES
  obligationStatus, principal, fulfilled,               \* settlement_obligations
  reservationStatus, forObligation, onAccount, amount, consumed,
                                                        \* funding_reservations
  available, reserved,                  \* account_of_digital_asset_balances
  credited       \* history: everything the funding workflow posted as available

obligationVars  == <<obligationStatus, principal, fulfilled>>
reservationVars == <<reservationStatus, forObligation, onAccount, amount, consumed>>
balanceVars     == <<available, reserved, credited>>
vars == <<obligationVars, reservationVars, balanceVars>>

Units   == 0 .. MaxUnits
Amounts == 1 .. MaxUnits

\* isTerminalObligationStatus; no handler writes "failed" or "expired".
TerminalObligation == {"fulfilled", "cancelled"}
\* isTerminalReservationStatus
TerminalReservation == {"released", "expired", "cancelled", "consumed"}
ObligationStatus  == {"absent", "draft", "reserved", "partially_fulfilled"} \cup TerminalObligation
ReservationStatus == {"absent", "active"} \cup TerminalReservation

-----------------------------------------------------------------------------

Init ==
  /\ obligationStatus = [o \in Obligations |-> "absent"]
  /\ principal = [o \in Obligations |-> 0]
  /\ fulfilled = [o \in Obligations |-> 0]
  /\ reservationStatus = [r \in Reservations |-> "absent"]
  /\ forObligation = [r \in Reservations |-> None]
  /\ onAccount = [r \in Reservations |-> None]
  /\ amount = [r \in Reservations |-> 0]
  /\ consumed = [r \in Reservations |-> 0]
  /\ available = [a \in Accounts |-> 0]
  /\ reserved = [a \in Accounts |-> 0]
  /\ credited = [a \in Accounts |-> 0]

\* Changed forms, each preceding the definition it is a plausible bug of, are
\* marked "mutant"; no specification uses them.

ReleasableIgnoringConsumed(r) == amount[r]    \* mutant of Releasable

\* What a reservation still holds.
Releasable(r) == IF amount[r] > consumed[r] THEN amount[r] - consumed[r] ELSE 0

DrainForgotten(held, n) == held    \* mutant of Drain

\* reserved >= n ? reserved - n : 0
Drain(held, n) == IF held >= n THEN held - n ELSE 0

IsActiveOrReleased(r) == reservationStatus[r] \in {"active", "released"}    \* mutant
IsActive(r) == reservationStatus[r] = "active"

CoversFromTotal(a, n) == n <= available[a] + reserved[a]    \* mutant of Covers
Covers(a, n) == n <= available[a]

\* A confirmed webhook makes funds available; ClientExchange and TreasuryMint
\* model when.
CreditAvailable(a, n) ==
  /\ credited[a] + n \in Units
  /\ credited' = [credited EXCEPT ![a] = @ + n]
  /\ available' = [available EXCEPT ![a] = @ + n]
  /\ UNCHANGED <<obligationVars, reservationVars, reserved>>

CreateObligation(o, p, initial) ==
  /\ obligationStatus[o] = "absent"
  /\ obligationStatus' = [obligationStatus EXCEPT ![o] = initial]
  /\ principal' = [principal EXCEPT ![o] = p]
  /\ UNCHANGED <<fulfilled, reservationVars, balanceVars>>

\* createFundingReservation.  The amount is checked against the balance and
\* never against the principal of the obligation.
CreateReservation(r, o, a, n) ==
  /\ reservationStatus[r] = "absent"
  /\ obligationStatus[o] \notin TerminalObligation \cup {"absent"}
  /\ Covers(a, n)
  /\ reservationStatus' = [reservationStatus EXCEPT ![r] = "active"]
  /\ forObligation' = [forObligation EXCEPT ![r] = o]
  /\ onAccount' = [onAccount EXCEPT ![r] = a]
  /\ amount' = [amount EXCEPT ![r] = n]
  /\ available' = [available EXCEPT ![a] = @ - n]
  /\ reserved' = [reserved EXCEPT ![a] = @ + n]
  /\ obligationStatus' = [obligationStatus EXCEPT ![o] = IF @ = "draft" THEN "reserved" ELSE @]
  /\ UNCHANGED <<principal, fulfilled, consumed, credited>>

\* The consume branch of transitionFundingReservation, reached from the
\* reservation's own endpoint and from the fulfilment of an obligation.
ConsumeRows(r, n) ==
  /\ IsActive(r)
  /\ n <= Releasable(r)
  /\ reserved' = [reserved EXCEPT ![onAccount[r]] = Drain(@, n)]
  /\ consumed' = [consumed EXCEPT ![r] = @ + n]
  /\ reservationStatus' = [reservationStatus EXCEPT ![r] =
                             IF consumed[r] + n >= amount[r] THEN "consumed" ELSE "active"]
  /\ UNCHANGED <<forObligation, onAccount, amount, available, credited>>

ConsumeReservation(r, n) == ConsumeRows(r, n) /\ UNCHANGED obligationVars

\* The release, expire and cancel branches.  The activate branch only answers:
\* a reservation is inserted active and every other status is terminal.
EndReservation(r, next) ==
  /\ IsActive(r)
  /\ available' = [available EXCEPT ![onAccount[r]] = @ + Releasable(r)]
  /\ reserved' = [reserved EXCEPT ![onAccount[r]] = Drain(@, Releasable(r))]
  /\ reservationStatus' = [reservationStatus EXCEPT ![r] = next]
  /\ UNCHANGED <<obligationVars, forObligation, onAccount, amount, consumed, credited>>

ActiveForNothing(o) == {}    \* mutant of ActiveFor

ActiveFor(o) == {r \in Reservations : IsActive(r) /\ forObligation[r] = o}

CancelObligation(o) ==
  /\ obligationStatus[o] \notin TerminalObligation \cup {"absent"}
  /\ ActiveFor(o) = {}
  /\ obligationStatus' = [obligationStatus EXCEPT ![o] = "cancelled"]
  /\ UNCHANGED <<principal, fulfilled, reservationVars, balanceVars>>

RemainingIgnoringFulfilled(o) == principal[o]    \* mutant of Remaining
Remaining(o) == principal[o] - fulfilled[o]

\* The rest of the fulfil branch, after the reservation has been dealt with.
FulfilRows(o, n) ==
  /\ obligationStatus[o] \notin {"cancelled", "absent"}
  /\ n <= Remaining(o)
  /\ fulfilled' = [fulfilled EXCEPT ![o] = @ + n]
  /\ obligationStatus' = [obligationStatus EXCEPT ![o] =
                            IF fulfilled[o] + n >= principal[o] THEN "fulfilled"
                                                                ELSE "partially_fulfilled"]
  /\ UNCHANGED principal

FulfilObligation(o, n) == FulfilRows(o, n) /\ UNCHANGED <<reservationVars, balanceVars>>

\* Fulfilment naming a reservation (of this obligation or of any other).  The
\* consume answers 200 without consuming when the reservation is already
\* consumed, and the fulfilment goes on.
FulfilFrom(o, r, n) ==
  /\ FulfilRows(o, n)
  /\ \/ ConsumeRows(r, n)
     \/ reservationStatus[r] = "consumed" /\ UNCHANGED <<reservationVars, balanceVars>>

OtherCommand ==
  \/ \E a \in Accounts, n \in Amounts : CreditAvailable(a, n)
  \/ \E o \in Obligations, p \in Amounts, s \in {"draft", "reserved"} : CreateObligation(o, p, s)
  \/ \E r \in Reservations, o \in Obligations, a \in Accounts, n \in Amounts :
       CreateReservation(r, o, a, n)
  \/ \E r \in Reservations, n \in Amounts : ConsumeReservation(r, n)
  \/ \E r \in Reservations, s \in {"released", "expired", "cancelled"} : EndReservation(r, s)
  \/ \E o \in Obligations : CancelObligation(o)
  \/ \E o \in Obligations, n \in Amounts : FulfilObligation(o, n)

Next ==
  \/ OtherCommand
  \/ \E o \in Obligations, r \in Reservations, n \in Amounts : FulfilFrom(o, r, n)

Spec == Init /\ [][Next]_vars

-----------------------------------------------------------------------------
(* Properties *)

TypeOK ==
  /\ obligationStatus \in [Obligations -> ObligationStatus]
  /\ principal \in [Obligations -> Units]
  /\ fulfilled \in [Obligations -> Units]
  /\ reservationStatus \in [Reservations -> ReservationStatus]
  /\ forObligation \in [Reservations -> Obligations \cup {None}]
  /\ onAccount \in [Reservations -> Accounts \cup {None}]
  /\ amount \in [Reservations -> Units]
  /\ consumed \in [Reservations -> Units]
  /\ available \in [Accounts -> Units]
  /\ reserved \in [Accounts -> Units]
  /\ credited \in [Accounts -> Units]

\* The minor units active reservations hold on an account and the ones its
\* reservations have spent: <<r, k>> is the k-th unit of reservation r.  The sum
\* of amount - consumed, and of consumed, is the cardinality of these sets.
HeldUnits(a) ==
  {u \in Reservations \X Amounts :
     /\ reservationStatus[u[1]] = "active"
     /\ onAccount[u[1]] = a
     /\ consumed[u[1]] < u[2]
     /\ u[2] <= amount[u[1]]}
SpentUnits(a) ==
  {u \in Reservations \X Amounts : onAccount[u[1]] = a /\ u[2] <= consumed[u[1]]}

\* The reserved column of an account is what its active reservations still
\* hold: the clamp in the consume and release branches never hides a shortfall
\* and no reservation ends with its funds left behind in the column.
ReservedIsHeld == \A a \in Accounts : reserved[a] = Cardinality(HeldUnits(a))

\* Whatever sequence of reserve, consume, release, expire, cancel and fulfil
\* commands runs, a unit posted as available is available, held or spent, once.
NothingCreatedOrLost ==
  \A a \in Accounts :
    available[a] + Cardinality(HeldUnits(a)) + Cardinality(SpentUnits(a)) = credited[a]

\* A cancelled obligation has no reservation left holding funds: cancelling
\* refuses while one is active and nothing reserves for it afterwards.
CancelledHoldsNothing ==
  \A o \in Obligations, r \in Reservations :
    obligationStatus[o] = "cancelled" /\ forObligation[r] = o => reservationStatus[r] # "active"

\* The status of an obligation and its amounts agree: it is fulfilled exactly
\* when the whole principal is, partly fulfilled exactly when some of it is and
\* it has not been cancelled since (the check constraint
\* settlement_obligations_fulfilled_range is never what stops a command).
StatusMatchesFulfilment ==
  \A o \in Obligations :
    /\ fulfilled[o] <= principal[o]
    /\ obligationStatus[o] = "fulfilled" <=> fulfilled[o] = principal[o] /\ principal[o] > 0
    /\ obligationStatus[o] \in {"draft", "reserved"} => fulfilled[o] = 0

\* A reservation row that reached a terminal status, and an obligation that was
\* fulfilled or cancelled, never changes again.
TerminalRowsAreFinal ==
  [][/\ \A r \in Reservations : reservationStatus[r] \in TerminalReservation =>
          reservationStatus'[r] = reservationStatus[r] /\ consumed'[r] = consumed[r]
     /\ \A o \in Obligations : obligationStatus[o] \in TerminalObligation =>
          obligationStatus'[o] = obligationStatus[o] /\ fulfilled'[o] = fulfilled[o]]_vars

\* The promise the balance columns keep (module Escrow).
EscrowOfAccounts == INSTANCE Escrow WITH
  free <- available, held <- reserved, funded <- credited,
  spent <- [a \in Accounts |-> Cardinality(SpentUnits(a))]
ImplementsEscrow == EscrowOfAccounts!Spec
=============================================================================
