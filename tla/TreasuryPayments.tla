-------------------------- MODULE TreasuryPayments --------------------------
(***************************************************************************)
(* Payment instructions on the Postgres path: internal payments and the    *)
(* treasury instructions that are routed and executed, the route profiles  *)
(* and bindings the routing chooses from, and the reservation an execution *)
(* draws on (apps/api/src/db/postgres-route-handler.ts).  Everything else  *)
(* that happens to reservations and balances is module FundingReservations.*)
(*                                                                         *)
(* Every command locks the row of its instruction first, so one action is  *)
(* one transaction, apart from routing: it chooses from bindings and       *)
(* profiles it does not lock, and what it chose may be gone when it writes.*)
(* The statuses "executing" of an instruction and "pending" and            *)
(* "executing" of a settlement are overwritten before the transaction that *)
(* writes them commits; nothing writes "pending_execution".                *)
(***************************************************************************)
EXTENDS Integers, FiniteSets

CONSTANTS
  Obligations, Reservations, Accounts, MaxUnits,   \* of FundingReservations
  None,         \* a reference that is null
  Payments,     \* ids of payment_instructions rows
  Profiles,     \* ids of route_profiles rows
  Bindings      \* ids of route_bindings rows

ASSUME FundingConstants == IsFiniteSet(Reservations) /\ MaxUnits \in Nat

VARIABLES
  obligationStatus, principal, fulfilled,
  reservationStatus, forObligation, onAccount, amount, consumed,
  available, reserved, credited,              \* of FundingReservations
  status, payAmount, fundedBy,                \* payment_instructions
  routeNamed,      \* route_type is a code other than "unrouted"
  decision,        \* selected_profile_id of its routing_decisions row
  settlement,      \* status of its internal_ada_settlements row
  transfer,        \* status of its internal_transfer_executions row
  posted,          \* how many journal entries have the settlement as source event
  chosen,          \* the profile an open routing transaction has selected
  profileStatus,                              \* route_profiles
  bindingProfile, bindingActive,              \* route_bindings
  drawn,           \* history: minor units this instruction's executions consumed
  moved            \* history: a /payments/:id endpoint has written its status

Funding == INSTANCE FundingReservations

fundingVars == <<obligationStatus, principal, fulfilled, reservationStatus, forObligation,
                 onAccount, amount, consumed, available, reserved, credited>>
routeVars   == <<routeNamed, decision, chosen>>
settleVars  == <<settlement, posted, drawn>>
payVars     == <<status, payAmount, fundedBy, routeVars, settleVars, transfer, moved>>
catalogue   == <<profileStatus, bindingProfile, bindingActive>>
vars        == <<fundingVars, payVars, catalogue>>

Amounts == 1 .. MaxUnits

Status == {"absent", "created", "draft", "routed", "submitted", "complete",
           "settled", "failed", "cancelled"}

-----------------------------------------------------------------------------

Init ==
  /\ Funding!Init
  /\ status = [p \in Payments |-> "absent"]
  /\ payAmount = [p \in Payments |-> 0]
  /\ fundedBy = [p \in Payments |-> None]
  /\ routeNamed = [p \in Payments |-> FALSE]
  /\ decision = [p \in Payments |-> None]
  /\ settlement = [p \in Payments |-> "absent"]
  /\ transfer = [p \in Payments |-> "absent"]
  /\ posted = [p \in Payments |-> 0]
  /\ chosen = [p \in Payments |-> None]
  /\ profileStatus = [f \in Profiles |-> "absent"]
  /\ bindingProfile = [b \in Bindings |-> None]
  /\ bindingActive = [b \in Bindings |-> FALSE]
  /\ drawn = [p \in Payments |-> 0]
  /\ moved = [p \in Payments |-> FALSE]

ProfileExists(f) == profileStatus[f] \in {"active", "inactive"}

(* The catalogue.  Names, codes, weights, scopes and match expressions decide *)
(* which binding is a candidate for an instruction and in which order; here   *)
(* every active binding may be selected.  "draft" profiles select like        *)
(* "inactive" ones.                                                           *)

CreateProfile(f, s) ==
  /\ profileStatus[f] = "absent"
  /\ profileStatus' = [profileStatus EXCEPT ![f] = s]
  /\ UNCHANGED <<bindingProfile, bindingActive>>

PatchProfile(f, s) ==
  /\ ProfileExists(f)
  /\ profileStatus' = [profileStatus EXCEPT ![f] = s]
  /\ UNCHANGED <<bindingProfile, bindingActive>>

\* The handler counts the bindings; a decision that names the profile stops the
\* delete by its foreign key.
DeleteProfile(f) ==
  /\ ProfileExists(f)
  /\ \A b \in Bindings : bindingProfile[b] # f
  /\ \A p \in Payments : decision[p] # f
  /\ profileStatus' = [profileStatus EXCEPT ![f] = "deleted"]
  /\ UNCHANGED <<bindingProfile, bindingActive>>

CreateBinding(b, f, on) ==
  /\ bindingProfile[b] = None
  /\ ProfileExists(f)
  /\ bindingProfile' = [bindingProfile EXCEPT ![b] = f]
  /\ bindingActive' = [bindingActive EXCEPT ![b] = on]
  /\ UNCHANGED profileStatus

PatchBinding(b, f, on) ==
  /\ bindingProfile[b] # None
  /\ ProfileExists(f)
  /\ bindingProfile' = [bindingProfile EXCEPT ![b] = f]
  /\ bindingActive' = [bindingActive EXCEPT ![b] = on]
  /\ UNCHANGED profileStatus

DeleteBinding(b) ==
  /\ bindingProfile[b] # None
  /\ bindingProfile' = [bindingProfile EXCEPT ![b] = None]
  /\ bindingActive' = [bindingActive EXCEPT ![b] = FALSE]
  /\ UNCHANGED profileStatus

CatalogueCommand ==
  /\ \/ \E f \in Profiles, s \in {"active", "inactive"} : CreateProfile(f, s) \/ PatchProfile(f, s)
     \/ \E f \in Profiles : DeleteProfile(f)
     \/ \E b \in Bindings, f \in Profiles, on \in BOOLEAN :
          CreateBinding(b, f, on) \/ PatchBinding(b, f, on)
     \/ \E b \in Bindings : DeleteBinding(b)
  /\ UNCHANGED <<fundingVars, payVars>>

-----------------------------------------------------------------------------
(* Instructions *)

\* Changed forms, each preceding the definition it is a plausible bug of, are
\* marked "mutant"; no specification uses them.

NeverLocked(p) == TRUE    \* mutant of Unlocked

\* No routing transaction has the row of p.
Unlocked(p) == chosen[p] = None

\* The reservation has to exist; neither its status nor its account is compared
\* with the instruction.
InsertInstruction(p, s, n, r, named) ==
  /\ status[p] = "absent"
  /\ r # None => reservationStatus[r] # "absent"
  /\ status' = [status EXCEPT ![p] = s]
  /\ payAmount' = [payAmount EXCEPT ![p] = n]
  /\ fundedBy' = [fundedBy EXCEPT ![p] = r]
  /\ routeNamed' = [routeNamed EXCEPT ![p] = named]
  /\ UNCHANGED <<fundingVars, decision, chosen, settleVars, transfer, moved>>

\* A payment has the route type "internal"; a treasury instruction may name a
\* route code when it is created.
CreateInternalPayment(p, n, r) == InsertInstruction(p, "created", n, r, TRUE)
CreateInternalTreasuryPaymentInstruction(p, n, r, named) ==
  InsertInstruction(p, "draft", n, r, named)

TransferFollows(p, next) == next    \* mutant of TransferAfter

\* A cancellation leaves the transfer row as it is.
TransferAfter(p, next) == IF next = "cancelled" THEN transfer[p] ELSE next

\* submit and retry ("submitted"), refresh-status ("complete") and cancel of
\* transitionPayment, which finds every kind of instruction and never looks at
\* the status it replaces.
TransitionPayment(p, next) ==
  /\ Unlocked(p)
  /\ status[p] # "absent"
  /\ status' = [status EXCEPT ![p] = next]
  /\ transfer' = [transfer EXCEPT ![p] = TransferAfter(p, next)]
  /\ moved' = [moved EXCEPT ![p] = TRUE]
  /\ UNCHANGED <<fundingVars, payAmount, fundedBy, routeVars, settleVars>>

\* Routing locks the instruction and selects.  With forceReroute every status
\* but these two is routed again.
RouteSelect(p, b) ==
  /\ Unlocked(p)
  /\ status[p] \notin {"absent", "cancelled", "settled"}
  /\ bindingActive[b]
  /\ profileStatus[bindingProfile[b]] = "active"
  /\ chosen' = [chosen EXCEPT ![p] = bindingProfile[b]]
  /\ UNCHANGED <<fundingVars, status, payAmount, fundedBy, routeNamed, decision,
                 settleVars, transfer, moved>>

DecisionUnchecked(p) == TRUE    \* mutant of DecisionAccepted

\* routing_decisions.selected_profile_id is a foreign key.
DecisionAccepted(p) == ProfileExists(chosen[p])

\* It writes the one decision of the instruction and its route, and commits.
RouteWrite(p) ==
  /\ chosen[p] # None
  /\ DecisionAccepted(p)
  /\ decision' = [decision EXCEPT ![p] = chosen[p]]
  /\ routeNamed' = [routeNamed EXCEPT ![p] = TRUE]
  /\ status' = [status EXCEPT ![p] = "routed"]
  /\ chosen' = [chosen EXCEPT ![p] = None]
  /\ UNCHANGED <<fundingVars, payAmount, fundedBy, settleVars, transfer, moved>>

\* The foreign key refuses the decision, or the connection is lost.
RouteAbort(p) ==
  /\ chosen[p] # None
  /\ chosen' = [chosen EXCEPT ![p] = None]
  /\ UNCHANGED <<fundingVars, status, payAmount, fundedBy, routeNamed, decision,
                 settleVars, transfer, moved>>

\* mutant of Executable
ExecutableOnceRouted(p, retry) ==
  /\ Unlocked(p)
  /\ status[p] \notin {"absent", "cancelled"}
  /\ retry => settlement[p] \in {"absent", "failed"}
  /\ decision[p] # None \/ routeNamed[p]

\* Execution begins.  Only a first execution looks at the status: a retry is
\* stopped by a settlement that has not failed, and by a missing route.
Executable(p, retry) ==
  /\ Unlocked(p)
  /\ status[p] \notin {"absent", "cancelled", "settled"}
  /\ ~retry => status[p] \in {"routed", "failed"}
  /\ retry => settlement[p] \in {"absent", "failed"}
  /\ decision[p] # None \/ routeNamed[p]

\* mutant of Draw
DrawAvailable(p) ==
  /\ Funding!IsActive(fundedBy[p])
  /\ available[onAccount[fundedBy[p]]] >= payAmount[p]
  /\ available' = [available EXCEPT ![onAccount[fundedBy[p]]] = @ - payAmount[p]]
  /\ UNCHANGED <<obligationStatus, principal, fulfilled, reservationStatus, forObligation,
                 onAccount, amount, consumed, reserved, credited>>

\* The consume branch of transitionFundingReservation, called by the execution.
Draw(p) == Funding!ConsumeReservation(fundedBy[p], payAmount[p])

DrawRefused(r, n) ==
  /\ reservationStatus[r] # "consumed"
  /\ ~(Funding!IsActive(r) /\ n <= Funding!Releasable(r))

\* The reservation pays, or nothing does: there is none, or it was consumed
\* before, which the consume branch answers with 200.
DrawOnReservation(p) ==
  \/ /\ fundedBy[p] # None
     /\ Draw(p)
     /\ drawn' = [drawn EXCEPT ![p] = @ + payAmount[p]]
  \/ /\ fundedBy[p] # None => reservationStatus[fundedBy[p]] = "consumed"
     /\ UNCHANGED <<fundingVars, drawn>>

AnyJournal(p) == TRUE    \* mutant of SourceEventFree

\* treasury_journal_entries.source_event_id is unique and the settlement of an
\* instruction is always the same row.  A second entry fails, the rest of the
\* transaction fails with it, and all of it is rolled back.
SourceEventFree(p) == posted[p] = 0

PostJournal(p, supplied) ==
  IF supplied THEN UNCHANGED posted    \* the request brings a journalEntryId
  ELSE SourceEventFree(p) /\ posted' = [posted EXCEPT ![p] = @ + 1]

ExecuteSettles(p, retry, supplied) ==
  /\ Executable(p, retry)
  /\ DrawOnReservation(p)
  /\ PostJournal(p, supplied)
  /\ settlement' = [settlement EXCEPT ![p] = "settled"]
  /\ status' = [status EXCEPT ![p] = "settled"]
  /\ UNCHANGED <<payAmount, fundedBy, routeVars, transfer, moved>>

\* A refused draw is a failed settlement, committed with an error as the answer.
ExecuteFails(p, retry) ==
  /\ Executable(p, retry)
  /\ fundedBy[p] # None
  /\ DrawRefused(fundedBy[p], payAmount[p])
  /\ settlement' = [settlement EXCEPT ![p] = "failed"]
  /\ status' = [status EXCEPT ![p] = "failed"]
  /\ UNCHANGED <<fundingVars, payAmount, fundedBy, routeVars, posted, drawn, transfer, moved>>

SettlementKept(s) == s    \* mutant of CancelledSettlement

CancelledSettlement(s) == IF s \in {"absent", "settled"} THEN s ELSE "cancelled"

CancelInstruction(p) ==
  /\ Unlocked(p)
  /\ status[p] \notin {"absent", "settled", "cancelled"}
  /\ status' = [status EXCEPT ![p] = "cancelled"]
  /\ settlement' = [settlement EXCEPT ![p] = CancelledSettlement(@)]
  /\ UNCHANGED <<fundingVars, payAmount, fundedBy, routeVars, posted, drawn, transfer, moved>>

Routing(p) == (\E b \in Bindings : RouteSelect(p, b)) \/ RouteWrite(p) \/ RouteAbort(p)

PaymentCommand(p) ==
  \/ \E n \in Amounts, r \in Reservations \cup {None} :
       \/ CreateInternalPayment(p, n, r)
       \/ \E named \in BOOLEAN : CreateInternalTreasuryPaymentInstruction(p, n, r, named)
  \/ \E s \in {"submitted", "complete", "cancelled"} : TransitionPayment(p, s)
  \/ Routing(p)
  \/ \E retry, supplied \in BOOLEAN : ExecuteSettles(p, retry, supplied)
  \/ \E retry \in BOOLEAN : ExecuteFails(p, retry)
  \/ CancelInstruction(p)

Next ==
  \/ Funding!Next /\ UNCHANGED <<payVars, catalogue>>
  \/ (\E p \in Payments : PaymentCommand(p)) /\ UNCHANGED catalogue
  \/ CatalogueCommand

Spec == Init /\ [][Next]_vars

-----------------------------------------------------------------------------
(* Properties *)

TypeOK ==
  /\ status \in [Payments -> Status]
  /\ payAmount \in [Payments -> 0 .. MaxUnits]
  /\ fundedBy \in [Payments -> Reservations \cup {None}]
  /\ routeNamed \in [Payments -> BOOLEAN]
  /\ decision \in [Payments -> Profiles \cup {None}]
  /\ settlement \in [Payments -> {"absent", "settled", "failed", "cancelled"}]
  /\ transfer \in [Payments -> {"absent", "submitted", "complete"}]
  /\ posted \in [Payments -> Nat]
  /\ chosen \in [Payments -> Profiles \cup {None}]
  /\ profileStatus \in [Profiles -> {"absent", "active", "inactive", "deleted"}]
  /\ bindingProfile \in [Bindings -> Profiles \cup {None}]
  /\ bindingActive \in [Bindings -> BOOLEAN]
  /\ drawn \in [Payments -> Nat]
  /\ moved \in [Payments -> BOOLEAN]

\* The journal of an instruction is posted at most once, also when the payments
\* endpoint reopens a settled instruction and it is routed and executed again.
JournalPostedOnce == \A p \in Payments : posted[p] <= 1

\* Retries, failures and repeated executions pay once: unless the payments
\* endpoint has moved it, an instruction has drawn nothing, or it is settled and
\* has drawn its amount; what failed or was cancelled has posted nothing.
PaidOnce ==
  \A p \in Payments : ~moved[p] =>
    /\ drawn[p] = 0 \/ (status[p] = "settled" /\ drawn[p] = payAmount[p])
    /\ posted[p] = 1 => status[p] = "settled"

\* The instruction, its settlement and its transfer tell one story: also after
\* routing a failed instruction again, and after any mixture of endpoints.
InstructionMatchesRows ==
  \A p \in Payments :
    /\ status[p] \in {"settled", "failed"} => settlement[p] = status[p]
    /\ status[p] \in {"submitted", "complete"} => transfer[p] = status[p]
    /\ ~moved[p] /\ settlement[p] # "absent" =>
         settlement[p] = status[p] \/ (settlement[p] = "failed" /\ status[p] = "routed")

\* A decision names a profile that exists, although profiles and bindings are
\* read without a lock and may be deleted before the decision is written, and a
\* routed instruction has a decision.
DecisionsNameProfiles ==
  \A p \in Payments :
    /\ decision[p] # None => ProfileExists(decision[p])
    /\ status[p] = "routed" => decision[p] # None

\* Routing never reopens an instruction that was settled or cancelled while it
\* was choosing.
EndedIsNotRerouted ==
  [][\A p \in Payments : status[p] \in {"settled", "cancelled"} => status'[p] # "routed"]_vars

\* Seen from reservations and balances, an execution is a consume command or
\* nothing (module FundingReservations).
ImplementsReservations == Funding!Spec
=============================================================================
