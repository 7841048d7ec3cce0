--------------------------- MODULE ClientExchange ---------------------------
(***************************************************************************)
(* Client funding in two stages: a client_exchange funding instruction,    *)
(* its wire order and its USDC order, the webhook events of the provider   *)
(* that complete them, the client's balance row and the journal.  Modelled *)
(* from createInstruction (client-funding-repository.ts), and from         *)
(* createFundingInstruction, transitionFundingInstruction and              *)
(* processFundingInstructionWebhookEvent (postgres-route-handler.ts).      *)
(*                                                                         *)
(* A webhook locks the instruction (SELECT ... FOR UPDATE) before it reads *)
(* it, so its processing is one step.  An operator's transition reads the  *)
(* status without a lock and updates it later: those are two steps, and a  *)
(* webhook may commit between them.                                        *)
(***************************************************************************)
EXTENDS Integers, FiniteSets

CONSTANTS
  Instructions,      \* ids of wire_funding_instructions rows
  Events,            \* provider event ids
  Operators,         \* connections that run an operator's transition
  Accounts,          \* destination accounts of digital asset
  MaxUnits,          \* bound on the amount of an instruction
  None,
  DatabaseMayFail    \* whether processing may fail for reasons not modelled

ASSUME InstructionsFinite == IsFiniteSet(Instructions)
ASSUME MaxUnitsNat == MaxUnits \in Nat
ASSUME DatabaseMayFailBool == DatabaseMayFail \in BOOLEAN
ASSUME NoneIsNoEvent == None \notin Events

VARIABLES
  status, destination, amount, pendingUsdc, availableUsdc,
  wireConfirmedBy, usdcConfirmedBy,           \* wire_funding_instructions
  wireOrder, fiatAccountKnown,                \* the ada_wire_transfer order
  usdcOrder, usdcAccountKnown,                \* the ada_usdc_transfer order
  pending, available,                         \* account_of_digital_asset_balances
  journal,     \* treasury_journal_entries posted for the two stages
  event,       \* provider_webhook_events, Unseen until one is received
  breaks,      \* events a reconciliation break was registered for
  transition   \* what each operator's connection has read and will write

instructionVars ==
  <<status, destination, amount, pendingUsdc, availableUsdc, wireConfirmedBy, usdcConfirmedBy>>
orderVars == <<wireOrder, fiatAccountKnown, usdcOrder, usdcAccountKnown>>
ledgerVars == <<pending, available, journal>>
inboxVars == <<event, breaks>>
vars == <<instructionVars, orderVars, ledgerVars, inboxVars, transition>>

Units   == 0 .. MaxUnits
Amounts == 1 .. MaxUnits

Unseen == [status |-> "unseen"]
Idle   == [action |-> "none"]

InstructionStatus ==
  {"absent", "created", "route_resolved", "pending_usdc_reserved", "posted_available",
   "exception_suspense", "cancelled"}
Kinds == {"wire", "usdc", "failure"}

-----------------------------------------------------------------------------

Init ==
  /\ status = [i \in Instructions |-> "absent"]
  /\ destination = [i \in Instructions |-> None]
  /\ amount = [i \in Instructions |-> 0]
  /\ pendingUsdc = [i \in Instructions |-> 0]
  /\ availableUsdc = [i \in Instructions |-> 0]
  /\ wireConfirmedBy = [i \in Instructions |-> None]
  /\ usdcConfirmedBy = [i \in Instructions |-> None]
  /\ wireOrder = [i \in Instructions |-> "absent"]
  /\ fiatAccountKnown = [i \in Instructions |-> FALSE]
  /\ usdcOrder = [i \in Instructions |-> "absent"]
  /\ usdcAccountKnown = [i \in Instructions |-> FALSE]
  /\ pending = [a \in Accounts |-> 0]
  /\ available = [a \in Accounts |-> 0]
  /\ journal = {}
  /\ event = [e \in Events |-> Unseen]
  /\ breaks = {}
  /\ transition = [w \in Operators |-> Idle]

\* The instruction and its two orders, the second blocked by the first.  The
\* orders' accounts are the ones the journal needs: the platform's fiat account
\* (destination of the wire order) and USDC account (source of the USDC order).
InsertInstruction(i, a, n) ==
  /\ status[i] = "absent"
  /\ status' = [status EXCEPT ![i] = "created"]
  /\ destination' = [destination EXCEPT ![i] = a]
  /\ amount' = [amount EXCEPT ![i] = n]
  /\ wireOrder' = [wireOrder EXCEPT ![i] = "created"]
  /\ usdcOrder' = [usdcOrder EXCEPT ![i] = "blocked_dependency"]
  /\ UNCHANGED <<pendingUsdc, availableUsdc, wireConfirmedBy, usdcConfirmedBy, ledgerVars,
                 inboxVars, transition>>

\* createFundingInstruction, for an operator: the accounts come with the request.
CreateByOperator(i, a, n) ==
  /\ InsertInstruction(i, a, n)
  /\ fiatAccountKnown' = [fiatAccountKnown EXCEPT ![i] = TRUE]
  /\ usdcAccountKnown' = [usdcAccountKnown EXCEPT ![i] = TRUE]

\* createInstruction, for a client: null until a route is assigned.
CreateByClient(i, a, n) ==
  /\ InsertInstruction(i, a, n)
  /\ UNCHANGED <<fiatAccountKnown, usdcAccountKnown>>

-----------------------------------------------------------------------------
(* The operator's transitions *)

ValueMoved == {"pending_usdc_reserved", "posted_available"}

\* The SELECT of transitionFundingInstruction and the check on what it read.
ReadForTransition(w, i, action) ==
  /\ transition[w] = Idle
  /\ status[i] # "absent"
  /\ action = "cancel" => status[i] \notin ValueMoved
  /\ transition' = [transition EXCEPT ![w] = [action |-> action, of |-> i]]
  /\ UNCHANGED <<instructionVars, orderVars, ledgerVars, inboxVars>>

\* The UPDATE: whatever the status has become.
WriteCancel(w) ==
  /\ transition[w].action = "cancel"
  /\ status' = [status EXCEPT ![transition[w].of] = "cancelled"]
  /\ transition' = [transition EXCEPT ![w] = Idle]
  /\ UNCHANGED <<destination, amount, pendingUsdc, availableUsdc, wireConfirmedBy, usdcConfirmedBy,
                 orderVars, ledgerVars, inboxVars>>

Unrouted == {"created", "route_assigned", "route_resolved"}

WriteRoute(w) ==
  /\ transition[w].action = "assign-route"
  /\ LET i == transition[w].of
     IN  /\ status' = [status EXCEPT ![i] = "route_resolved"]
         /\ wireOrder' = [wireOrder EXCEPT ![i] = IF @ \in Unrouted THEN "route_resolved" ELSE @]
         /\ fiatAccountKnown' =
              [fiatAccountKnown EXCEPT ![i] = @ \/ wireOrder[i] \in Unrouted]
         /\ usdcAccountKnown' =
              [usdcAccountKnown EXCEPT ![i] = @ \/ usdcOrder[i] \in Unrouted]
  /\ transition' = [transition EXCEPT ![w] = Idle]
  /\ UNCHANGED <<destination, amount, pendingUsdc, availableUsdc, wireConfirmedBy, usdcConfirmedBy,
                 usdcOrder, ledgerVars, inboxVars>>

\* No route, an error, a lost connection: rollback.
AbandonTransition(w) ==
  /\ transition[w] # Idle
  /\ transition' = [transition EXCEPT ![w] = Idle]
  /\ UNCHANGED <<instructionVars, orderVars, ledgerVars, inboxVars>>

-----------------------------------------------------------------------------
(* Webhook events *)

\* The event row, and a reconciliation break if the event could not be applied.
Record(e, kind, i, outcome) ==
  /\ event[e] = Unseen
  /\ event' = [event EXCEPT ![e] = [kind |-> kind, of |-> i, status |-> outcome]]
Processed(e, kind, i) == Record(e, kind, i, "processed") /\ UNCHANGED breaks
ProcessedWithBreak(e, kind, i) == Record(e, kind, i, "processed") /\ breaks' = breaks \cup {e}

Suspend(i) == status' = [status EXCEPT ![i] = "exception_suspense"]

SettledAgain(i) == TRUE    \* mutant of NotYetSettled
NotYetSettled(i) == wireConfirmedBy[i] = None
DeliveredAgain(i) == TRUE    \* mutant of NotYetDelivered
NotYetDelivered(i) == usdcConfirmedBy[i] = None
WireNotNeeded(i) == TRUE    \* mutant of WireCompleted
WireCompleted(i) == wireOrder[i] = "completed"
WireNeverCompletes(i) == wireOrder    \* mutant of WireOrderCompleted
WireOrderCompleted(i) == [wireOrder EXCEPT ![i] = "completed"]
DrainForgotten(n, m) == n    \* mutant of Drain
\* greatest(n - m, 0)
Drain(n, m) == IF n >= m THEN n - m ELSE 0

\* A confirmation of another amount than the instruction's.
MismatchedConfirmation(e, i, kind) ==
  /\ status[i] # "absent"
  /\ kind \in {"wire", "usdc"}
  /\ ProcessedWithBreak(e, kind, i)
  /\ Suspend(i)
  /\ UNCHANGED <<destination, amount, pendingUsdc, availableUsdc, wireConfirmedBy, usdcConfirmedBy,
                 orderVars, ledgerVars, transition>>

\* A failure, rejection or return reported by the provider.
ProviderFailure(e, i) ==
  /\ status[i] # "absent"
  /\ ProcessedWithBreak(e, "failure", i)
  /\ Suspend(i)
  /\ usdcOrder' = [usdcOrder EXCEPT ![i] = IF WireCompleted(i) THEN "failed" ELSE @]
  /\ UNCHANGED <<destination, amount, pendingUsdc, availableUsdc, wireConfirmedBy, usdcConfirmedBy,
                 wireOrder, fiatAccountKnown, usdcAccountKnown, ledgerVars, transition>>

\* First stage: the client's wire has arrived.
ConfirmWire(e, i) ==
  LET a == destination[i]
      n == amount[i]
  IN  /\ status[i] # "absent"
      /\ NotYetSettled(i)
      /\ fiatAccountKnown[i]
      /\ Processed(e, "wire", i)
      /\ wireOrder' = WireOrderCompleted(i)
      /\ usdcOrder' = [usdcOrder EXCEPT ![i] =
                         IF @ = "blocked_dependency" THEN "pending_provider" ELSE @]
      /\ pendingUsdc' = [pendingUsdc EXCEPT ![i] = @ + n]
      /\ status' = [status EXCEPT ![i] = "pending_usdc_reserved"]
      /\ wireConfirmedBy' = [wireConfirmedBy EXCEPT ![i] = e]
      /\ pending' = [pending EXCEPT ![a] = @ + n]
      /\ journal' = journal \cup {[stage |-> "fiat_settled", of |-> i, by |-> e]}
      /\ UNCHANGED <<destination, amount, availableUsdc, usdcConfirmedBy, fiatAccountKnown,
                     usdcAccountKnown, available, transition>>

\* Second stage: the USDC has been delivered to the client's wallet.
ConfirmUsdc(e, i) ==
  LET a == destination[i]
      n == amount[i]
  IN  /\ status[i] # "absent"
      /\ NotYetDelivered(i)
      /\ WireCompleted(i)
      /\ fiatAccountKnown[i] /\ usdcAccountKnown[i]
      /\ Processed(e, "usdc", i)
      /\ usdcOrder' = [usdcOrder EXCEPT ![i] = "completed"]
      /\ pendingUsdc' = [pendingUsdc EXCEPT ![i] = Drain(@, n)]
      /\ availableUsdc' = [availableUsdc EXCEPT ![i] = @ + n]
      /\ status' = [status EXCEPT ![i] = "posted_available"]
      /\ usdcConfirmedBy' = [usdcConfirmedBy EXCEPT ![i] = e]
      /\ pending' = [pending EXCEPT ![a] = Drain(@, n)]
      /\ available' = [available EXCEPT ![a] = @ + n]
      /\ journal' = journal \cup {[stage |-> "posted", of |-> i, by |-> e]}
      /\ UNCHANGED <<destination, amount, wireConfirmedBy, wireOrder, fiatAccountKnown,
                     usdcAccountKnown, transition>>

\* A USDC confirmation before the wire has been settled.
ConfirmUsdcTooEarly(e, i) ==
  /\ status[i] # "absent"
  /\ NotYetDelivered(i)
  /\ ~WireCompleted(i)
  /\ ProcessedWithBreak(e, "usdc", i)
  /\ Suspend(i)
  /\ UNCHANGED <<destination, amount, pendingUsdc, availableUsdc, wireConfirmedBy, usdcConfirmedBy,
                 orderVars, ledgerVars, transition>>

\* A stage that another event has already confirmed.
AlreadyConfirmed(e, i, kind) ==
  /\ status[i] # "absent"
  /\ \/ kind = "wire" /\ ~NotYetSettled(i)
     \/ kind = "usdc" /\ ~NotYetDelivered(i)
  /\ Processed(e, kind, i)
  /\ UNCHANGED <<instructionVars, orderVars, ledgerVars, transition>>

\* An event no instruction, or more than one, can be found for.  There is no
\* break for an event that names neither an instruction, an account nor an amount.
Orphan(e) ==
  /\ ProcessedWithBreak(e, "orphan", None) \/ Processed(e, "orphan", None)
  /\ UNCHANGED <<instructionVars, orderVars, ledgerVars, transition>>

\* The handler throws: the savepoint is rolled back, the event is kept as
\* failed and a dead letter is written.  It always throws when an account it
\* needs is missing (funding_settlement_route_missing and
\* funding_settlement_accounting_incomplete).
ProcessingFails(e, i, kind) ==
  /\ status[i] # "absent"
  /\ \/ DatabaseMayFail
     \/ kind = "wire" /\ NotYetSettled(i) /\ ~fiatAccountKnown[i]
     \/ /\ kind = "usdc" /\ NotYetDelivered(i) /\ WireCompleted(i)
        /\ ~(fiatAccountKnown[i] /\ usdcAccountKnown[i])
  /\ Record(e, kind, i, "failed")
  /\ UNCHANGED <<breaks, instructionVars, orderVars, ledgerVars, transition>>

\* reprocess marks the event processed and does nothing else.
Reprocess(e) ==
  /\ event[e].status = "failed"
  /\ event' = [event EXCEPT ![e].status = "processed"]
  /\ UNCHANGED <<breaks, instructionVars, orderVars, ledgerVars, transition>>

Next ==
  \/ \E i \in Instructions, a \in Accounts, n \in Amounts :
       CreateByOperator(i, a, n) \/ CreateByClient(i, a, n)
  \/ \E w \in Operators :
       \/ \E i \in Instructions, action \in {"cancel", "assign-route"} :
            ReadForTransition(w, i, action)
       \/ WriteCancel(w)
       \/ WriteRoute(w)
       \/ AbandonTransition(w)
  \/ \E e \in Events, i \in Instructions :
       \/ \E kind \in Kinds :
            MismatchedConfirmation(e, i, kind) \/ AlreadyConfirmed(e, i, kind) \/ ProcessingFails(e, i, kind)
       \/ ProviderFailure(e, i)
       \/ ConfirmWire(e, i)
       \/ ConfirmUsdc(e, i)
       \/ ConfirmUsdcTooEarly(e, i)
  \/ \E e \in Events : Orphan(e) \/ Reprocess(e)

Spec == Init /\ [][Next]_vars

-----------------------------------------------------------------------------
(* Properties *)

OrderStatus ==
  {"absent", "created", "route_resolved", "blocked_dependency", "pending_provider", "completed",
   "failed"}

TypeOK ==
  /\ status \in [Instructions -> InstructionStatus]
  /\ destination \in [Instructions -> Accounts \cup {None}]
  /\ amount \in [Instructions -> Units]
  /\ pendingUsdc \in [Instructions -> Units]
  /\ availableUsdc \in [Instructions -> Units]
  /\ wireConfirmedBy \in [Instructions -> Events \cup {None}]
  /\ usdcConfirmedBy \in [Instructions -> Events \cup {None}]
  /\ wireOrder \in [Instructions -> OrderStatus]
  /\ usdcOrder \in [Instructions -> OrderStatus]
  /\ fiatAccountKnown \in [Instructions -> BOOLEAN]
  /\ usdcAccountKnown \in [Instructions -> BOOLEAN]
  /\ pending \in [Accounts -> Nat]
  /\ available \in [Accounts -> Nat]
  /\ journal \subseteq [stage : {"fiat_settled", "posted"}, of : Instructions, by : Events]
  /\ event \in [Events -> {Unseen} \cup [kind : Kinds \cup {"orphan"}, of : Instructions \cup {None},
                                         status : {"processed", "failed"}]]
  /\ breaks \subseteq Events
  /\ transition \in [Operators -> {Idle} \cup [action : {"cancel", "assign-route"}, of : Instructions]]

\* The instructions whose stage has been posted to the journal.
Posted(stage) == {i \in Instructions : \E x \in journal : x.stage = stage /\ x.of = i}
\* The minor units of the instructions of S, one by one: their number is the
\* sum of the amounts.
UnitsOf(S) == {u \in S \X Amounts : u[2] <= amount[u[1]]}
To(a) == {i \in Instructions : destination[i] = a}

\* Each stage of an instruction is posted to the journal at most once, however
\* often and in whatever order the provider's events arrive, and the second
\* only after the first.
PostedOncePerStage ==
  /\ \A x, y \in journal : x.stage = y.stage /\ x.of = y.of => x = y
  /\ Posted("posted") \subseteq Posted("fiat_settled")

\* The client's balance row is what the journal says: pending is what has been
\* settled and not delivered, available what has been delivered; the clamp at
\* zero never hides a difference, whatever operators do to the statuses.
BalancesMatchJournal ==
  \A a \in Accounts :
    /\ pending[a] = Cardinality(UnitsOf(To(a) \cap (Posted("fiat_settled") \ Posted("posted"))))
    /\ available[a] = Cardinality(UnitsOf(To(a) \cap Posted("posted")))

\* The orders, the instruction and the events that confirmed it tell the same
\* story: the USDC order leaves its block exactly when the wire order
\* completes, and two different events confirmed the two stages.
OrdersMatchConfirmations ==
  \A i \in Instructions :
    /\ wireOrder[i] = "completed" <=> wireConfirmedBy[i] # None
    /\ usdcOrder[i] \in {"pending_provider", "completed", "failed"} <=> wireOrder[i] = "completed"
    /\ usdcConfirmedBy[i] # None => usdcConfirmedBy[i] # wireConfirmedBy[i]
    /\ pendingUsdc[i] = IF wireConfirmedBy[i] # None /\ usdcConfirmedBy[i] = None THEN amount[i] ELSE 0
    /\ availableUsdc[i] = IF usdcConfirmedBy[i] # None THEN amount[i] ELSE 0

\* An instruction in suspense has a reconciliation break an operator can find.
ExceptionsHaveBreaks ==
  \A i \in Instructions :
    status[i] = "exception_suspense" => \E e \in breaks : event[e].of = i

\* Journal, balances, orders, instructions and breaks tell one story of an
\* instruction, whatever events and operators do in whatever order.
RecordsAgree == BalancesMatchJournal /\ OrdersMatchConfirmations /\ ExceptionsHaveBreaks

\* The promise to the client (module TwoStageSettlement).
Promise == INSTANCE TwoStageSettlement WITH
  owed <- pending, delivered <- available,
  settled <- {<<i, destination[i], amount[i]>> : i \in {j \in Instructions : wireConfirmedBy[j] # None}},
  posted <- {i \in Instructions : usdcConfirmedBy[i] # None}
ImplementsTwoStageSettlement == Promise!Spec

\* "simulate the two settlement stages in order" (apps/api/README.md:193): when
\* the wire has been settled, a USDC confirmation that is taken in posts the
\* instruction or finds it posted.
StagesInOrderSettle ==
  [][\A e \in Events :
       event[e] = Unseen /\ event'[e] # Unseen =>
         LET i == event'[e].of
         IN  event'[e].kind = "usdc" /\ i # None /\ e \notin breaks' /\ WireCompleted(i)
               => usdcConfirmedBy'[i] # None]_vars
=============================================================================
