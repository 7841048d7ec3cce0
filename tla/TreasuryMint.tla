---------------------------- MODULE TreasuryMint ----------------------------
(***************************************************************************)
(* The tenant mints USDC for itself: an internal_treasury_mint funding     *)
(* instruction, the mint command that asks the provider for the coins      *)
(* (mintFromFiatWireAccountService) and the webhook event that credits     *)
(* them (processFundingInstructionWebhookEvent).                           *)
(*                                                                         *)
(* The command locks the instruction, calls the provider while its         *)
(* transaction is open and only then commits, so the provider may accept   *)
(* what the database forgets.  Webhooks and the writes of an operator's    *)
(* transition wait for that lock; an operator's read does not.             *)
(***************************************************************************)
EXTENDS Integers, FiniteSets

CONSTANTS
  Instructions,    \* ids of wire_funding_instructions rows
  Keys,            \* idempotency keys of mint commands
  Events,          \* provider event ids
  Connections,     \* connections that run mint commands
  Operators,       \* connections that run an operator's transition
  Accounts,        \* destination accounts of digital asset
  MaxUnits,        \* bound on the amount of an instruction or a mint
  None

ASSUME MaxUnitsNat == MaxUnits \in Nat

VARIABLES
  status, destination, amount, credited,    \* wire_funding_instructions
  order,          \* status of the internal_mint_ada_transfer order
  available,      \* account_of_digital_asset_balances
  journal,        \* treasury_journal_entries posted for mints
  event, breaks,  \* provider_webhook_events; events with a reconciliation break
  operations,     \* keys with a committed circle_api_operations row
  answered,       \* keys with a committed api_idempotency_records row
  accepted,       \* mints the provider has accepted
  call,           \* the mint command each connection runs
  transition      \* what each operator's connection has read and will write

instructionVars == <<status, destination, amount, credited, order>>
ledgerVars == <<available, journal>>
inboxVars == <<event, breaks>>
mintVars == <<operations, answered, accepted, call>>
vars == <<instructionVars, ledgerVars, inboxVars, mintVars, transition>>

Units   == 0 .. MaxUnits
Amounts == 1 .. MaxUnits

Unseen == [status |-> "unseen"]
Idle   == [at |-> "idle"]

Init ==
  /\ status = [i \in Instructions |-> "absent"]
  /\ destination = [i \in Instructions |-> None]
  /\ amount = [i \in Instructions |-> 0]
  /\ credited = [i \in Instructions |-> 0]
  /\ order = [i \in Instructions |-> "absent"]
  /\ available = [a \in Accounts |-> 0]
  /\ journal = {}
  /\ event = [e \in Events |-> Unseen]
  /\ breaks = {}
  /\ operations = {} /\ answered = {} /\ accepted = {}
  /\ call = [w \in Connections |-> Idle]
  /\ transition = [w \in Operators |-> Idle]

Create(i, a, n) ==
  /\ status[i] = "absent"
  /\ status' = [status EXCEPT ![i] = "created"]
  /\ destination' = [destination EXCEPT ![i] = a]
  /\ amount' = [amount EXCEPT ![i] = n]
  /\ order' = [order EXCEPT ![i] = "created"]
  /\ UNCHANGED <<credited, ledgerVars, inboxVars, mintVars, transition>>

NeverLocked(i) == FALSE    \* mutant of Locked
\* The instruction's row is locked by a mint command in progress.
Locked(i) == \E w \in Connections : call[w] # Idle /\ call[w].of = i

-----------------------------------------------------------------------------
(* The operator's transitions (see ClientExchange) *)

ReadForTransition(w, i, action) ==
  /\ transition[w] = Idle
  /\ status[i] # "absent"
  /\ action = "cancel" => status[i] # "posted_available"
  /\ transition' = [transition EXCEPT ![w] = [at |-> action, of |-> i]]
  /\ UNCHANGED <<instructionVars, ledgerVars, inboxVars, mintVars>>

WriteTransition(w) ==
  /\ transition[w] # Idle
  /\ LET i == transition[w].of
         routed == transition[w].at = "assign-route"
     IN  /\ ~Locked(i)
         /\ status' = [status EXCEPT ![i] = IF routed THEN "route_resolved" ELSE "cancelled"]
         /\ order' = [order EXCEPT ![i] = IF routed /\ @ \in {"created", "route_resolved"}
                                          THEN "route_resolved" ELSE @]
  /\ transition' = [transition EXCEPT ![w] = Idle]
  /\ UNCHANGED <<destination, amount, credited, ledgerVars, inboxVars, mintVars>>

AbandonTransition(w) ==
  /\ transition[w] # Idle
  /\ transition' = [transition EXCEPT ![w] = Idle]
  /\ UNCHANGED <<instructionVars, ledgerVars, inboxVars, mintVars>>

-----------------------------------------------------------------------------
(* The mint command *)

\* The instruction is read FOR UPDATE; its status is not looked at.  A client
\* sends one request per key, and a key in progress makes others wait.
StartMint(w, i, k, n) ==
  /\ call[w] = Idle
  /\ status[i] # "absent"
  /\ ~Locked(i)
  /\ k \notin answered
  /\ \A v \in Connections : call[v] # Idle => call[v].key # k
  /\ \A x \in accepted : x.key = k => x.of = i /\ x.amount = n
  /\ call' = [call EXCEPT ![w] = [at |-> "provider", of |-> i, key |-> k, amount |-> n]]
  /\ UNCHANGED <<instructionVars, ledgerVars, inboxVars, operations, answered, accepted, transition>>

\* The provider accepts a key once, whatever becomes of its answer, or refuses.
ProviderAccepts(w, answer) ==
  /\ call[w].at = "provider"
  /\ accepted' = accepted \cup
       {[of |-> call[w].of, key |-> call[w].key, amount |-> call[w].amount]}
  /\ call' = [call EXCEPT ![w].at = answer]
  /\ UNCHANGED <<instructionVars, ledgerVars, inboxVars, operations, answered, transition>>

ProviderRefuses(w) ==
  /\ call[w].at = "provider"
  /\ call' = [call EXCEPT ![w].at = "failed"]
  /\ UNCHANGED <<instructionVars, ledgerVars, inboxVars, operations, answered, accepted, transition>>

OrderReopened(i) == [order EXCEPT ![i] = "pending_provider"]    \* mutant of OrderPending
\* updateFundingInstructionOrders leaves a completed order alone.  The order of
\* a mint that fails stays pending_provider: the second update does not match.
OrderPending(i) ==
  [order EXCEPT ![i] = IF @ \in {"created", "route_resolved"} THEN "pending_provider" ELSE @]

\* The commit needs the operation row, which is unique per key.
EndMint(w, outcome) ==
  /\ call[w].at = outcome
  /\ call[w].key \notin operations
  /\ operations' = operations \cup {call[w].key}
  /\ order' = OrderPending(call[w].of)
  /\ call' = [call EXCEPT ![w] = Idle]
  /\ UNCHANGED <<destination, amount, credited, ledgerVars, inboxVars, accepted, transition>>

CommitMint(w) ==
  /\ EndMint(w, "complete")
  /\ status' = [status EXCEPT ![call[w].of] = "pending_confirmation"]
  /\ answered' = answered \cup {call[w].key}

CommitFailure(w) ==
  /\ EndMint(w, "failed")
  /\ status' = [status EXCEPT ![call[w].of] = "failed"]
  /\ UNCHANGED answered

\* An error, a lost connection, a second operation row for the key: rollback.
LoseMint(w) ==
  /\ call[w] # Idle
  /\ call' = [call EXCEPT ![w] = Idle]
  /\ UNCHANGED <<instructionVars, ledgerVars, inboxVars, operations, answered, accepted, transition>>

-----------------------------------------------------------------------------
(* Webhook events; n = 0 when the event names no amount *)

Record(e, kind, i, outcome) ==
  /\ event[e] = Unseen
  /\ status[i] # "absent"
  /\ ~Locked(i)
  /\ event' = [event EXCEPT ![e] = [kind |-> kind, of |-> i, status |-> outcome]]

Mismatched(i, kind, n) == kind = "confirmation" /\ n > 0 /\ n # amount[i]

AnyStatus(i) == TRUE    \* mutant of AwaitsConfirmation
AwaitsConfirmation(i) == status[i] = "pending_confirmation"

ConfirmedByEvent(i, n) == n    \* mutant of Confirmed
Confirmed(i, n) == IF n > 0 THEN n ELSE amount[i]

Overwritten(a, m) == [available EXCEPT ![a] = m]    \* mutant of Upserted
\* insert ... on conflict do update set available = available + excluded
Upserted(a, m) == [available EXCEPT ![a] = @ + m]

Mismatch(e, i, kind, n) ==
  /\ Mismatched(i, kind, n)
  /\ Record(e, kind, i, "processed")
  /\ status' = [status EXCEPT ![i] = "exception_suspense"]
  /\ breaks' = breaks \cup {e}
  /\ UNCHANGED <<destination, amount, credited, order, ledgerVars, mintVars, transition>>

\* An event for an instruction that is not awaiting one: processed, no effect.
Stale(e, i, kind, n) ==
  /\ ~Mismatched(i, kind, n)
  /\ ~AwaitsConfirmation(i)
  /\ Record(e, kind, i, "processed")
  /\ UNCHANGED <<breaks, instructionVars, ledgerVars, mintVars, transition>>

\* Any other event, whatever it reports, completes the mint.
Finalize(e, i, kind, n) ==
  LET a == destination[i]
      m == Confirmed(i, n)
  IN  /\ ~Mismatched(i, kind, n)
      /\ AwaitsConfirmation(i)
      /\ Record(e, kind, i, "processed")
      /\ order' = [order EXCEPT ![i] = "completed"]
      /\ credited' = [credited EXCEPT ![i] = @ + m]
      /\ status' = [status EXCEPT ![i] = "posted_available"]
      /\ journal' = journal \cup {[of |-> i, by |-> e, amount |-> m]}
      /\ available' = Upserted(a, m)
      /\ UNCHANGED <<destination, amount, breaks, mintVars, transition>>

ProcessingFails(e, i, kind, n) ==
  /\ Record(e, kind, i, "failed")
  /\ UNCHANGED <<breaks, instructionVars, ledgerVars, mintVars, transition>>

Reprocess(e) ==
  /\ event[e].status = "failed"
  /\ event' = [event EXCEPT ![e].status = "processed"]
  /\ UNCHANGED <<breaks, instructionVars, ledgerVars, mintVars, transition>>

Webhook(e, i, kind, n) ==
  \/ Mismatch(e, i, kind, n)
  \/ Stale(e, i, kind, n)
  \/ Finalize(e, i, kind, n)
  \/ ProcessingFails(e, i, kind, n)

Next ==
  \/ \E i \in Instructions, a \in Accounts, n \in Amounts : Create(i, a, n)
  \/ \E w \in Operators :
       \/ \E i \in Instructions, action \in {"cancel", "assign-route"} :
            ReadForTransition(w, i, action)
       \/ WriteTransition(w)
       \/ AbandonTransition(w)
  \/ \E w \in Connections :
       \/ \E i \in Instructions, k \in Keys, n \in Amounts : StartMint(w, i, k, n)
       \/ \E answer \in {"complete", "failed"} : ProviderAccepts(w, answer)
       \/ ProviderRefuses(w)
       \/ CommitMint(w)
       \/ CommitFailure(w)
       \/ LoseMint(w)
  \/ \E e \in Events, i \in Instructions, kind \in {"confirmation", "other"}, n \in Units :
       Webhook(e, i, kind, n)
  \/ \E e \in Events : Reprocess(e)

Spec == Init /\ [][Next]_vars

-----------------------------------------------------------------------------
(* Properties *)

Mints == [of : Instructions, key : Keys, amount : Amounts]

TypeOK ==
  /\ status \in [Instructions -> {"absent", "created", "route_resolved", "pending_confirmation",
                                  "failed", "posted_available", "exception_suspense", "cancelled"}]
  /\ destination \in [Instructions -> Accounts \cup {None}]
  /\ amount \in [Instructions -> Units]
  /\ credited \in [Instructions -> Nat]
  /\ order \in [Instructions -> {"absent", "created", "route_resolved", "pending_provider",
                                 "completed"}]
  /\ available \in [Accounts -> Nat]
  /\ journal \subseteq [of : Instructions, by : Events, amount : Amounts]
  /\ event \in [Events -> {Unseen} \cup [kind : {"confirmation", "other"}, of : Instructions,
                                         status : {"processed", "failed"}]]
  /\ breaks \subseteq Events
  /\ operations \subseteq Keys
  /\ answered \subseteq operations
  /\ accepted \subseteq Mints
  /\ call \in [Connections -> {Idle} \cup [at : {"provider", "complete", "failed"},
                                           of : Instructions, key : Keys, amount : Amounts]]
  /\ transition \in [Operators -> {Idle} \cup [at : {"cancel", "assign-route"}, of : Instructions]]

PostingsOf(i) == {x \in journal : x.of = i}
\* Mints of i the provider accepted and the database remembers.
ConfirmableMints(i) == {x \in accepted : x.of = i /\ x.key \in answered}

\* An instruction is posted at most once per mint of it the provider has accepted
\* (a count; no amount is compared), and one that awaits its confirmation has a
\* mint left to be credited, however mints are retried, lost, refused or run
\* again on one instruction, and whatever events arrive.
CreditsBackedByMints ==
  \A i \in Instructions :
    Cardinality(PostingsOf(i)) + (IF status[i] = "pending_confirmation" THEN 1 ELSE 0)
      <= Cardinality(ConfirmableMints(i))

\* The balance row is the sum of what the journal posted: <<x, k>> is the k-th
\* minor unit of posting x.
BalanceMatchesJournal ==
  \A a \in Accounts :
    available[a] =
      Cardinality({u \in journal \X Amounts : destination[u[1].of] = a /\ u[2] <= u[1].amount})

\* The order is completed exactly when the instruction has been posted, though
\* mints, transitions and events all write its status.
OrderCompletedWhenPosted ==
  \A i \in Instructions : order[i] = "completed" <=> PostingsOf(i) # {}

\* Journal, balance and order tell one story, whatever overlaps a mint.
RecordsAgree == BalanceMatchesJournal /\ OrderCompletedWhenPosted

\* A mint command does not move under the provider's feet: while a connection
\* has the instruction locked and waits for the provider, nobody else's commit
\* touches the instruction.
UntouchedDuringMint ==
  [][\A w \in Connections :
       call[w] # Idle /\ call'[w] # Idle =>
         LET i == call[w].of
         IN  status'[i] = status[i] /\ credited'[i] = credited[i] /\ order'[i] = order[i]]_vars

\* "does not mutate ADA balance before webhook confirmation"
\* (apps/api/test/services/fiat-wire-mint-service.test.ts:5): what credits a
\* mint is an event that confirms it.
CreditedByConfirmation == \A x \in journal : event[x.by].kind = "confirmation"
=============================================================================
