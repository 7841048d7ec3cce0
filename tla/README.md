# GTT: a TLA+ model of the treasury API

This directory holds TLA+ specifications of the parts of the GTT platform that
move or protect money, TLC configurations that check them on small instances,
and TLAPS proofs of the properties that matter most. Every definition is written
from the TypeScript and SQL sources; `PROJECT.json` names the lines each one
stands for. Paths below are relative to the repository root;
`postgres-route-handler.ts` is `apps/api/src/db/postgres-route-handler.ts`.

## 1. The system

GTT lets business clients of a platform tenant fund *accounts of digital asset*
(ADAs) with wires, reserve the funds for settlement obligations, settle, redeem
and rebalance them, with Circle as the provider that holds the money. There are
three layers of code that keep state.

| Layer | Where | State | Concurrency |
|---|---|---|---|
| Durable commands | `postgres-route-handler.ts`, `apps/api/src/services`, `apps/api/src/db/repositories` | PostgreSQL tables | READ COMMITTED transactions over a connection pool, `FOR UPDATE` row locks, unique indexes, provider calls inside open transactions, webhooks |
| API runtime state | `apps/api/src/server.ts`, `db/state-transaction.ts`, `db/state-store.ts`, `workers/` | one in-memory object and one snapshot row | requests interleave at every `await`; worker and scheduler are separate processes |
| Domain services | `src/sprint1` ... `src/sprint8` | maps in memory | synchronous, apart from the awaits of onboarding |

### Components

| Component | State | Operations | What is hard | What makes it correct |
|---|---|---|---|---|
| Obligations and reservations | `settlement_obligations`, `funding_reservations`, `account_of_digital_asset_balances` | create, reserve, consume, release, expire, cancel, fulfil | partial consumption, two commands on one balance, lock order, lost connections | reserved balance = what active reservations hold; no unit created or lost; cancelled obligations hold nothing; commands are atomic and end |
| Client exchange | `wire_funding_instructions`, `funding_instruction_orders`, `provider_webhook_events`, balances, journal | create, assign route, cancel, wire / USDC / failure / mismatched events, reprocess | events duplicated, reordered or late; an operator's write between read and event | each stage posted once and in order; balance = journal; exceptions have breaks |
| Treasury mint | the same tables, `circle_api_operations`, the provider | create, mint, confirm, transition | provider call inside an open transaction; rollback after the provider accepted | credited at most once per mint the provider has accepted |
| Idempotent commands | `api_idempotency_records`, `idempotency_keys` | look up, run, record, commit, replay | two requests of one key at the same time, lost answers, reused keys | at most one effect; answers are committed; nobody waits for ever |
| API runtime state, worker, scheduler | `ApiState`, `api_runtime_state_snapshots` | clone, work, replace, save, load; reserve, mark, mint, transfer, webhook; process events, expire | state cloned before an await; whole-state writes; save errors | an effect and its record are never separated; every copy is consistent in itself |
| Webhook ingest | `provider_webhook_events`, dead letters | deduplicate, verify, process, fail, reprocess, resolve | deliveries of one event overlap; processing fails after it has written; a failed event is never applied again | an event is applied whole, at most once, or has a dead letter |
| Internal identity | users, roles, invitations, secrets | refresh, create, invite, accept, activate, change roles, disable, reset | tables read one by one, and the whole state written back from a stale copy | nothing is accepted without its user |
| Payments, routing and internal settlement | `payment_instructions`, `routing_decisions`, `internal_ada_settlements`, `internal_transfer_executions`, `route_profiles`, `route_bindings` | create, route, execute, retry, cancel; submit, refresh; catalogue changes | two endpoints on one row, one of them without guards; the catalogue is read without locks; retries after a refused draw | paid and posted once; instruction, settlement and transfer agree; decisions name existing profiles |
| Journal entries | journal tables | open, post, reverse, settle | look-ups without locks before a post | a source event is posted once |
| Disbursements, advances, redemptions | their tables, the credit line | create, approve, submit, refresh, settle, cancel | guards look at the status of a moment ago | what has been submitted or cancelled stays so; one withdrawal per redemption |
| Accounts, linked instruments | `accounts_of_digital_asset`, `linked_instruments`, clients | create, activate, restrict, freeze, close; link, patch, verify, set default, disable | operators, the business user and reviewers write one row | the record tells what happened; one default per account |
| Tenant activation, ADA provisioning | `tenant_circle_integrations`, accounts, instruments, provider operations | activate, add wire accounts, provision wallets | provider calls inside transactions, for several accounts of one client | one wallet set per client, one treasury per tenant |
| Client onboarding | `business_onboarding_applications`, clients, tasks, reviews, a copy in memory | register, save steps, submit, answer; approve, reject, ask | the applicant's requests write back what they have read | no decision is invented or forgotten |
| Business sessions | sessions in the database and in each process | sign in, refresh, sign out, authenticate | a token index per process, the provider in between | what has ended stays ended |
| Domain services (sprints 1-7) | maps in memory | obligations, reservations, deposits, payments, redemptions, onboarding, rebalancing, reconciliation | a call that throws half-way keeps what it did; copies stored after awaits | obligations are not overfunded, payments spend reserved funds, moves that require an approval have it, a daily close that is ready hides no mismatch of the latest run |
| Circle gateway | none of its own; what the provider has made | post with retries, list, register a wire account, fetch its instructions | an answer that does not come, calls in overlap | one object per call; a bank account is not registered again |
| Route selection | `route_bindings`, the legs of an instruction, its decision | create, route, route again, relink | order of rows, instruments linked and unlinked between routings | the same links give the same route; a second leg goes to a linked instrument |
| Drafts of the web application | `localStorage` of the accounts-and-rails page | save, keep as draft, retry, load, close | retries and saves side by side, answers lost | a draft is kept until it is carried out; once, if it was answered |
| Other pages, OpenAPI, migrations, the router's other demo handlers | none that outlives a request or a page | | | left out (section 5). The unique indexes, foreign keys and locks the modules depend on are in those modules |

### How the components interact

* An HTTP request reaches `server.ts`. If a PostgreSQL URL is configured and the
  route has a durable handler, `handlePostgresRoute` runs it inside
  `withPostgresTransaction` and under the request's idempotency key; otherwise
  the in-memory router works on a clone of the runtime state.
* The funding workflow (client exchange, treasury mint) is what makes units
  available on an account; reservations take them from there. The three meet in
  the balance row, which `FundingReservations!CreditAvailable` stands for.
* Circle webhooks are commands too, with the provider's event id as their key.
  They lock the instruction they belong to, so their processing is one step with
  respect to it, inside a savepoint that turns an exception into a failed event.

## 2. The modules

| Module | What it models |
|---|---|
| `Escrow` | Abstract: every unit of an account is free, held or spent, and is spent only from a hold. |
| `FundingReservations` | The commands on obligations and reservations, one action per committed transaction. |
| `TreasuryPayments` | Payment instructions, their routing, execution and retry, the route catalogue, and the reservations they draw on. Composes with and refines `FundingReservations`. |
| `TreasuryPayments_proofs` | Its invariants, its action property and that refinement, proved. |
| `ReservationTransactions` | The same commands statement by statement: lock queues, key-share locks of foreign keys, deadlock victims, lost connections. Refines `FundingReservations`. |
| `ReservationTransactions_proofs` | The invariants and the action property of `FundingReservations` and its refinement of `Escrow`; then the refinement of its commands and the invariant of the locks. All proved. |
| `TwoStageSettlement` | Abstract: fiat is settled once per instruction, then that amount is delivered once to that account. |
| `ClientExchange` | Client exchange instructions, their two orders, operators and webhook events. Refines `TwoStageSettlement`. |
| `ClientExchange_proofs` | Its invariants and that refinement, proved. |
| `TreasuryMint` | Minting for the tenant itself, with the provider call inside the transaction. |
| `TreasuryMint_proofs` | Its invariants and its action property, proved. |
| `AtMostOnce` | Abstract: a key takes one outcome, once. |
| `IdempotentCommands` | One command under an idempotency key, statement by statement. Refines `AtMostOnce`. |
| `IdempotentCommands_proofs` | Its invariants and the refinement, proved. |
| `ApiRuntimeState` | The in-memory state and its snapshot row. |
| `SimulatorRoutes` | The in-memory router's commands on funds, payments and webhooks, and the worker and scheduler that change the same state in its snapshot. |
| `WebhookInbox` | Circle's webhook: deliveries of events that overlap and repeat, the savepoint around their writes, dead letters, reprocessing. |
| `InternalIdentity` | Requests that read users, roles, invitations and secrets table by table and write all of them back. |
| `CircleProvisioning` | Wallet sets and wallets for the accounts of one client, around provider calls that a rollback does not undo. |
| `TenantActivation` | The tenant's own wallet set, wallet, treasury client and central account; activations and wire-account commands overlap. |
| `AccountLifecycle` | One client and one account: internal commands, the business user's requests and the onboarding, which write the same rows. |
| `LinkedInstruments` | Instruments of one client: links, patches, verification, defaults, disabling. |
| `LedgerJournals` | Opening and manual entries, reversals, and settlements' entries. |
| `TreasuryOutflows` | Advances on a credit line, disbursements, redemptions. |
| `BusinessOnboarding` | The applicant's requests, with the copy in the server's memory, and the reviewers' decisions. |
| `BusinessSessions` | Sign-in, refresh, sign-out and authentication by several server processes. |
| `CircleGateway` | The calls to Circle: repeated requests and their keys, registration of wire accounts. |
| `RouteSelection` | Instruments an instruction asks for, matching and scoring of route bindings, the second leg. |
| `AdaDrafts` | The drafts a page of the web application keeps in the browser and retries. |
| `Sums` | The sum of the amounts a function gives, as the number of their units. |
| `DomainFunds` | In-memory balances, obligations, reservations, deposits, internal and external payments and redemptions (sprints 2, 3, 5, 6). |
| `DomainRebalancing` | Recommendations, approvals and executions of rebalances; reconciliation, its breaks and the daily close (sprints 4, 7). |
| `DomainOnboarding` | Clients, accounts and their idempotent commands (sprint 1); applications submitted and polled around provider calls (sprint 2). |
| `ServerComponents`, `BusinessServices`, `DomainServices` | Sums of the modules above them, for TLC: each run is a run of one component while the others stay as they begin. |
| `BusinessServices_proofs` | The invariants and the action properties of the three business components, proved. |
| `ServerComponents_proofs` | The invariants and the action properties of the twelve server components, proved. |
| `DomainServices_proofs` | The invariants of the domain services, proved. |
| `MC...` | Symmetry definitions for TLC. Configurations without an `MC` module of their own run the module directly. |

The sums are sound because their components share no table in what is modelled of
them, or share one that each models the others' writes to (`Elsewhere` in
`DomainRebalancing`): interleaving two of them would add states and no behaviour
of either. Their variable `part` (`service`) says which one runs, and their
properties are conjunctions of the components' properties.

**State.** A table is a set of functions from row ids to column values; a row
that has not been inserted has status `"absent"`. Amounts are minor units: small
natural numbers. History variables (`credited`, `drawn`, `moved`, `effects`, `answers`,
`accepted`) are marked as such; no guard reads them except to bound them.

**Actions.** An action is one handler, or one statement of it where other
transactions can run in between. Early returns that write nothing are stuttering
steps of the modules whose step is a transaction, and early `Finish` steps of
the modules whose step is a statement. Each statement's write is computed from
what that transaction has read, not from the current row, so a lost update would
show. PostgreSQL itself (row locks, unique indexes, deadlock detection, rollback)
is modelled from how the code uses it and marked external in the map.

**Abstractions.** Ids, names, addresses and payloads are model values. Audit,
outbox and event rows are left out except where their foreign key takes a lock.
A webhook payload is its kind, the instruction it is about and whether its amount
agrees. The content of the runtime state is which commands have taken effect in
it. Some modules contain *mutants*: changed forms of the definition that follows
them, used to see that a property fails when the code does.

## 3. What is checked

Every configuration finishes within a few minutes on two cores.

| Run | Module, configuration | Question |
|---|---|---|
| `reservations` | `MCFundingReservations` | Do balances, reservations and obligations always add up, and does every account behave as an escrow? |
| `reservation_transactions` | `MCReservationTransactions` | Are the commands atomic when the statements of three connections interleave, are locks always given back, and where can waits form a cycle? |
| `reservation_progress` | `ReservationTransactions`, `MCReservationProgress.cfg` | Does every command end, also when it fulfils one obligation from a reservation of another? |
| `client_exchange` | `MCClientExchange` | Is each stage posted once and in order, whatever events and operators do? |
| `treasury_mint` | `TreasuryMint`, `MCTreasuryMint.cfg` | Is an account credited at most once per mint the provider has accepted? |
| `idempotent_commands` | `IdempotentCommands`, `MCIdempotentCommands.cfg` | Does a key take effect once, and is every request answered? |
| `treasury_payments` | `MCTreasuryPayments` | Is an instruction paid and posted once, whatever the two payment endpoints, retries and catalogue changes do? |
| `server_components` | `MCServerComponents` | Twelve components of the server: do records tell what happened when two requests overlap in any order of their statements? |
| `business_services` | `MCBusinessServices` | Do the copies that processes keep of an application and of a session ever speak for something the database has withdrawn, and are drafts kept until they are carried out? |
| `domain_services` | `MCDomainServices` | Do the in-memory services, whose calls keep what they did before they throw, spend only what was funded, move only what was approved, and close a day only when the mismatches of its reconciliation are resolved? |

The remaining runs end in a counterexample, each of one property that the
repository states and its code does not keep:

| Run | Property | What happens |
|---|---|---|
| `exchange_settles` | `StagesInOrderSettle` | The route is assigned while the USDC order is `blocked_dependency`. The update skips it, so its source account stays empty and the USDC confirmation always fails with `funding_settlement_accounting_incomplete`. A client's instruction therefore cannot be settled by simulating the two stages in order, which `apps/api/README.md` describes. |
| `mint_credit` | `CreditedByConfirmation` | Every event about an `internal_treasury_mint` in `pending_confirmation` finalizes it, a failure too. |

### The properties

A configuration's property may be a conjunction of named parts; the parts are
what the list explains.

* `ReservedIsHeld`, `NothingCreatedOrLost`: the two balance columns are the sum
  of what reservation rows say, although every handler recomputes them with
  clamps at zero (`reserved >= n ? reserved - n : 0`) that could hide a
  difference.
* `CancelledHoldsNothing`, `StatusMatchesFulfilment`, `TerminalRowsAreFinal`: a
  cancelled obligation has no hold left and never gets one; status and amount
  agree; no terminal row changes again.
* `CommandsAreAtomic`: the statement-level module implements the command-level
  one, so no commit overwrites what another has written after its reads.
  `LocksAreOrdered` joins `ReleasedConnectionsHoldNothing` and
  `CyclesPassThroughAnEvent`: the explicit locks are ordered; the only inversion
  is the key-share lock of `obligation_events`. `EveryCommandEnds`: that
  inversion is resolved by the deadlock detector.
* `PostedOncePerStage`, `RecordsAgree` (`BalancesMatchJournal`,
  `OrdersMatchConfirmations`, `ExceptionsHaveBreaks`),
  `ImplementsTwoStageSettlement`: journal, balance, orders, instruction and
  breaks tell one story under duplicated, reordered, mismatched and failing
  events.
* `CreditsBackedByMints`, `RecordsAgree` of the mint (`BalanceMatchesJournal`,
  `OrderCompletedWhenPosted`), `UntouchedDuringMint`: the row lock held across
  the provider call and the `pending_confirmation` guard are what keep
  one accepted mint from crediting twice. A second mint under a new key is another
  mint and credits again.
* `JournalPostedOnce`, `PaidOnce`, `InstructionMatchesRows`: `/payments/:id`
  finds treasury instructions too and writes any status over any other, so a
  settled instruction can be reopened, routed and executed again. The unique
  source event of the journal is what still holds then; without that endpoint,
  an instruction draws its amount once and only by settling.
  `DecisionsNameProfiles`, `EndedIsNotRerouted`: routing reads the catalogue
  without locks; the foreign key and the lock on the instruction are what keep
  its decision valid.
* `AtMostOneEffect`, `AnswersAreCommitted`, `ImplementsAtMostOnce`: the record's
  unique index, not the lookup, is what makes a key unique.
* `EffectsAreOnRecord`: whatever took effect is on record, whole and once, and
  the other way round. Runtime state (`EffectsMatchRecords`): lookup and clone
  happen without an `await` between them and an effect and its record live in one
  object, so that even lost updates lose or keep both. Webhooks
  (`AppliedWholeOrNot`, `AppliedOrDeadLettered`): the savepoint makes the effects
  of an event whole, and an event on record was applied or has its one dead
  letter, although deliveries overlap, throw half-way and repeat, and an event
  that failed is answered as a duplicate. Simulator routes (`FundsAreOnRecord`,
  `InInboxOnce`, `OutcomeIsReported`): in every copy of the state (the server's, the
  row's, a request's, the worker's) balances are what its journals and mints
  brought in and cover its active reservations, a valid event is in the inbox once,
  and a payment's outcome was reported for its latest transfer; slow requests, the
  worker, the scheduler and restarts overwrite whole states, so no copy is torn,
  though any may be old. Journal (`SourcePostedOnce`,
  `ReversedInOverlapOnly`): one entry per source event, whoever posts it; an
  entry is reversed no more often than commands can overlap.
* `ProvisionedOnce`: `WalletsShareTheClientsSet`, `SucceededJustWhenLinked`,
  `WalletIsInTheSet`, `OneTreasury`. Wallets of one client are made by commands
  for different accounts around provider calls, and a rollback forgets what the
  provider keeps; the locked client row is what makes them agree on a wallet set.
  The upsert of the integration row is all that keeps two activations from making
  a treasury each, and a command for a wire account does not pass it. Gateway:
  `OneObjectPerCall` (a request that is repeated carries the key of its first
  attempt) and `RegisteredAgainInOverlapOnly` (a registration whose answer was
  lost is found by the next call).
* `RowsAgree`: the types; `AcceptedHasUser` (an accepted invitation and a
  password have their user, although the whole identity is written back from
  stale and torn copies); `OneDefault` (an account has one usable default, by the
  partial unique index and not by the handlers, which clear and set in two
  statements); `EventsNameTheWithdrawal` (transitions of one redemption that
  overlap do not each record a withdrawal of their own); `SecondLegIsLinked` (a
  second leg that routing plans goes to one instrument, linked at that time, also
  by a default binding or an override, which ignore the filter).
* `AccountsFollowTheirLifecycle`: `RecordedAsTheyHappen` (a transition on record
  starts from the status the account really leaves, along a legal edge, also when
  the business user updates the same row) and `ActivatedForApprovedClient` (the
  client is approved at the moment of the activation).
* `NothingIsUndone`: of outflows in overlap, one that was submitted is not
  approved again, one that was cancelled does not change. `RoutedTheSameAgain`:
  while the links are the same, another routing decides the same, whatever order
  the rows of the bindings come in.
* `CopiesKeepTheirWord`: `DecisionsAreOnRecord`, `ApprovedClientIsTheApplications`,
  `DecidedHasClient`: no copy of the application that is written back invents a
  decision, the approved client is the application's although two first requests
  may make two ids, and a decision is refused when there is no client for it.
  `IndexFollowsSession`: a process accepts the tokens of the session it holds and
  no older ones. `GoneStaysGone`: a revoked session that no process remembers and
  no request carries does not come back. Drafts: `DraftsAreRetried` (one that was
  never carried out goes only when a retry that had not seen it writes back) and
  `CarriedOutOnce` (what was carried out and answered is not carried out again,
  except by retries in overlap).
* `FundsAddUp`: `NeverOverfunded`, `FundingNotUnderstated`, `PaidFromReservations`.
  Obligations are not overfunded, their funding never falls behind their
  reservations, and payments spend what was reserved, in spite of calls that
  throw half-way and balances that are projected anew.
* `MovesFollowApprovals`: `BalancesMatchRebalances` (each executed instruction
  moves its amount once and costs its source its fee),
  `RequiredApprovalsHaveTwoUsers` (a move whose recommendation required an approval
  was seen by two users), `AccountsFollowApprovals` (one account per client, for an
  application the provider approved, whatever stale copies submissions and polls
  store).
* `ReadyCloseIsReviewed`: when the daily close is ready, every account that still
  differs as it did in the latest reconciliation run has a break of that run with
  just that difference, and it is resolved. Runs report an account again and again,
  with other differences, and a resolved break of an earlier run must not stand in
  for a new one. `moved`, a history variable, excepts the accounts whose balance or
  report was set after the run: nobody has looked at those, and the close can still
  be ready.

### Bounds

| Bound | Why it is enough |
|---|---|
| `MaxUnits = 2` (reservations, transactions, mint) | 2 is the smallest amount that can be consumed, fulfilled or released in parts; 1 leaves every amount all-or-nothing. |
| `MaxUnits = 1` (client exchange, progress) | An instruction is settled and delivered whole, and the properties compare sums over two instructions; waiting does not depend on amounts. |
| two reservations, two obligations, two accounts | Two reservations compete for one balance; a fulfilment may name a reservation of another obligation; crediting one account must not touch the other. |
| two or three connections | A lost update takes two. Three make a chain of waits that is longer than one transaction's own locks. |
| three events for two instructions | Both stages of one instruction and a duplicate, late or foreign event. |
| two mint keys, two connections, two events | A retried and a concurrent mint, a confirmation and one event more. |
| one payment, profile, binding, obligation, reservation and account (payments) | Nothing relates two instructions but the reservation they may share, and a second one that draws on it is the consume command of `FundingReservations`; one profile that can be deleted while it is chosen is the race of the catalogue. The proofs cover any number. |
| `MaxRuns` | Bounds how often a handler runs: two runs of one key are what the protocol must tell apart. In the runtime state it bounds a counter that never exceeds 1. |
| two requests at a time (all parts of the two server sums) | The hazards there are a read that is stale when it is used; that takes one other request, which may itself commit any number of times between the statements of the first. |
| two reservations, one event (the first transfer failed), `MaxTransfers = 2`, `MaxBrought = 1`, `MaxRequests = 4` (simulator routes) | One reservation on each of the two units an account can have; an event about a transfer that a retry has replaced; a command before, between and after the load and the save of a process, beside a slow request. |
| `Writes = 2`, `MaxReprocess = 1`, two events | Two writes can be applied in part; one reprocessing meets a delivery of the same event; the second event shows that events do not touch each other. |
| `MaxInvitations = 2`, `MaxCalls = 3`, two emails, two role lists | An invitation, its acceptance and a third request that writes back what it read before them; two lists differ in whether they make an administrator. |
| `MaxDisabled = 1`, two accounts, two keys | One wallet is lost to the client's accounts and another command meets what it left. |
| `CreditLimit = 2`, two advances | Two advances fit or do not. |
| four journal keys, one settlement | Opening, entry and two reversals of one entry, and the source event a manual entry can take. |
| `DatabaseAway = TRUE`, two ids | Both ways to read an application, and an id made while another is in the database. |
| `MaxTokens = 2`, two servers, two session calls | A token before and after a refresh, and a process that has not seen the refresh. |
| `MaxAttempts = 2`, `MaxAsked = 3`, one key that is a UUID, one that is not | One attempt and its repetition; two calls in overlap and one that follows them. |
| seven bindings | Each selector, defaults whose leg may stay unresolved, and pairs that tie in score, in priority and in profile. |
| `Items` two, one of them a rail, `Retries` two, `MaxTimes = 2` | The retry of the effect and that of the button, a draft that needs an account and one that makes it. |
| amounts 1 and 2, `MaxOpening = 2`, `MaxReservations = 2`, `MaxCredits = 1`, `MaxOrders = 1` (funds) | A partial and a whole reservation or payment; the numbers bound how often a service is called, and an account's history may use all of them. |
| `Targets = {2}`, `Fees` 0, 1, `Thresholds` 1, 2, `MaxBalance = 2`, `MaxMovements = MaxInstructions = 2` (rebalancing) | Shortfalls of 1 and 2, one of them above or not above the threshold it is recommended with; a second instruction on a balance that has moved since the first. |
| `MaxRuns = MaxBreaks = 2` (reconciliation) | A break, resolved, and a new one for the same account in the next run, with the same difference or another. |
| `Explored` (a state constraint of `domain_services`) | Two instructions are explored as long as nothing is reconciled, one instruction around and between the two runs; reconciliation reads only balances, and `Elsewhere` moves those in every way. |

`CHECK_DEADLOCK FALSE` is set where the system may stop: finite sets of rows and
events run out.

### Fairness

* `ReservationTransactions!Fairness`: a connection keeps running its statements.
  Strong fairness of `Statement` is PostgreSQL's lock queue: a lock that is freed
  again and again is granted to a waiter. Weak fairness of `AbortVictim` is
  `deadlock_timeout`. Rollbacks are never assumed to happen.
* `IdempotentCommands!Fairness`: the same for waits on a unique index entry, and
  a statement that cannot succeed raises its error.
* The other modules state no liveness: operators, clients and the provider may
  stop for ever, and an event that failed is never retried by the code.

## 4. What is proved

The proofs hold for every value of the constants, given the assumptions declared
with them: the sets that sums run over (reservations, exchange instructions, keys of
payments, and the accounts that reconciliation lists) and that of concurrent provider
calls are finite; the bounds are natural
numbers, and where a history needs one step to say anything (`MaxTokens`,
`MaxTimes`, `MaxAttempts`) positive; those who post to the journal are finitely many;
`None` is neither an event, a connection nor a wallet set, and `"none"` no email and
no source or key of a journal entry; names of wallet sets are no idempotency keys; the ids of advances,
disbursements and redemptions differ (they are keys of one event table); a route
binding is known by its number; the statuses in which a command ends a reservation
are the three the endpoint takes; new rails are items.

**`FundingReservations`** (in `ReservationTransactions_proofs`). The invariant `IInv` is the conjunction of the
types, `ReservedIsHeld`, `NothingCreatedOrLost`, `CancelledHoldsNothing`,
`StatusMatchesFulfilment` and what they need to be inductive: a reservation
row has consumed at most its amount, and while it is active it names an account
and has something left; an obligation that does not exist has no amounts. The
upper bounds of the balance columns are not part of it: they follow from
`NothingCreatedOrLost`.
`ReservedIsHeld` alone is not inductive: the clamp in the consume branch is
harmless only because a reservation's remainder is one of the summands of the
reserved column. Sums are cardinalities of sets of unit indices, so a step that
moves `n` units is a step that adds or removes an interval of `n` elements;
lemmas about such intervals come first, then one lemma per action, then
`Invariant == Spec => []IInv` and the properties as corollaries:
`TypeCorrect`, `ReservedIsHeldAlways`, `NothingCreatedOrLostAlways`,
`CancelledHoldsNothingAlways`, `StatusMatchesFulfilmentAlways`,
`TerminalRowsAreFinalAlways`. `EscrowImplemented` maps every step to a `Fund`,
`Hold`, `GiveBack` or `Spend` of `Escrow`, or to a stutter.

**`IdempotentCommands_proofs`.** `IInv` adds three facts to the properties:
`RecordsAreEffects` (a committed record is the effect committed with it),
`CommitsAreFirst` (a connection about to commit holds the key's index entry and
no record is committed) and `RunsAreNumbered` (a run that is about to be
recorded has a response). They give
`TypeCorrect`, `AtMostOneEffectAlways`, `AnswersAreCommittedAlways` and
`AtMostOnceImplemented`.

**`TreasuryPayments_proofs`.** `IInv` adds `OpenRows` to the properties: an
instruction that a routing transaction holds is neither settled nor cancelled,
and every instruction pays a positive amount. The first is what
`EndedIsNotReroutedAlways` follows from; the second makes each draw a consume
command of `FundingReservations`, which is `ReservationsImplemented`. Since every
behaviour of `TreasuryPayments` is one of `FundingReservations`, what is proved
there holds with payments running too.

**`ReservationTransactions`**. A committed value is not overwritten
because the row it was computed from is locked; the invariant `TxIInv` says so
statement by statement. `Progress(w)` lists, per command, the statements still to
come and what holds between two of them: which rows the connection has locked,
that what it has read of them is what they hold (`HasObligation`,
`HasReservation`, `HasBalance`), and that the conditions of its early returns
still hold, also those on rows that it locks through another one
(a reservation's account, an obligation that has no active reservation and gets
none while its row is locked). `LockedRowsExist` and `CreatesDiffer` exclude that an
insert meets a row somebody has locked or is about to insert. With `TxIInv` every
commit is the command of `FundingReservations` computed from the current rows
(`CommandsAreAtomicAlways`), so all that is proved of `FundingReservations` holds
of the transactions (`EscrowKeptByTransactions`). `InOrder(w)` says that a
connection waits for a row of a higher rank than all it has locked, so along a
chain of waits without an insert of an event the ranks grow; there are three of
them, and no cycle (`LocksAreOrderedAlways`).

**`ClientExchange_proofs`.** `RecordsAgree` and `PostedOncePerStage` follow from
`Confirmations`: a stage of an instruction is in the journal just when the
instruction names the event that confirmed it, and that event was processed, is
of the right kind and about that instruction. The rest of `IInv` says that rows
exist before others refer to them (`InstructionRows`, `TransitionRows`,
`BreaksOfEvents`). Sums of amounts are cardinalities of sets of units, as above.
`PromiseKept` maps a wire confirmation to `SettleFiat`, a delivery confirmation to
`DeliverUsdc` and every other step to a stutter.

**`TreasuryMint_proofs`.** `CreditsBackedByMints` relates sums over the journal to
calls the provider has accepted. It is inductive with `CallRows` (a command in
progress holds a row that exists under a key without an answer, and what it is
about to commit has been accepted), `CallsExclude` (no two calls share a row or a
key) and `PostedByEvents` (an event is behind one posting only).
`ShieldedDuringMint` is the action property, from `CallRows` and the guards that
wait for the row lock.

**`BusinessServices_proofs`.** One inductive invariant per component; a step of
the sum is a step of one component and a stutter of the others.
`OnboardingInv`: a request past its reading works on an application, and only
saves and responses come to the statement that writes a payload
(`VisitsHaveCopies`); then the copies it writes back show no decision but those on
record. `SessionsInv`: no session before a token was issued (`NothingBeforeSignIn`)
and `IndexFollowsSession`. `DraftsInv`: what a retry has read is split into what it
has yet to do, what it could not do and what was carried out (`RoundsAdvance`);
items in drafts and retries have ended their save, and two retries share only
unsure ones (`DraftsAreSaved`); what was carried out for sure is before no retry
(`DoneIsDone`). `CopiesKeepTheirWordAlways` and `GoneStaysGoneAlways` follow.

**`ServerComponents_proofs`.** The same for the twelve components of the server
(`ServerInvariant`), whose properties it gives one after the other.

* `LifecycleInv`: a command that has locked an account is alone with it and has read
  the status it still has (`LockedIsCurrent`), which
  `AccountsFollowTheirLifecycleAlways` follows from.
* `OutflowsInv`: a transaction that has locked a row is alone with it and knows what
  it holds (`DesksHoldRows`). `RoutingInv`: a decision is what the rule leads to
  (`DecidedByRule`), and the order on candidates is total, so the rule leads to one
  row. Both give `NothingIsUndoneAlways`.
* `ProvisionedOnceAlways` has three parts. `ProvisioningInv`: while a command is under
  way no other runs, a wallet set is made only for a client without one, and until it
  is the client's nobody else records a wallet (`AttemptsKnow`); so every linked wallet
  is of the client's set or a named one, and what a rollback takes away it takes from
  both tables. `ActivationInv`: what activations have found are wallets in
  their sets (`WalletsInSets`), and one at a time is past its upsert, whose finding
  "no treasury client" or "no central account" still holds when it commits
  (`OneCommits`). `GatewayInv`: what a call has made at the provider has the kind and
  the key the call sends, also when it is sent again (`ObjectsOfCalls`), so objects that
  differ have different keys; each call that has seen no wire account and has yet to make
  its own takes one of the places of those in overlap (`CallersRegister`).
* `EffectsAreOnRecordAlways` has four. `RuntimeInv`: what a handler works on, what is
  saved and what the server holds are copies in which a command has its effect just
  when it is on record, and a handler runs only commands its copy has no record of.
  `WebhooksInv`: an event that is being applied is with one delivery
  (`IngestedAlone`), and the effects a transaction has written are those of the
  events it is about to record (`EffectsOnRecord`). `JournalsInv`: entries about to
  be committed have sources no entry has, and different ones (`SourcesDiffer`); each
  reversal an entry has had is of one poster who read it unreversed
  (`PostersReverse`). `SimulatorInv`: every copy of the runtime state (stored, held
  by the server, with the worker, the scheduler or a request) is `Recorded`, that is,
  tells of itself that funds, events and payments are on record.
* `RowsAgreeAlways` needs two more. `IdentityInv`: whatever mixture of old and new
  tables a request has read, its accepted invitations and passwords are of users in
  the table, since users are never deleted and the tables themselves agree (`Known`);
  what it is about to write are accepted invitations and passwords of users in the
  table or in the draft (`Backed`). `LinkingInv`: two usable defaults are of different
  accounts (`DefaultsDiffer`), which each insert and update keeps by the index alone,
  and what a patch has locked exists (`PatchesExist`). Events of withdrawals follow
  from `OutflowsInv`, second legs from `RoutingInv`.

**`DomainServices_proofs`.** One inductive invariant per service, as above. A sum is the
number of units of a function (`Sums`), and every step of the services changes a sum
by one summand, so `OneMoreAdds` (one thing more adds its amount) takes the place of
an induction over sets.

* `FundsInv`: reservations are of approved obligations, and one whose release threw is
  not active (`ReservationsAreApproved`); then an activation is within what an
  obligation still needs, and a release that throws lowers what is allocated and
  leaves the funding shown, which is why the obligation shows too much and never too
  little (`LessShowsLess`). `PaidFor`: what an account has reserved and has paid is
  covered by reservations held; each action moves an amount between its terms or only
  lowers the first. `FundsAddUpAlways` follows.
* `RebalancingInv`: an instruction moves funds between two accounts, and one that
  required an approval waits or was seen by two users (`InstructionsAreSeen`); an
  execution is one executed instruction more, which adds to one account what it takes,
  less its fee, from another (`Balanced`). `RunsReport`: the latest run has a break
  for every difference that has stood since, resolved or not; a step that sets a balance
  or a report excepts the account, and treating a break leaves its run, account and
  difference alone. With the condition for a close, that no break is unresolved, it
  gives `ReadyCloseIsReviewedAlways`.
* `OnboardingInv`: a call that waits for the provider has read an application or a
  client that is still there and about the same client (`CallsHaveRead`), and what it
  was told the provider has said. With the other two it gives
  `MovesFollowApprovalsAlways`.

**Only model-checked.** Liveness under fairness (`EveryCommandEnds` and the other
temporal properties with `~>`) is out of the prover's reach. Every safety property that
a run checks, invariant or action property, is stated by a theorem. (Where a
proof needs the least or the greatest number of a set, as for the
newest invitation of a user, `Least` and `Greatest` derive it from the library's
theorem on well-founded relations, whose parameter is a set.)

## 5. What the modules leave out

* Tenant separation, roles and request validation: they decide whether a handler
  runs, and every handler of the models may run at any time.
* A reservation's amount is never compared with the principal of its obligation,
  and a fulfilled obligation may keep active reservations. Both are modelled as
  the code has them; no property says otherwise.
* In `TreasuryPayments` and `RouteSelection`: external payments, the evidence of a
  routing (conditions of profiles, amounts and regions of bindings are one filter),
  and the exception of a missing ledger account (migrations create the two accounts
  an execution posts to).
* Commands that are refused after they have written. The Postgres path commits
  their writes and records no answer, so a repetition writes again.
  `IdempotentCommands` counts the effects of successful commands only.
* The mint without a funding instruction, and the comparison of the minted amount
  with the instruction's (there is none in the code).
* What commands do to the data of the runtime state other than funds, payments and
  webhooks (clients, accounts, recommendations, breaks), and replies: a recorded
  answer is replayed with status 200 whatever it was. Journal reversals, redemptions
  and obligations of the simulator change a status and nothing else.
* In `DomainRebalancing` the threshold and the fee are inputs of each recommendation,
  as in the code, which keeps no policy for them: a maker who names a threshold not
  below the shortfall needs no approval and may execute alone. The promise about two
  users is therefore one about `approvalRequired`, not about large amounts. What the
  daily close reports besides its status, and its trial balance, which compares a sum
  with itself, are left out.
* What `Circle` itself does beyond its answers: the modules let a provider call
  succeed, fail, or succeed and go unanswered.

Not modelled at all:

* The web application except `AdaDrafts`, the OpenAPI document and the seed and
  build scripts. They are more than half of the implementation's lines and keep no
  state that the server relies on: forms, tables, a schema, static data.
* Invitations of business users and their API keys, and the review path over
  Supabase's REST interface: one request each, whose steps are separate writes.
  What they leave half done is listed below.
* The look-up of the instruction a webhook event is about; `ClientExchange` and
  `TreasuryMint` start from the instruction.
* The read-only endpoints (lists, dashboards, exports) of every handler file, and
  the mapping of rows to JSON.
* The in-memory router's other demo handlers: with a PostgreSQL URL they never run
  for routes that have a durable handler, and without one each is a step on a clone
  of the state, which `ApiRuntimeState` and `SimulatorRoutes` model.
* Migrations as such. The unique indexes, foreign keys, triggers, checks and
  missing columns the modules depend on are in those modules.

### Behaviour worth knowing

Modelling brought out behaviour that no document of the repository speaks against
and no run is about. All of it is in the actions of the modules named.

*Funding and payments.*
* A cancel of an exchange instruction reads the status without a lock
  (`postgres-route-handler.ts:4272`) and writes it later (`:4285`): a wire
  confirmation in between is cancelled over (`ClientExchange`).
* Consuming a reservation that is already consumed answers 200, so a fulfilment
  or a payment that names it goes on without funds of its own
  (`FulfilFrom`, `DrawOnReservation`). A retry, or a payment of
  `/payments/internal`, settles without a routing decision (`Executable`).
* A journal entry is reversed twice by two commands in overlap, and a manual entry
  may take the source event of a settlement, which then cannot be posted
  (`LedgerJournals`).
* Cancelled advances keep counting against the credit line, and a line with
  nothing left skips its check, because an available amount of 0 reads as no
  limit; resubmitting a disbursement replaces its transfer id by a simulated one;
  a redemption goes back from `complete` to `submitted` (`TreasuryOutflows`).

* Routing overwrites the legs and the policy that creation planned, so an
  externalization that was asked for is lost; a candidate whose second leg cannot be
  resolved ends in 409 although the next one may fit (`RouteSelection`).
* An event that names only an account is applied to the one open instruction of
  that account, also when the one it is about has been cancelled.

*Circle and drafts.*
* Transfers carry no key, so one that is repeated after a timeout is made twice; a
  wallet command whose key is not a UUID gets a random one. Two registrations of a
  bank account in overlap make every later one fail ("Multiple existing"); accounts
  are compared by their last four digits; a list that fails counts as empty
  (`CircleGateway`).
* A retry of drafts overwrites those that were added meanwhile; two retries carry
  out a draft twice, and so does one whose answer was lost; a new rail fails in
  every retry until the token changes, because `retryDrafts` keeps the accounts of
  the render it was made in (`AdaDrafts`).

*Runtime state and identity.*
* Two requests that clone the same runtime state: the second to commit erases the
  first, record and all (`db/state-transaction.ts:17`). The worker and the
  scheduler write back the whole snapshot they loaded, so a success a client was
  told of may be missing after a restart. With a PostgreSQL URL no snapshot is
  written at all (`ApiRuntimeState`).
* Requests in overlap can make a second super administrator, disable the last
  administrator, put roles back or lose them; a password reset puts back the
  invitation's role; a user can be active without a password
  (`InternalIdentity`). The tests of `users.test.ts` check each rule with
  one request at a time.

*Simulator routes* (`SimulatorRoutes`).
* Releasing, expiring or cancelling a reservation never gives its amount back to the
  balance, and a released one can be activated again, which takes nothing.
* Every `retry` and `refresh-status` of a payment asks the provider for another
  transfer; a refresh completes it whatever happened to the first. The worker applies
  an event to a cancelled payment as to any other.
* A delivery whose signature is invalid is kept, and the valid delivery of the same
  event is then a duplicate.
* A request that only reads replaces the whole state by the clone it began with, so a
  slow one undoes the commands that ran meanwhile.
* Nothing in the processing of an event throws, so its retries and dead letters are
  never reached.

*Accounts and provisioning.*
* Migration 0039 makes `business_client_id` of an instrument obligatory; a
  provisioning command that inserts none fails after the provider has made the
  wallet. A provisioning that failed is replayed with status 200; a recovered
  instrument records the client's wallet set, whichever set its wallet is in
  (`CircleProvisioning`).
* Two wire-account commands in overlap each make a treasury client
  (`TenantActivation`).
* A patch of a client sets `active`, `pending` or `restricted` from any status and
  leaves no record; `unrestrict` and `unfreeze` pass no gates; the gates count
  instruments without locking them; the onboarding writes the client's status
  whatever it was (`AccountLifecycle`).
* Instruments without a rail type escape the unique index of defaults, a default
  on a restricted instrument leaves no usable default, two patches in overlap
  can deadlock, and `rail_code` is a column that no migration adds
  (`LinkedInstruments`).

*Onboarding and sessions.*
* A reviewer who approves between the writes of a submission leaves an approved
  application whose client is only submitted (`BusinessOnboarding`).
* In `decideWithPostgres` a `.catch(() => undefined)` around a statement cannot
  save the transaction that the failed statement has aborted.

* A decision over Supabase writes application, action and client in requests of
  their own: a failure leaves an approved application without the others. Inviting
  a user whom the provider has invited and who has not registered answers "existing
  account". A business API key whose rotation names invalid scopes is revoked
  without a successor. None of the three is modelled.

*Webhooks and domain services.*
* An event whose processing failed is answered as a duplicate for ever; marking it
  as reprocessed applies nothing (`WebhookInbox`).
* Two webhook events about one deposit credit it twice (`src/sprint5/settlement.ts:94`),
  a timeout is recorded over a complete external payment
  (`src/sprint6/external-redemption.ts:148`), a payment from an account to itself
  loses its reservation, and a new projection discards deposits and reservations
  (`DomainFunds`).
* The daily close is ready when no reconciliation has ever run, and when balances or
  reports have changed since the latest run
  (`src/sprint7/liquidity-reconciliation.ts:247`); a run repeats the break of an
  account that has one (`DomainRebalancing`).

## 6. Plan

Modelled: every component of section 1 except the last row; what each part leaves
out is in section 5. Next:

1. Refinements where so far only invariants are proved: each key of the runtime
   state and each webhook event as an instance of `AtMostOnce`, as the keys of
   `IdempotentCommands` are.
2. What an obligation of `FundingReservations` promises its owner (open, then
   fulfilled or cancelled for good) as an abstract specification beside `Escrow`.
