---------------------------- MODULE ServerComponents ----------------------------
(***************************************************************************)
(* Components of the API server that share no table with each other in     *)
(* what is modelled of them, side by side: each run of this specification  *)
(* is a run of one of them, while the others stay as they begin.           *)
(***************************************************************************)
EXTENDS Naturals

CONSTANTS
  Commands, Handlers, MaxRuns, Faults,                                     \* ApiRuntimeState
  Events, Deliveries, Writes, MaxReprocess,                                \* WebhookInbox
  Emails, RoleLists, Admin, People, MaxInvitations, MaxCalls,              \* InternalIdentity
  Accounts, ProvisionKeys, NamedSets, Provisioners, MaxDisabled,           \* CircleProvisioning
  ActivationKeys, OwnSets, Activators, WireClerks,                         \* TenantActivation
  Actors, CircleRail,                                                      \* AccountLifecycle
  Ledgers, Instruments, Editors,                                           \* LinkedInstruments
  JournalKeys, Settlements, Posters,                                       \* LedgerJournals
  CreditLimit, Advances, Disbursements, Redemptions, Desks,                \* TreasuryOutflows
  CallKeys, OtherKeys, Callers, MaxAttempts, MaxAsked,                     \* CircleGateway
  Bindings,                                                                \* RouteSelection
  Reservations, ProviderEvents, MaxTransfers, MaxBrought, MaxRequests,     \* SimulatorRoutes
  Requests

VARIABLES
  part,  \* the component that runs
  memory, snapshot, request, job,
  inbox, deadLetters, effects, breaks, delivery,
  users, roles, invitations, secrets, call, calls,
  strictSchema, clientSet, instruments, operations, provisioned, provisioning,
  integration, treasuryClients, centralAccounts, activation, clerk,
  client, account, linked, transition, act,
  railColumns, instrument, edit,
  entries, poster,
  advance, disbursement, redemption, executions, desk,
  objects, asked, caller,
  catalogue, destination, instruction, decision,
  subject, state, row, pending, process, transfers, requests

Runtime == INSTANCE ApiRuntimeState
Webhooks == INSTANCE WebhookInbox
Identity == INSTANCE InternalIdentity
Provisioning == INSTANCE CircleProvisioning
Activation == INSTANCE TenantActivation
Lifecycle == INSTANCE AccountLifecycle
Linking == INSTANCE LinkedInstruments
Journals == INSTANCE LedgerJournals
Outflows == INSTANCE TreasuryOutflows
Gateway == INSTANCE CircleGateway
Routes == INSTANCE RouteSelection
Simulator == INSTANCE SimulatorRoutes WITH Events <- ProviderEvents

ASSUME RuntimeAssumption == Runtime!MaxRunsNat /\ Runtime!FaultsKnown
ASSUME WebhooksAssumption == Webhooks!WritesPositive /\ Webhooks!MaxReprocessNat
ASSUME IdentityAssumption == Identity!AdminEmail /\ Identity!BoundsNat
ASSUME ProvisioningAssumption == Provisioning!MaxDisabledNat /\ Provisioning!SetsAreNew
ASSUME LifecycleKnown == Lifecycle!LifecycleAssumption
ASSUME JournalsKnown == Journals!JournalsAssumption
ASSUME OutflowsAssumption == Outflows!LimitNat /\ Outflows!TablesDiffer /\ Outflows!NoneIsNoDesk
ASSUME GatewayBounds == Gateway!GatewayAssumption
ASSUME BindingsKnown == Routes!BindingsAssumption
ASSUME SimulatorBounds == Simulator!SimulatorAssumption

runtimeVars == <<memory, snapshot, request, job>>
webhookVars == <<inbox, deadLetters, effects, breaks, delivery>>
identityVars == <<users, roles, invitations, secrets, call, calls>>
provisioningVars == <<strictSchema, clientSet, instruments, operations, provisioned, provisioning>>
activationVars == <<integration, treasuryClients, centralAccounts, activation, clerk>>
lifecycleVars == <<client, account, linked, transition, act>>
linkingVars == <<railColumns, instrument, edit>>
journalVars == <<entries, poster>>
outflowVars == <<advance, disbursement, redemption, executions, desk>>
gatewayVars == <<objects, asked, caller>>
routingVars == <<catalogue, destination, instruction, decision>>
simulatorVars == <<subject, state, row, pending, process, transfers, requests>>
vars == <<part, runtimeVars, webhookVars, identityVars, provisioningVars, activationVars,
          lifecycleVars, linkingVars, journalVars, outflowVars, gatewayVars, routingVars, simulatorVars>>

Init ==
  /\ part \in {"runtime", "webhooks", "identity", "provisioning", "activation",
               "lifecycle", "linking", "journals", "outflows", "gateway", "routing", "simulator"}
  /\ Runtime!Init /\ Webhooks!Init /\ Identity!Init /\ Provisioning!Init /\ Activation!Init
  /\ Lifecycle!Init /\ Linking!Init /\ Journals!Init /\ Outflows!Init /\ Gateway!Init
  /\ Routes!Init /\ Simulator!Init
  /\ part # "provisioning" => strictSchema = TRUE
  /\ part # "activation" => centralAccounts = <<>>
  /\ part # "linking" => railColumns = TRUE
  /\ part # "routing" => catalogue = {}
  /\ part # "simulator" => subject = "funds"

RuntimeStep ==
  /\ part = "runtime" /\ Runtime!Next
  /\ UNCHANGED <<part, webhookVars, identityVars, provisioningVars, activationVars,
                  lifecycleVars, linkingVars, journalVars, outflowVars, gatewayVars, routingVars, simulatorVars>>

WebhookStep ==
  /\ part = "webhooks" /\ Webhooks!Next
  /\ UNCHANGED <<part, runtimeVars, identityVars, provisioningVars, activationVars,
                  lifecycleVars, linkingVars, journalVars, outflowVars, gatewayVars, routingVars, simulatorVars>>

IdentityStep ==
  /\ part = "identity" /\ Identity!Next
  /\ UNCHANGED <<part, runtimeVars, webhookVars, provisioningVars, activationVars,
                  lifecycleVars, linkingVars, journalVars, outflowVars, gatewayVars, routingVars, simulatorVars>>

ProvisioningStep ==
  /\ part = "provisioning" /\ Provisioning!Next
  /\ UNCHANGED <<part, runtimeVars, webhookVars, identityVars, activationVars,
                  lifecycleVars, linkingVars, journalVars, outflowVars, gatewayVars, routingVars, simulatorVars>>

ActivationStep ==
  /\ part = "activation" /\ Activation!Next
  /\ UNCHANGED <<part, runtimeVars, webhookVars, identityVars, provisioningVars,
                  lifecycleVars, linkingVars, journalVars, outflowVars, gatewayVars, routingVars, simulatorVars>>

LifecycleStep ==
  /\ part = "lifecycle" /\ Lifecycle!Next
  /\ UNCHANGED <<part, runtimeVars, webhookVars, identityVars, provisioningVars, activationVars,
                  linkingVars, journalVars, outflowVars, gatewayVars, routingVars, simulatorVars>>

LinkingStep ==
  /\ part = "linking" /\ Linking!Next
  /\ UNCHANGED <<part, runtimeVars, webhookVars, identityVars, provisioningVars, activationVars,
                  lifecycleVars, journalVars, outflowVars, gatewayVars, routingVars, simulatorVars>>

JournalStep ==
  /\ part = "journals" /\ Journals!Next
  /\ UNCHANGED <<part, runtimeVars, webhookVars, identityVars, provisioningVars, activationVars,
                  lifecycleVars, linkingVars, outflowVars, gatewayVars, routingVars, simulatorVars>>

OutflowStep ==
  /\ part = "outflows" /\ Outflows!Next
  /\ UNCHANGED <<part, runtimeVars, webhookVars, identityVars, provisioningVars, activationVars,
                  lifecycleVars, linkingVars, journalVars, gatewayVars, routingVars, simulatorVars>>

GatewayStep ==
  /\ part = "gateway" /\ Gateway!Next
  /\ UNCHANGED <<part, runtimeVars, webhookVars, identityVars, provisioningVars, activationVars,
                  lifecycleVars, linkingVars, journalVars, outflowVars, routingVars, simulatorVars>>

RoutingStep ==
  /\ part = "routing" /\ Routes!Next
  /\ UNCHANGED <<part, runtimeVars, webhookVars, identityVars, provisioningVars, activationVars,
                  lifecycleVars, linkingVars, journalVars, outflowVars, gatewayVars, simulatorVars>>

SimulatorStep ==
  /\ part = "simulator" /\ Simulator!Next
  /\ UNCHANGED <<part, runtimeVars, webhookVars, identityVars, provisioningVars, activationVars,
                  lifecycleVars, linkingVars, journalVars, outflowVars, gatewayVars, routingVars>>

Next ==
  \/ RuntimeStep
  \/ WebhookStep
  \/ IdentityStep
  \/ ProvisioningStep
  \/ ActivationStep
  \/ LifecycleStep
  \/ LinkingStep
  \/ JournalStep
  \/ OutflowStep
  \/ GatewayStep
  \/ RoutingStep
  \/ SimulatorStep

Spec == Init /\ [][Next]_vars

-----------------------------------------------------------------------------
(* The properties; the conjuncts are stated, and say what they mean, in the *)
(* modules of the components.                                               *)

Types ==
  /\ part = "runtime" => Runtime!TypeOK
  /\ part = "webhooks" => Webhooks!TypeOK
  /\ part = "identity" => Identity!TypeOK
  /\ part = "provisioning" => Provisioning!TypeOK
  /\ part = "activation" => Activation!TypeOK
  /\ part = "lifecycle" => Lifecycle!TypeOK
  /\ part = "linking" => Linking!TypeOK
  /\ part = "journals" => Journals!TypeOK
  /\ part = "outflows" => Outflows!TypeOK
  /\ part = "gateway" => Gateway!TypeOK
  /\ part = "routing" => Routes!TypeOK
  /\ part = "simulator" => Simulator!TypeOK

\* What has had an effect is on record, whole and once: a command and its
\* idempotency record (server.ts, state-transaction.ts), a webhook event and its
\* dead letter (circle-webhook-service.ts), a source event and a reversal in the
\* journal (postgres-route-handler.ts, migration 0001), and, in every copy of the
\* runtime state, funds, events and the outcome of payments (router.ts, workers/).
EffectsAreOnRecord ==
  /\ part = "runtime" => Runtime!EffectsMatchRecords
  /\ part = "webhooks" => Webhooks!AppliedWholeOrNot
  /\ part = "webhooks" => Webhooks!AppliedOrDeadLettered
  /\ part = "journals" => Journals!SourcePostedOnce
  /\ part = "journals" => Journals!ReversedInOverlapOnly
  /\ part = "simulator" => Simulator!FundsAreOnRecord
  /\ part = "simulator" => Simulator!InInboxOnce
  /\ part = "simulator" => Simulator!OutcomeIsReported

\* What the provider has made is on record where it belongs: one wallet set per
\* client, success with the wallet it made (ada-circle-provision-service.ts), the
\* central wallet in the set on record, one treasury client and one central
\* account per tenant (tenant-activation-service.ts), one object for a call whose
\* request is repeated (http-transport.ts, circle/index.ts).
ProvisionedOnce ==
  /\ part = "provisioning" => Provisioning!WalletsShareTheClientsSet
  /\ part = "provisioning" => Provisioning!SucceededJustWhenLinked
  /\ part = "activation" => Activation!WalletIsInTheSet
  /\ part = "activation" => Activation!OneTreasury
  /\ part = "gateway" => Gateway!OneObjectPerCall
  /\ part = "gateway" => Gateway!RegisteredAgainInOverlapOnly

\* Rows that refer to each other agree, and keep their types: an accepted
\* invitation and its user (internal-identity-store.ts), an account and its
\* default instrument (self-registration.ts), a withdrawal and its events, a leg
\* that is planned and the instrument it goes to (postgres-route-handler.ts).
RowsAgree ==
  /\ Types
  /\ part = "identity" => Identity!AcceptedHasUser
  /\ part = "linking" => Linking!OneDefault
  /\ part = "outflows" => Outflows!EventsNameTheWithdrawal
  /\ part = "routing" => Routes!SecondLegIsLinked

\* postgres-route-handler.ts, transitionAccount and the activation gates: the
\* record tells what happened, and activation is for an approved client only.
AccountsFollowTheirLifecycle ==
  /\ Lifecycle!RecordedAsTheyHappen
  /\ Lifecycle!ActivatedForApprovedClient

\* postgres-route-handler.ts: transitions in overlap do not undo each other,
\* and routing again does not change the route.
NothingIsUndone ==
  /\ Outflows!NothingIsUndone
  /\ Routes!RoutedTheSameAgain
=============================================================================
