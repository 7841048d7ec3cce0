--------------------------- MODULE TenantActivation ---------------------------
(***************************************************************************)
(* Activation of the platform tenant at Circle                             *)
(* (services/tenant-activation-service.ts and its repository): a wallet    *)
(* set and a wallet for the tenant, the client that stands for the         *)
(* tenant's treasury, and the tenant's central account.  Activations       *)
(* overlap; nothing is locked until the upsert of the integration row,     *)
(* which an activation then holds until its transaction ends.  The command *)
(* for a wire account (createFiatWireAccount of                            *)
(* db/postgres-route-handler.ts) makes the treasury client, too, and holds *)
(* nothing.                                                                *)
(*                                                                         *)
(* A wallet set the provider makes is named by the activation's key, a     *)
(* wallet by the key and the set it was made in; clients are numbered as   *)
(* they are made.  Names, chains, the wire instrument and audit rows are   *)
(* left out.                                                               *)
(***************************************************************************)
EXTENDS Naturals, Sequences, FiniteSets, SequencesExt

CONSTANTS
  ActivationKeys,   \* idempotency keys of the activations
  OwnSets,          \* wallet sets an activation may name
  Activators,       \* activations in progress at a time
  WireClerks        \* commands for a wire account, each given once

VARIABLES
  integration,      \* the row of platform_tenant_circle_integrations
  treasuryClients,  \* the clients named as the treasury's, by created_at
  centralAccounts,  \* client of the accounts with purpose tenant_central, oldest first:
                    \* the number of a treasury client, or 0 for another client
  activation,       \* the activations' transactions
  clerk             \* where the commands for a wire account are

vars == <<integration, treasuryClients, centralAccounts, activation, clerk>>
rows == <<integration, treasuryClients, centralAccounts, clerk>>

Idle == [at |-> "idle"]
None == "none"
NoIntegration == [set |-> None, wallet |-> <<None, None>>]

\* An account with the purpose may have been opened for another client before.
Init ==
  /\ integration = NoIntegration
  /\ treasuryClients = <<>>
  /\ centralAccounts \in {<<>>, <<0>>}
  /\ activation = [x \in Activators |-> Idle]
  /\ clerk = [w \in WireClerks |-> "idle"]

-----------------------------------------------------------------------------
Continue(x, place) == activation' = [activation EXCEPT ![x].at = place]

\* findCircleIntegration
Start(x, k, named) ==
  /\ activation[x] = Idle
  /\ LET set == IF named # None THEN named ELSE integration.set
     IN  activation' = [activation EXCEPT ![x] =
           [at |-> IF set = None THEN "set" ELSE "wallet", key |-> k, set |-> set, found |-> integration]]
  /\ UNCHANGED rows

\* initializeWalletSet
MakeWalletSet(x) ==
  /\ activation[x].at = "set"
  /\ activation' = [activation EXCEPT ![x].at = "wallet", ![x].set = activation[x].key]
  /\ UNCHANGED rows

\* The wallet that was found is kept if it is of the wallet set.
\* Mutant: whatever the wallet set.
KeepsAnyWallet(t) == t.found.wallet # <<None, None>>
KeepsWallet(t) == t.found.wallet # <<None, None>> /\ t.found.set = t.set

\* initializeTenantWallet, unless the wallet is kept.
MakeWallet(x) ==
  LET t == activation[x]
  IN  /\ t.at = "wallet"
      /\ activation' = [activation EXCEPT ![x] =
           [at |-> "upsert", set |-> t.set, wallet |-> IF KeepsWallet(t) THEN t.found.wallet ELSE <<t.key, t.set>>]]
      /\ UNCHANGED rows

\* The provider refuses or cannot be reached: answered 400 or 502, nothing is
\* recorded; or a statement fails, the connection is lost, the server stops.
Fail(x) ==
  /\ activation[x] # Idle
  /\ activation' = [activation EXCEPT ![x] = Idle]
  /\ UNCHANGED rows

\* An insert or update of the row waits for another that has not ended.
\* Mutant: it does not.
Unlocked(x) == TRUE
RowFree(x) == \A y \in Activators \ {x} : activation[y].at \notin {"find", "commit"}

\* upsertCircleIntegration
Upsert(x) ==
  /\ activation[x].at = "upsert"
  /\ RowFree(x)
  /\ Continue(x, "find")
  /\ UNCHANGED rows

\* The time a row is made at is taken before its transaction ends: the new
\* client may turn out older than others.
MadeBy(maker) ==
  LET new == [number |-> Len(treasuryClients) + 1, status |-> "approved", by |-> maker]
  IN  {InsertAt(treasuryClients, n, new) : n \in 1 .. Len(treasuryClients) + 1}

Approved(number) ==
  [n \in DOMAIN treasuryClients |->
     IF treasuryClients[n].number = number THEN [treasuryClients[n] EXCEPT !.status = "approved"] ELSE treasuryClients[n]]

Oldest == IF treasuryClients = <<>> THEN 0 ELSE treasuryClients[1].number

\* findTenantPseudoClient, findTenantCentralAda: what there is to write.
Find(x) ==
  LET t == activation[x]
  IN  /\ t.at = "find"
      /\ activation' = [activation EXCEPT ![x] =
           [at |-> "commit", set |-> t.set, wallet |-> t.wallet,
            client |-> Oldest, makesAccount |-> centralAccounts = <<>>]]
      /\ UNCHANGED rows

\* The transaction ends: the client is created or approved, the account
\* created or linked to the client.
Commit(x) ==
  LET t == activation[x]
      mine == IF t.client = 0 THEN Len(treasuryClients) + 1 ELSE t.client
  IN  /\ t.at = "commit"
      /\ integration' = [set |-> t.set, wallet |-> t.wallet]
      /\ treasuryClients' \in IF t.client = 0 THEN MadeBy("activation") ELSE {Approved(t.client)}
      /\ centralAccounts' = IF t.makesAccount THEN Append(centralAccounts, mine)
                            ELSE [centralAccounts EXCEPT ![1] = mine]
      /\ activation' = [activation EXCEPT ![x] = Idle]
      /\ UNCHANGED clerk

\* ensureTenantPseudoBusinessClient: a client that is found is approved.
ClerkFinds(w) ==
  /\ clerk[w] = "idle"
  /\ IF Oldest = 0
     THEN clerk' = [clerk EXCEPT ![w] = "create"] /\ UNCHANGED treasuryClients
     ELSE clerk' = [clerk EXCEPT ![w] = "done"] /\ treasuryClients' = Approved(Oldest)
  /\ UNCHANGED <<integration, centralAccounts, activation>>

\* createFiatWireAccount goes on to a target account, which a client just made
\* has none of unless the request names one.
ClerkCreates(w) ==
  /\ clerk[w] = "create"
  /\ treasuryClients' \in MadeBy("wire")
  /\ clerk' = [clerk EXCEPT ![w] = "done"]
  /\ UNCHANGED <<integration, centralAccounts, activation>>

\* Another route changes the client's onboarding status.
RestrictClient ==
  /\ treasuryClients # <<>>
  /\ treasuryClients' = [treasuryClients EXCEPT ![1].status = "restricted"]
  /\ UNCHANGED <<integration, centralAccounts, activation, clerk>>

Next ==
  \/ \E x \in Activators :
       \/ \E k \in ActivationKeys, named \in OwnSets \cup {None} : Start(x, k, named)
       \/ MakeWalletSet(x)
       \/ MakeWallet(x)
       \/ Fail(x)
       \/ Upsert(x)
       \/ Find(x)
       \/ Commit(x)
  \/ \E w \in WireClerks : ClerkFinds(w) \/ ClerkCreates(w)
  \/ RestrictClient

Spec == Init /\ [][Next]_vars

-----------------------------------------------------------------------------
(* Properties *)

Sets == OwnSets \cup ActivationKeys \cup {None}

TypeOK ==
  /\ integration \in [set : Sets, wallet : (ActivationKeys \cup {None}) \X Sets]
  /\ treasuryClients \in Seq([number : 1 .. Len(treasuryClients), status : {"approved", "restricted"},
                              by : {"activation", "wire"}])
  /\ centralAccounts \in Seq(0 .. Len(treasuryClients))
  /\ clerk \in [WireClerks -> {"idle", "create", "done"}]
  /\ \A x \in Activators : activation[x].at \in {"idle", "set", "wallet", "upsert", "find", "commit"}

\* However activations overlap, and whatever wallet set each names, the
\* tenant's wallet on record is in the wallet set on record.
WalletIsInTheSet == integration.wallet[2] = integration.set

\* Activations that overlap do not each make a treasury client and a central
\* account, although nothing but the upsert before keeps them apart; and the
\* central account is a treasury client's once the tenant is activated, also
\* when commands for wire accounts make more such clients in between.
OneTreasury ==
  /\ Cardinality({n \in DOMAIN treasuryClients : treasuryClients[n].by = "activation"}) <= 1
  /\ Len(centralAccounts) <= 1
  /\ integration # NoIntegration => centralAccounts[1] \in {treasuryClients[n].number : n \in DOMAIN treasuryClients}
=============================================================================
