-------------------------- MODULE CircleProvisioning --------------------------
(***************************************************************************)
(* Circle wallets for the accounts of one approved client                  *)
(* (services/ada-circle-provision-service.ts and its repository).  A       *)
(* command locks the account and the client, looks for a wallet it can     *)
(* reuse, and otherwise calls the provider, once or twice, and records the *)
(* result; its writes show when its transaction commits.  The provider     *)
(* makes one wallet set and one wallet for a key, however often it is      *)
(* asked, and knows nothing of a rollback.                                 *)
(*                                                                         *)
(* A wallet, and a wallet set the provider makes, is named by the key.     *)
(* Account and client states, the sandbox wire account (a provider call    *)
(* that succeeds or fails together with the wallet's) and audit rows are   *)
(* left out.                                                               *)
(***************************************************************************)
EXTENDS Naturals, Sequences, FiniteSets

CONSTANTS
  Accounts,       \* accounts of the client
  ProvisionKeys,  \* idempotency keys of the commands
  NamedSets,      \* wallet sets a command may name
  Provisioners,   \* commands in progress at a time
  MaxDisabled     \* bound on the instruments that are disabled

MaxDisabledNat == MaxDisabled \in Nat
SetsAreNew == NamedSets \cap ProvisionKeys = {} /\ "none" \notin NamedSets \cup ProvisionKeys

VARIABLES
  strictSchema,   \* migration 0039 is applied: linked_instruments.business_client_id is not null
  clientSet,      \* business_clients.circle_wallet_set_id
  instruments,    \* linked_instruments of type circle_wallet, oldest first
  operations,     \* circle_api_operations of type ada_circle_mapping, oldest first
  provisioned,    \* keys whose command is recorded as answered
  provisioning    \* the commands' transactions

vars == <<strictSchema, clientSet, instruments, operations, provisioned, provisioning>>
rows == <<strictSchema, clientSet, instruments, operations, provisioned>>

Idle == [at |-> "idle"]
None == "none"

Init ==
  /\ strictSchema \in BOOLEAN
  /\ clientSet = None
  /\ instruments = [a \in Accounts |-> <<>>]
  /\ operations = [a \in Accounts |-> <<>>]
  /\ provisioned = {}
  /\ provisioning = [p \in Provisioners |-> Idle]

-----------------------------------------------------------------------------
\* The newest element of a list with its index in ns, as a set of at most one.
Newest(list, ns) == {list[n] : n \in {m \in ns : \A l \in ns : l <= m}}

\* findExistingCircleWallet, findSuccessfulMappingOperation: the newest, if it
\* is of the wallet set that is wanted.
Usable(a) == {n \in DOMAIN instruments[a] : instruments[a][n].usable}
Succeeded(a) == {n \in DOMAIN operations[a] : operations[a][n].status = "succeeded"}
ExistingWallet(a, set) == {i \in Newest(instruments[a], Usable(a)) : set # None /\ i.set = set}
SuccessfulOperation(a, set) == {o \in Newest(operations[a], Succeeded(a)) : set # None /\ o.accountRef = set}
Replayed(a, k) == {n \in DOMAIN operations[a] : operations[a][n].key = k}

\* select ... for update of the account joined with its client.
\* Mutant: only the account is locked.
AccountFree(p, a) == \A q \in Provisioners \ {p} : (provisioning[q] # Idle => provisioning[q].account # a)
RowsFree(p, a) == \A q \in Provisioners \ {p} : provisioning[q] = Idle

\* linked_instruments_ada_default_purpose_uidx, and the column that is not set.
InsertFails(a) == strictSchema \/ Usable(a) # {}

Instrument(wallet, set) == [wallet |-> wallet, set |-> set, usable |-> TRUE]

Call(p, a, k, set, at) ==
  provisioning' = [provisioning EXCEPT ![p] =
    [at |-> at, account |-> a, key |-> k, set |-> set, wallet |-> None, accountRef |-> None]]

\* provisionCircleAccountService up to the first provider call.
Start(p, a, k, named) ==
  LET wanted == IF named # None THEN named ELSE clientSet
  IN  /\ provisioning[p] = Idle
      /\ k \notin provisioned
      /\ RowsFree(p, a)
      /\ IF ExistingWallet(a, wanted) # {}
         THEN /\ provisioned' = provisioned \cup {k}
              /\ UNCHANGED <<instruments, provisioning>>
         ELSE IF SuccessfulOperation(a, wanted) # {}
         THEN \* the wallet is recovered, or nothing is kept when the insert fails
              IF InsertFails(a)
              THEN UNCHANGED <<instruments, provisioned, provisioning>>
              ELSE /\ \E o \in SuccessfulOperation(a, wanted) :
                        instruments' = [instruments EXCEPT ![a] = Append(@,
                          Instrument(o.wallet, IF clientSet # None THEN clientSet ELSE o.accountRef))]
                   /\ provisioned' = provisioned \cup {k}
                   /\ UNCHANGED provisioning
         ELSE IF Replayed(a, k) # {}
         THEN \* answered with the operation, be it a failed one
              /\ provisioned' = provisioned \cup {k}
              /\ UNCHANGED <<instruments, provisioning>>
         ELSE /\ Call(p, a, k, wanted, IF wanted = None THEN "set" ELSE "wallet")
              /\ UNCHANGED <<instruments, provisioned>>
      /\ UNCHANGED <<strictSchema, clientSet, operations>>

\* insert into circle_api_operations
Operation(t, status) ==
  [key |-> t.key, status |-> status, set |-> t.set, wallet |-> t.wallet, accountRef |-> t.accountRef]

\* The transaction of p commits the operation; the client has the wallet set
\* if the provider has just made it.
Record(p, status) ==
  LET t == provisioning[p]
  IN  /\ operations' = [operations EXCEPT ![t.account] = Append(@, Operation(t, status))]
      /\ clientSet' = IF t.set = t.key THEN t.set ELSE clientSet
      /\ provisioning' = [provisioning EXCEPT ![p] = Idle]

\* initializeWalletSet
MakeWalletSet(p) ==
  /\ provisioning[p].at = "set"
  /\ provisioning' = [provisioning EXCEPT ![p].at = "wallet", ![p].set = provisioning[p].key]
  /\ UNCHANGED rows

\* provisionAdaMapping; an endpoint may name the wallet's account by its set.
MakeWallet(p) ==
  /\ provisioning[p].at = "wallet"
  /\ \E ref \in {provisioning[p].key, provisioning[p].set} :
       provisioning' = [provisioning EXCEPT ![p] = [@ EXCEPT
         !.at = "insert", !.wallet = provisioning[p].key, !.accountRef = ref]]
  /\ UNCHANGED rows

\* The provider refuses or cannot be reached: a failed operation is recorded
\* and the command answered 400 or 502.
ProviderFails(p) ==
  /\ provisioning[p].at \in {"set", "wallet"}
  /\ Record(p, "failed")
  /\ UNCHANGED <<strictSchema, instruments, provisioned>>

\* insertCircleOperation, insertLinkedInstrument: together, or not at all.
\* Mutant: the operation stays when the instrument is refused.
StaysRecorded(p) == Record(p, "succeeded")
RolledBack(p) ==
  /\ provisioning' = [provisioning EXCEPT ![p] = Idle]
  /\ UNCHANGED <<clientSet, operations>>

InsertInstrument(p) ==
  LET t == provisioning[p]
  IN  /\ provisioning[p].at = "insert"
      /\ IF InsertFails(t.account)
         THEN RolledBack(p) /\ UNCHANGED <<instruments, provisioned>>
         ELSE /\ Record(p, "succeeded")
              /\ instruments' = [instruments EXCEPT ![t.account] = Append(@, Instrument(t.wallet, t.set))]
              /\ provisioned' = provisioned \cup {t.key}
      /\ UNCHANGED strictSchema

\* A statement fails, the connection is lost or the server stops.
Lose(p) ==
  /\ provisioning[p] # Idle
  /\ provisioning' = [provisioning EXCEPT ![p] = Idle]
  /\ UNCHANGED rows

\* PATCH of a linked instrument: it is not usable any more.
Disabled == {x \in Accounts \X (1 .. 2 * Cardinality(ProvisionKeys)) :
               x[2] \in DOMAIN instruments[x[1]] /\ ~instruments[x[1]][x[2]].usable}
Disable(a, n) ==
  /\ Cardinality(Disabled) < MaxDisabled
  /\ instruments[a][n].usable
  /\ instruments' = [instruments EXCEPT ![a][n].usable = FALSE]
  /\ UNCHANGED <<strictSchema, clientSet, operations, provisioned, provisioning>>

Next ==
  \/ \E p \in Provisioners :
       \/ \E a \in Accounts, k \in ProvisionKeys, named \in NamedSets \cup {None} : Start(p, a, k, named)
       \/ MakeWalletSet(p)
       \/ MakeWallet(p)
       \/ ProviderFails(p)
       \/ InsertInstrument(p)
       \/ Lose(p)
  \/ \E a \in Accounts : \E n \in DOMAIN instruments[a] : Disable(a, n)

Spec == Init /\ [][Next]_vars

-----------------------------------------------------------------------------
(* Properties *)

Sets == NamedSets \cup ProvisionKeys \cup {None}

TypeOK ==
  /\ strictSchema \in BOOLEAN
  /\ clientSet \in ProvisionKeys \cup {None}
  /\ instruments \in [Accounts -> Seq([wallet : ProvisionKeys, set : Sets, usable : BOOLEAN])]
  /\ operations \in [Accounts -> Seq([key : ProvisionKeys, status : {"succeeded", "failed"}, set : Sets,
                                      wallet : ProvisionKeys \cup {None}, accountRef : Sets])]
  /\ provisioned \subseteq ProvisionKeys
  /\ provisioning \in [Provisioners -> {Idle} \cup
       [at : {"set", "wallet", "insert"}, account : Accounts, key : ProvisionKeys, set : Sets,
        wallet : ProvisionKeys \cup {None}, accountRef : Sets]]

\* Commands for two accounts of the client that start without a wallet set do
\* not both make one: a wallet recorded for an account is in the client's
\* wallet set, unless the command named another.
WalletsShareTheClientsSet ==
  \A a \in Accounts : \A n \in DOMAIN instruments[a] : instruments[a][n].set \in {clientSet} \cup NamedSets

\* Whatever fails, at the provider or in the database, an operation is on
\* record as succeeded just when its wallet was linked to the account.
SucceededJustWhenLinked ==
  \A a \in Accounts :
    {operations[a][n].wallet : n \in Succeeded(a)}
      = {instruments[a][n].wallet : n \in DOMAIN instruments[a]}
=============================================================================
