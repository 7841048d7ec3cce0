---------------------------- MODULE AccountLifecycle ----------------------------
(***************************************************************************)
(* One business client and one account of digital asset it opens: the      *)
(* internal commands that move them along their lifecycles                 *)
(* (db/postgres-route-handler.ts) and what the business user's own         *)
(* requests (modules/client-onboarding/self-registration.ts) and the       *)
(* onboarding do to the same rows.                                         *)
(*                                                                         *)
(* A command is a transaction of several statements.  Of the account's     *)
(* linked instruments only what the activation gates count is kept; the    *)
(* account the platform opens for itself, which passes no gates, is left   *)
(* out, and so are names, audit rows and the outbox.                       *)
(***************************************************************************)
CONSTANTS
  Actors,     \* commands in progress at a time
  CircleRail  \* whether the account's rail is circle_internal

LifecycleAssumption == CircleRail \in BOOLEAN

VARIABLES
  client,       \* business_clients.onboarding_status
  account,      \* accounts_of_digital_asset.status, "none" before it is opened
  linked,       \* what its linked instruments are good for
  transition,   \* the newest row of account_of_digital_asset_lifecycle_transitions
  act           \* the commands' transactions

vars == <<client, account, linked, transition, act>>

Idle == [at |-> "idle"]
NoTransition == [action |-> "none"]

Init ==
  /\ client = "draft"
  /\ account = "none"
  /\ linked = "none"
  /\ transition = NoTransition
  /\ act = [x \in Actors |-> Idle]

\* Who holds the row of the account, or of its client.
\* Mutants: transitionAccount locks neither, or the account alone.
LocksOnUpdateOnly(x) == act[x].at = "updated"
LocksAccount(x) == act[x].at \in {"locked", "updated"}
LocksAccountAlone(x) == FALSE
LocksClient(x) == act[x].at = "locked"

-----------------------------------------------------------------------------
(* Clients *)

businessClientTransitions ==
  [draft |-> {"submitted"}, submitted |-> {"approved", "restricted"}, approved |-> {"restricted", "closed"},
   restricted |-> {"approved"}, closed |-> {}]

\* transitionBusinessClient locks the row; submit-onboarding, map-circle,
\* restrict and close are told apart by where they lead.
TransitionBusinessClient(next) ==
  /\ \A x \in Actors : ~LocksClient(x)
  /\ next \in businessClientTransitions[client]
  /\ client' = next
  /\ UNCHANGED <<account, linked, transition, act>>

\* persistSubmittedBusinessClient, and the approval of the application: the
\* client is submitted or approved whatever it was.
Onboard(status) ==
  /\ \A x \in Actors : ~LocksClient(x)
  /\ client # status
  /\ client' = status
  /\ UNCHANGED <<account, linked, transition, act>>

-----------------------------------------------------------------------------
(* Accounts *)

accountTransitions ==
  [draft |-> {"pending_activation", "closed"},
   pending_activation |-> {"active", "restricted", "frozen", "closed"},
   active |-> {"restricted", "frozen", "closed"},
   restricted |-> {"active", "frozen", "closed"},
   frozen |-> {"active", "restricted", "closed"},
   closed |-> {}]

accountNextStatus(action, status) ==
  CASE action \in {"activate", "unrestrict"} -> "active"
    [] action = "restrict" -> "restricted"
    [] action = "freeze" -> "frozen"
    [] action = "unfreeze" -> IF status = "frozen" THEN "active" ELSE status
    [] action = "close" -> "closed"

Recorded(from, to, action) == transition' = [from |-> from, to |-> to, action |-> action]

\* createAccountOfDigitalAsset and handleCreateMyAdaAccount read that the
\* client is approved, and insert later without a lock on it.
FindApprovedClient(x, status) ==
  /\ act[x] = Idle
  /\ client = "approved"
  /\ act' = [act EXCEPT ![x] = [at |-> "insert", status |-> status]]
  /\ UNCHANGED <<client, account, linked, transition>>

CreateAccount(x) ==
  /\ act[x].at = "insert"
  /\ account = "none"
  /\ LET byUser == act[x].status # "internal"
     IN  /\ account' = IF byUser THEN act[x].status ELSE "pending_activation"
         /\ IF byUser THEN UNCHANGED transition ELSE Recorded("draft", "pending_activation", "create")
  /\ act' = [act EXCEPT ![x] = Idle]
  /\ UNCHANGED <<client, linked>>

\* transitionAccount: select ... for update of the account joined with its
\* client.
Unlocked == \A x \in Actors : ~LocksAccount(x) /\ ~LocksClient(x)

\* The status a refused transition is refused for is the one that was locked.
Lock(x, action) ==
  /\ act[x] = Idle
  /\ account # "none"
  /\ Unlocked
  /\ accountNextStatus(action, account) \in accountTransitions[account]
  /\ act' = [act EXCEPT ![x] = [at |-> "locked", action |-> action, status |-> account, client |-> client]]
  /\ UNCHANGED <<client, account, linked, transition>>

\* validateAccountActivationGates counts instruments without locking them: an
\* account that has none is activated, too.
InstrumentGates == linked \in {"none", "circle"} \/ (linked = "verified" /\ ~CircleRail)
Gates(x) == act[x].client = "approved" /\ InstrumentGates

\* The gates are for "activate" only.
Transition(x) ==
  /\ act[x].at = "locked"
  /\ act[x].action = "activate" => Gates(x)
  /\ LET next == accountNextStatus(act[x].action, act[x].status)
     IN  /\ account' = next
         /\ Recorded(act[x].status, next, act[x].action)
  /\ act' = [act EXCEPT ![x] = Idle]
  /\ UNCHANGED <<client, linked>>

\* A gate is not satisfied, a statement fails or the server stops.
GiveUp(x) ==
  /\ act[x] # Idle
  /\ act' = [act EXCEPT ![x] = Idle]
  /\ UNCHANGED <<client, account, linked, transition>>

\* handleUpdateMyAdaAccount: whatever the status was, and without a record.
\* The update waits for the row and holds it while the answer is read on other
\* connections; an error there undoes it.
SelfUpdate(x, status) ==
  /\ act[x] = Idle
  /\ account # "none"
  /\ \A y \in Actors : ~LocksAccount(y)
  /\ act' = [act EXCEPT ![x] = [at |-> "updated", status |-> status]]
  /\ UNCHANGED <<client, account, linked, transition>>

SelfUpdated(x) ==
  /\ act[x].at = "updated"
  /\ account' = act[x].status
  /\ act' = [act EXCEPT ![x] = Idle]
  /\ UNCHANGED <<client, linked, transition>>

\* Commands on linked instruments lock neither the account nor the client.
LinkInstruments(to) ==
  /\ account # "none"
  /\ linked' = to
  /\ to # linked
  /\ UNCHANGED <<client, account, transition, act>>

Next ==
  \/ \E next \in DOMAIN businessClientTransitions : TransitionBusinessClient(next)
  \/ \E status \in {"submitted", "approved"} : Onboard(status)
  \/ \E to \in {"unverified", "verified", "circle"} : LinkInstruments(to)
  \/ \E x \in Actors :
       \/ \E status \in {"internal", "active", "pending_activation"} : FindApprovedClient(x, status)
       \/ CreateAccount(x)
       \/ \E action \in {"activate", "restrict", "unrestrict", "freeze", "unfreeze", "close"} : Lock(x, action)
       \/ Transition(x)
       \/ GiveUp(x)
       \/ \E status \in {"active", "pending_activation", "restricted"} : SelfUpdate(x, status)
       \/ SelfUpdated(x)

Spec == Init /\ [][Next]_vars

-----------------------------------------------------------------------------
(* Properties *)

Statuses == DOMAIN accountTransitions

TypeOK ==
  /\ client \in DOMAIN businessClientTransitions
  /\ account \in Statuses \cup {"none"}
  /\ linked \in {"none", "unverified", "verified", "circle"}
  /\ transition \in {NoTransition} \cup [from : Statuses, to : Statuses,
       action : {"create", "activate", "restrict", "unrestrict", "freeze", "unfreeze", "close"}]
  /\ \A x \in Actors : act[x].at \in {"idle", "insert", "locked", "updated"}

\* A transition is recorded with the status the account really leaves, along a
\* legal edge, and in the step that leaves it: commands that overlap each
\* other, or the business user's own update of the row, never record one that
\* did not happen.
RecordedAsTheyHappen ==
  [][transition' # transition =>
       /\ transition'.to \in accountTransitions[transition'.from]
       /\ transition'.from = (IF transition'.action = "create" THEN "draft" ELSE account)
       /\ transition'.to = account']_vars

\* Whatever becomes of the client while a command is under way, an account is
\* activated only for a client that is approved at that very moment.
ActivatedForApprovedClient ==
  [][transition' # transition /\ transition'.action = "activate" => client' = "approved"]_vars
=============================================================================
