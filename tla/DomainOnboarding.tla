---------------------------- MODULE DomainOnboarding ----------------------------
(***************************************************************************)
(* Clients, accounts and onboarding of the domain services                 *)
(* (src/sprint1/application.ts, idempotency.ts, store.ts;                  *)
(* src/sprint2/onboarding.ts, onboarding-simulator.ts).  The application   *)
(* commands of sprint 1 run alone, on a clone of the state that replaces   *)
(* it when they end and is dropped when they throw.  The calls of sprint 2 *)
(* read their application, await the provider, and store a copy of what    *)
(* they read: other calls run in between.                                  *)
(*                                                                         *)
(* Names, documents, sections and schemas are left out, and so are tenants *)
(* and roles: a call of the wrong ones is refused.  A command that throws  *)
(* changes nothing and is no step.                                         *)
(***************************************************************************)
EXTENDS Naturals, FiniteSets

CONSTANTS
  Clients,       \* ids of business clients
  Keys,          \* idempotency keys of the callers
  CircleIds,     \* Circle client entity ids a caller may name
  Applications,  \* ids of onboarding applications; the provider's, too
  Calls          \* the callers of the onboarding service, one call each at a time

OnboardingAssumption == IsFiniteSet(Applications)

VARIABLES
  client,        \* businessClients: status, Circle id, key of its creation
  record,        \* idempotencyRecords: the request and the client answered
  account,       \* accountsOfDigitalAsset: ids of the applications they were made for
  application,   \* applications of the onboarding service
  provider,      \* the provider's status of an application
  pending,       \* calls that await the provider: their kind and what they have read
  approvals      \* history: applications the provider has approved

sprint1 == <<client, record, account>>
vars == <<sprint1, application, provider, pending, approvals>>

None == [status |-> "none"]
Idle == [kind |-> "idle"]

Init ==
  /\ client = [c \in Clients |-> None]
  /\ record = [k \in Keys |-> None]
  /\ account = {}
  /\ application = [x \in Applications |-> None]
  /\ provider = [x \in Applications |-> "none"]
  /\ pending = [p \in Calls |-> Idle]
  /\ approvals = {}

-----------------------------------------------------------------------------
(* Sprint 1 *)

\* The Circle id is not another client's; mapping an application does not ask.
CircleIdFree(circle) == circle = "none" \/ \A c \in Clients : client[c] # None => client[c].circle # circle

\* createBusinessClient under executeIdempotently.  A key that is known answers
\* its record or throws: no step.
CreateBusinessClient(k, c, status, circle) ==
  /\ record[k] = None
  /\ client[c] = None
  /\ CircleIdFree(circle)
  /\ client' = [client EXCEPT ![c] = [status |-> status, circle |-> circle, key |-> k]]
  /\ record' = [record EXCEPT ![k] = [status |-> status, circle |-> circle, answer |-> c]]
  /\ UNCHANGED <<account, application, provider, pending, approvals>>

\* mapApprovedOnboarding takes a submitted client only.  Mutant: any client.
AnyClient(c) == TRUE
Submitted(c) == client[c].status = "submitted"

-----------------------------------------------------------------------------
(* Sprint 2 *)

\* createOnboardingApplication up to the await; the client was found.
BeginCreate(p, c) ==
  /\ pending[p] = Idle
  /\ client[c] # None
  /\ pending' = [pending EXCEPT ![p] = [kind |-> "create", client |-> c]]
  /\ UNCHANGED <<sprint1, application, provider, approvals>>

\* The provider creates the application, and the service stores it.
EndCreate(p, x) ==
  /\ pending[p].kind = "create"
  /\ provider[x] = "none"
  /\ provider' = [provider EXCEPT ![x] = "draft"]
  /\ application' = [application EXCEPT ![x] = [status |-> "draft", client |-> pending[p].client, dated |-> FALSE]]
  /\ pending' = [pending EXCEPT ![p] = Idle]
  /\ UNCHANGED <<sprint1, approvals>>

\* submitOnboardingApplication and pollOnboardingStatus read the application.
Begin(p, kind, x) ==
  /\ pending[p] = Idle
  /\ application[x] # None
  /\ pending' = [pending EXCEPT ![p] = [kind |-> kind, id |-> x, read |-> application[x], answer |-> "none"]]
  /\ UNCHANGED <<sprint1, application, provider, approvals>>

\* What the simulator makes of a call, which is also its answer: a submission
\* resets it, and whoever asks for the status approves what was submitted.
Answer(kind, status) ==
  IF kind = "submit" THEN "submitted"
  ELSE IF status = "submitted" THEN "approved" ELSE status

Provider(p) ==
  LET call == pending[p]
      status == Answer(call.kind, provider[call.id])
  IN  /\ call.kind \in {"submit", "poll"} /\ call.answer = "none"
      /\ provider' = [provider EXCEPT ![call.id] = status]
      /\ approvals' = IF status = "approved" THEN approvals \cup {call.id} ELSE approvals
      /\ pending' = [pending EXCEPT ![p].answer = status]
      /\ UNCHANGED <<sprint1, application>>

\* The copy that was read is stored with the answer; a poll that is told
\* approved dates it.
Stored(call) == [call.read EXCEPT !.status = call.answer,
                                  !.dated = @ \/ (call.kind = "poll" /\ call.answer = "approved")]

End(p) ==
  /\ pending[p].kind \in {"submit", "poll"} /\ pending[p].answer # "none"
  /\ application' = [application EXCEPT ![pending[p].id] = Stored(pending[p])]
  /\ pending' = [pending EXCEPT ![p] = Idle]
  /\ UNCHANGED <<sprint1, provider, approvals>>

\* Is the application ready to be mapped?  Mutant: a submission will do.
SubmittedWillDo(x) == application[x].status \in {"submitted", "approved"}
Approved(x) == application[x].status = "approved"

\* mapApprovedApplication: the client gets the provider's id, and an account of
\* its own under the key map_approved_<application>.
MapApprovedApplication(x) ==
  LET c == application[x].client
  IN  /\ application[x] # None
      /\ Approved(x)
      /\ Submitted(c)
      /\ client' = [client EXCEPT ![c].status = "approved", ![c].circle = x]
      /\ account' = account \cup {x}
      /\ UNCHANGED <<record, application, provider, pending, approvals>>

Next ==
  \/ \E k \in Keys, c \in Clients, status \in {"draft", "submitted", "approved"}, circle \in CircleIds \cup {"none"} :
       CreateBusinessClient(k, c, status, circle)
  \/ \E p \in Calls :
       \/ \E c \in Clients : BeginCreate(p, c)
       \/ \E x \in Applications : EndCreate(p, x) \/ \E kind \in {"submit", "poll"} : Begin(p, kind, x)
       \/ Provider(p)
       \/ End(p)
  \/ \E x \in Applications : MapApprovedApplication(x)

Spec == Init /\ [][Next]_vars

-----------------------------------------------------------------------------
(* Properties *)

TypeOK ==
  /\ \A c \in Clients : client[c] # None =>
       client[c].status \in {"draft", "submitted", "approved"} /\ client[c].key \in Keys
  /\ \A x \in Applications : application[x] # None =>
       application[x].status \in {"draft", "submitted", "approved"} /\ application[x].client \in Clients
  /\ provider \in [Applications -> {"none", "draft", "submitted", "approved"}]
  /\ account \subseteq Applications /\ approvals \subseteq Applications

\* A client has at most one account from onboarding, made for an application of
\* its own that the provider has approved at some time and under which the
\* client is known to Circle: however many applications it has, and whatever
\* stale copies submissions and polls have stored meanwhile.
AccountsFollowApprovals ==
  /\ \A x \in account :
       /\ x \in approvals
       /\ client[application[x].client].status = "approved"
       /\ client[application[x].client].circle = x
  /\ \A x, y \in account : application[x].client = application[y].client => x = y
=============================================================================
