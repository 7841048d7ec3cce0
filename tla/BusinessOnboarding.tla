-------------------------- MODULE BusinessOnboarding --------------------------
(***************************************************************************)
(* One applicant's onboarding application: the requests the applicant      *)
(* sends (modules/client-onboarding/self-registration.ts) and the          *)
(* decisions of reviewers (db/business-onboarding-review-store.ts).        *)
(*                                                                         *)
(* A request of the applicant reads the application, or falls back on the  *)
(* copy in the server's memory, and writes it back, with what belongs to   *)
(* it, in several transactions; nothing is locked in between.  A decision  *)
(* is one transaction that locks the application row.                      *)
(*                                                                         *)
(* The form's steps and payloads, the invitation and the profile are left  *)
(* out: of a step's payload only the reference to the application counts.  *)
(***************************************************************************)
EXTENDS Naturals

CONSTANTS
  Ids,          \* application ids the server can make
  Requests,     \* requests of the applicant in progress at a time
  DatabaseAway  \* whether connections to the database may fail

DatabaseAwayBool == DatabaseAway \in BOOLEAN

VARIABLES
  application,  \* the row of business_onboarding_applications
  client,       \* business_clients rows by id; the id of a client is that of its application
  openTasks,    \* whether there are open onboarding_rfi_tasks
  reviews,      \* the actions of business_onboarding_review_actions
  runtimeCopy,  \* the application in the server's memory
  visit         \* the requests of the applicant

vars == <<application, client, openTasks, reviews, runtimeCopy, visit>>

NoRow == [id |-> "none"]
Idle == [at |-> "idle"]

Init ==
  /\ application = NoRow
  /\ client = [i \in Ids |-> "none"]
  /\ openTasks = FALSE
  /\ reviews = {}
  /\ runtimeCopy = NoRow
  /\ visit = [r \in Requests |-> Idle]

-----------------------------------------------------------------------------
(* Requests of the applicant *)

\* A connection either works or fails with an error that is swallowed.
Reached == IF DatabaseAway THEN BOOLEAN ELSE {TRUE}

\* withApiStateTransaction clones the state.  "other" is a request of somebody
\* else: it only replaces the memory in the end.
Begin(r, kind) ==
  /\ visit[r] = Idle
  /\ visit' = [visit EXCEPT ![r] = [at |-> "read", kind |-> kind, copy |-> runtimeCopy]]
  /\ UNCHANGED <<application, client, openTasks, reviews, runtimeCopy>>

Copies == {application, runtimeCopy} \cup {visit[r].copy : r \in {q \in Requests : visit[q] # Idle}}

Unused == {i \in Ids : client[i] = "none" /\ \A c \in Copies : c.id # i}

\* ensureBusinessUserOnboarding: the copy in memory, or a new application.
Ensured(copy) ==
  IF copy # NoRow THEN {copy} ELSE {[id |-> i, status |-> "draft"] : i \in Unused}

\* hydrateBusinessUserOnboarding, or ensureBusinessUserOnboarding when there is
\* no row or no database.
ReadBy(copy) ==
  UNION {IF reached /\ application # NoRow THEN {application} ELSE Ensured(copy) : reached \in Reached}

\* What the handler makes of the copy.
\* Mutant: the status of a client is taken for that of an application.
EditedAsClient(kind, copy) ==
  IF kind \in {"submit", "respond"} THEN [copy EXCEPT !.status = "submitted"] ELSE copy
Edited(kind, copy) ==
  IF kind \in {"submit", "respond"} THEN [copy EXCEPT !.status = "pending_review"] ELSE copy

\* A response is refused unless information was asked for.
Accepts(kind, copy) == kind = "respond" => copy.status = "needs_information"

Read(r) ==
  /\ visit[r].at = "read"
  /\ visit[r].kind # "other"
  /\ \E copy \in ReadBy(visit[r].copy) :
       visit' = [visit EXCEPT
         ![r].at = IF Accepts(visit[r].kind, copy) THEN "bundle" ELSE "end",
         ![r].copy = IF Accepts(visit[r].kind, copy) THEN Edited(visit[r].kind, copy) ELSE copy]
  /\ UNCHANGED <<application, client, openTasks, reviews, runtimeCopy>>

\* on conflict (auth_user_id) do update: all but the id.
\* Mutant: the id as well.
UpsertedWithId(copy) == copy
Upserted(copy) == IF application = NoRow THEN copy ELSE [copy EXCEPT !.id = application.id]

AfterBundle == [view |-> "end", save |-> "payload", submit |-> "client", respond |-> "payload"]

\* persistOnboardingBundle.
PersistBundle(r) ==
  /\ visit[r].at = "bundle"
  /\ \E reached \in Reached :
       application' = IF reached THEN Upserted(visit[r].copy) ELSE application
  /\ visit' = [visit EXCEPT ![r].at = AfterBundle[visit[r].kind]]
  /\ UNCHANGED <<client, openTasks, reviews, runtimeCopy>>

\* The row of the copy's id exists: a foreign key to it can be written.
Known(copy) == application # NoRow /\ application.id = copy.id

AfterPayload == [save |-> "end", respond |-> "answer"]

\* persistOnboardingStepPayload; without the row the request throws and its
\* draft is dropped.
PersistPayload(r) ==
  /\ visit[r].at = "payload"
  /\ \E reached \in Reached :
       visit' = [visit EXCEPT ![r] =
         IF reached /\ ~Known(@.copy) THEN Idle ELSE [@ EXCEPT !.at = AfterPayload[visit[r].kind]]]
  /\ UNCHANGED <<application, client, openTasks, reviews, runtimeCopy>>

\* persistSubmittedBusinessClient: the client of the copy's id is submitted,
\* whatever it was.
PersistClient(r) ==
  /\ visit[r].at = "client"
  /\ \E reached \in Reached :
       client' = IF reached THEN [client EXCEPT ![visit[r].copy.id] = "submitted"] ELSE client
  /\ visit' = [visit EXCEPT ![r].at = "end"]
  /\ UNCHANGED <<application, openTasks, reviews, runtimeCopy>>

\* persistRfiResponse: the open tasks of the copy's id are responded.
PersistAnswer(r) ==
  /\ visit[r].at = "answer"
  /\ \E reached \in Reached :
       openTasks' = (openTasks /\ ~(reached /\ Known(visit[r].copy)))
  /\ visit' = [visit EXCEPT ![r].at = "end"]
  /\ UNCHANGED <<application, client, reviews, runtimeCopy>>

\* The draft replaces the state.
End(r) ==
  /\ visit[r].at = "end" \/ (visit[r].at = "read" /\ visit[r].kind = "other")
  /\ runtimeCopy' = visit[r].copy
  /\ visit' = [visit EXCEPT ![r] = Idle]
  /\ UNCHANGED <<application, client, openTasks, reviews>>

\* An error that is not swallowed, or a stop of the server.
Abort(r) ==
  /\ visit[r] # Idle
  /\ visit' = [visit EXCEPT ![r] = Idle]
  /\ UNCHANGED <<application, client, openTasks, reviews, runtimeCopy>>

-----------------------------------------------------------------------------
(* Decisions: decideWithPostgres *)

\* statusForAction.
StatusOf == [approve |-> "approved", reject |-> "rejected", ask |-> "needs_information"]

\* The status event and the task refer to the client.
\* Mutant: they need not.
NoClientNeeded(i) == TRUE
HasClient(i) == client[i] # "none"

\* update business_onboarding_applications ... where id.
Decided(action) == [application EXCEPT !.status = StatusOf[action]]

\* insert into business_onboarding_review_actions.
\* Mutant: a rejection leaves no action.
RecordedUnlessRejected(action) == reviews \cup ({action} \ {"reject"})
Recorded(action) == reviews \cup {action}

\* The application is locked, whatever its status; an approval makes or
\* approves the client, a question opens a task.
Decide(action) ==
  /\ application # NoRow
  /\ action # "approve" => HasClient(application.id)
  /\ application' = Decided(action)
  /\ reviews' = Recorded(action)
  /\ client' = IF action = "approve" THEN [client EXCEPT ![application.id] = "approved"] ELSE client
  /\ openTasks' = (openTasks \/ action = "ask")
  /\ UNCHANGED <<runtimeCopy, visit>>

Next ==
  \/ \E r \in Requests :
       \/ \E kind \in {"view", "save", "submit", "respond", "other"} : Begin(r, kind)
       \/ Read(r)
       \/ PersistBundle(r)
       \/ PersistPayload(r)
       \/ PersistClient(r)
       \/ PersistAnswer(r)
       \/ End(r)
       \/ Abort(r)
  \/ \E action \in {"approve", "reject", "ask"} : Decide(action)

Spec == Init /\ [][Next]_vars

-----------------------------------------------------------------------------
(* Properties *)

Statuses == {"draft", "pending_review", "needs_information", "approved", "rejected"}
Rows == {NoRow} \cup [id : Ids, status : Statuses]

TypeOK ==
  /\ application \in Rows
  /\ client \in [Ids -> {"none", "submitted", "approved"}]
  /\ openTasks \in BOOLEAN
  /\ reviews \subseteq DOMAIN StatusOf
  /\ runtimeCopy \in Rows
  /\ visit \in [Requests -> {Idle} \cup
       [at : {"read", "bundle", "payload", "client", "answer", "end"},
        kind : {"view", "save", "submit", "respond", "other"}, copy : Rows]]

\* However often stale copies are written back (by views, by requests that
\* could not read, by others' drafts), a decision the application shows, in
\* the table, in memory or in a draft, is one a reviewer has taken.
DecisionsAreOnRecord ==
  \A c \in Copies : c # NoRow /\ c.status \in {"needs_information", "approved", "rejected"}
    => \E action \in reviews : StatusOf[action] = c.status

\* Two first requests may make two ids, and a submission may make a client of
\* the id that lost; the client that is approved is the application's.
ApprovedClientIsTheApplications ==
  \A i \in Ids : client[i] = "approved" => application # NoRow /\ application.id = i

\* A decision is refused as a whole when there is no client it could be
\* recorded for: an application on which a decision is on record has its
\* client, and a task waits for an answer only on such an application.
DecidedHasClient ==
  (reviews # {} \/ openTasks) => application # NoRow /\ client[application.id] # "none"
=============================================================================
