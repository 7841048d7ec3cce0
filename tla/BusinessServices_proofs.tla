----------------------- MODULE BusinessServices_proofs -----------------------
(***************************************************************************)
(* The invariants and the action properties of what the platform does for  *)
(* one business user, for any number of requests, servers, items and       *)
(* retries.  Each component has its own inductive invariant; the sum is a  *)
(* run of every one of them, most of which stutters.                       *)
(***************************************************************************)
EXTENDS BusinessServices, TLAPS

-----------------------------------------------------------------------------
(* The onboarding application *)

\* A request that is past its reading works on an application, and only those
\* that write a payload come to the statement that does.
VisitsHaveCopies ==
  \A r \in Requests :
    /\ visit[r].at \in {"bundle", "payload", "client", "answer"} => visit[r].copy # Onboarding!NoRow
    /\ visit[r].at = "bundle" => visit[r].kind # "other"
    /\ visit[r].at = "payload" => visit[r].kind \in {"save", "respond"}

OnboardingInv ==
  /\ Onboarding!TypeOK
  /\ VisitsHaveCopies
  /\ Onboarding!DecisionsAreOnRecord
  /\ Onboarding!ApprovedClientIsTheApplications
  /\ Onboarding!DecidedHasClient

-----------------------------------------------------------------------------
(* The sessions *)

\* There is no session at the provider until a token is issued, and nobody has
\* a token before.
NothingBeforeSignIn ==
  /\ provider = "none" => issued = 0
  /\ row # Sessions!NoRow => issued > 0
  /\ \A q \in SessionCalls : turn[q] # Sessions!Idle => issued > 0

SessionsInv ==
  /\ Sessions!TypeOK
  /\ NothingBeforeSignIn
  /\ Sessions!IndexFollowsSession

-----------------------------------------------------------------------------
(* The drafts *)

Rounds == [at : {"next", "ok", "error"}, read : SUBSET Items, todo : SUBSET Items, remaining : SUBSET Items]

RetryTypes == retry \in [Retries -> {Drafts!Idle} \cup Rounds]

\* What a retry has read, has yet to carry out, and could not carry out.
ReadBy(t) == IF retry[t] = Drafts!Idle THEN {} ELSE retry[t].read
ToDoBy(t) == IF retry[t] = Drafts!Idle THEN {} ELSE retry[t].todo
LeftBy(t) == IF retry[t] = Drafts!Idle THEN {} ELSE retry[t].remaining

\* A retry has yet to carry out, or could not carry out, what it has read, and
\* has carried out the rest.
RoundsAdvance ==
  \A t \in Retries :
    /\ ToDoBy(t) \cup LeftBy(t) \subseteq ReadBy(t)
    /\ ToDoBy(t) \cap LeftBy(t) = {}
    /\ \A i \in ReadBy(t) \ (ToDoBy(t) \cup LeftBy(t)) : times[i] > 0

\* A draft is of an item whose save has ended, and which only one retry has
\* read, unless it is unsure.
DraftsAreSaved ==
  /\ \A i \in Items : save[i] = "unsaved" => times[i] = 0
  /\ \A i \in drafts : save[i] = "ended"
  /\ \A t \in Retries : \A i \in ReadBy(t) : save[i] = "ended"
  /\ \A t, u \in Retries : t # u => ReadBy(t) \cap ReadBy(u) \subseteq unsure

\* What was carried out for sure is nowhere to be carried out again: its save
\* was answered, no retry has it before itself, and if it is among the drafts
\* still, the retry that did it will take it away.
DoneIsDone ==
  \A i \in Items \ unsure :
    times[i] > 0 =>
      /\ save[i] \in {"ok", "ended"}
      /\ \A t \in Retries : i \notin ToDoBy(t) \cup LeftBy(t)
      /\ i \in drafts => \E t \in Retries : i \in ReadBy(t)

DraftsInv ==
  /\ Drafts!TypeOK
  /\ RetryTypes
  /\ RoundsAdvance
  /\ DraftsAreSaved
  /\ DoneIsDone
  /\ Drafts!CarriedOutOnce

IInv == OnboardingInv /\ SessionsInv /\ DraftsInv

-----------------------------------------------------------------------------
(* The onboarding application keeps its invariant *)

LEMMA OnboardingInit == Onboarding!Init => OnboardingInv
<1> SUFFICES ASSUME Onboarding!Init PROVE OnboardingInv
  OBVIOUS
<1> USE DEF Onboarding!Init
<1>1. Onboarding!TypeOK
  BY DEF Onboarding!TypeOK, Onboarding!Rows
<1>2. VisitsHaveCopies
  BY DEF VisitsHaveCopies, Onboarding!Idle
<1>3. Onboarding!DecisionsAreOnRecord
  BY DEF Onboarding!DecisionsAreOnRecord, Onboarding!Copies
<1>4. Onboarding!ApprovedClientIsTheApplications /\ Onboarding!DecidedHasClient
  BY DEF Onboarding!ApprovedClientIsTheApplications, Onboarding!DecidedHasClient
<1> QED BY <1>1, <1>2, <1>3, <1>4 DEF OnboardingInv

\* A row of the table is not the row there is not.
LEMMA RowsAreThere ==
  ASSUME NEW i, NEW s
  PROVE  [id |-> i, status |-> s] # Onboarding!NoRow
<1>1. DOMAIN [id |-> i, status |-> s] = {"id", "status"} /\ DOMAIN Onboarding!NoRow = {"id"}
  BY DEF Onboarding!NoRow
<1> QED BY <1>1

\* A copy that shows a decision is backed by an action on record.
Backed(c) ==
  c # Onboarding!NoRow /\ c.status \in {"needs_information", "approved", "rejected"}
    => \E action \in reviews : Onboarding!StatusOf[action] = c.status

\* What a request reads, and makes of it, is a row that tells of no decision
\* but those it has read of.
LEMMA ReadIsBacked ==
  ASSUME OnboardingInv, NEW r \in Requests, visit[r].at = "read", NEW copy \in Onboarding!ReadBy(visit[r].copy),
         NEW kind \in {"view", "save", "submit", "respond"}
  PROVE  /\ copy \in Onboarding!Rows /\ copy # Onboarding!NoRow /\ Backed(copy)
         /\ Onboarding!Edited(kind, copy) \in Onboarding!Rows
         /\ Onboarding!Edited(kind, copy) # Onboarding!NoRow
         /\ Backed(Onboarding!Edited(kind, copy))
<1>1. visit[r] # Onboarding!Idle /\ visit[r].copy \in Onboarding!Rows
  BY DEF OnboardingInv, Onboarding!TypeOK, Onboarding!Idle
<1>2. Backed(application) /\ Backed(visit[r].copy)
  BY <1>1 DEF OnboardingInv, Onboarding!DecisionsAreOnRecord, Onboarding!Copies, Backed
<1>3. \/ copy = application /\ application # Onboarding!NoRow
      \/ copy = visit[r].copy /\ visit[r].copy # Onboarding!NoRow
      \/ \E i \in Ids : copy = [id |-> i, status |-> "draft"]
  BY DEF Onboarding!ReadBy, Onboarding!Ensured, Onboarding!Reached, Onboarding!Unused
<1>4. copy \in Onboarding!Rows /\ copy # Onboarding!NoRow /\ Backed(copy)
  <2>1. CASE copy = application /\ application # Onboarding!NoRow
    BY <1>2, <2>1 DEF OnboardingInv, Onboarding!TypeOK
  <2>2. CASE copy = visit[r].copy /\ visit[r].copy # Onboarding!NoRow
    BY <1>1, <1>2, <2>2
  <2>3. ASSUME NEW i \in Ids, copy = [id |-> i, status |-> "draft"]
        PROVE  copy \in Onboarding!Rows /\ copy # Onboarding!NoRow /\ Backed(copy)
    BY <2>3, RowsAreThere DEF Onboarding!Rows, Onboarding!Statuses, Backed
  <2> QED BY <1>3, <2>1, <2>2, <2>3
<1>5. PICK i \in Ids, s \in Onboarding!Statuses : copy = [id |-> i, status |-> s]
  BY <1>4 DEF Onboarding!Rows
<1>6. \/ Onboarding!Edited(kind, copy) = copy
      \/ Onboarding!Edited(kind, copy) = [id |-> i, status |-> "pending_review"]
  BY <1>5 DEF Onboarding!Edited
<1>7. CASE Onboarding!Edited(kind, copy) = copy
  BY <1>4, <1>7
<1>8. CASE Onboarding!Edited(kind, copy) = [id |-> i, status |-> "pending_review"]
  BY <1>4, <1>8, RowsAreThere DEF Onboarding!Rows, Onboarding!Statuses, Backed
<1> QED BY <1>4, <1>6, <1>7, <1>8

\* One request moves on: copies are backed if its copy, the row and the copy in
\* memory are.
LEMMA CopiesStayBacked ==
  ASSUME OnboardingInv, NEW r \in Requests, NEW v, visit' = [visit EXCEPT ![r] = v], reviews' = reviews,
         v = Onboarding!Idle \/ Backed(v.copy), Backed(application'), Backed(runtimeCopy')
  PROVE  Onboarding!DecisionsAreOnRecord'
<1> SUFFICES ASSUME NEW c \in Onboarding!Copies' PROVE Backed(c)
  BY DEF Onboarding!DecisionsAreOnRecord, Backed
<1>1. CASE c \in {application', runtimeCopy'}
  BY <1>1
<1>2. ASSUME NEW q \in Requests, visit'[q] # Onboarding!Idle, c = visit'[q].copy PROVE Backed(c)
  <2>1. CASE q = r
    BY <1>2, <2>1 DEF OnboardingInv, Onboarding!TypeOK
  <2>2. CASE q # r
    BY <1>2, <2>2 DEF OnboardingInv, Onboarding!TypeOK, Onboarding!DecisionsAreOnRecord, Onboarding!Copies, Backed
  <2> QED BY <2>1, <2>2
<1> QED BY <1>1, <1>2 DEF Onboarding!Copies

\* What a request holds is backed, and so are the row and the copy in memory.
LEMMA NowBacked ==
  ASSUME OnboardingInv
  PROVE  /\ Backed(application) /\ Backed(runtimeCopy)
         /\ \A r \in Requests : visit[r] # Onboarding!Idle => Backed(visit[r].copy) /\ visit[r].copy \in Onboarding!Rows
BY DEF OnboardingInv, Onboarding!TypeOK, Onboarding!DecisionsAreOnRecord, Onboarding!Copies, Backed

Visits ==
  {Onboarding!Idle} \cup
    [at : {"read", "bundle", "payload", "client", "answer", "end"},
     kind : {"view", "save", "submit", "respond", "other"}, copy : Onboarding!Rows]

\* One request moves on and leaves the tables alone.
LEMMA VisitMoves ==
  ASSUME OnboardingInv, NEW r \in Requests, NEW v \in Visits, visit' = [visit EXCEPT ![r] = v],
         UNCHANGED <<application, client, openTasks, reviews>>, runtimeCopy' \in Onboarding!Rows, Backed(runtimeCopy'),
         v = Onboarding!Idle \/ Backed(v.copy),
         v.at \in {"bundle", "payload", "client", "answer"} => v.copy # Onboarding!NoRow,
         v.at = "bundle" => v.kind # "other",
         v.at = "payload" => v.kind \in {"save", "respond"}
  PROVE  OnboardingInv'
<1>1. Onboarding!TypeOK'
  BY DEF OnboardingInv, Onboarding!TypeOK, Visits
<1>2. VisitsHaveCopies'
  BY DEF OnboardingInv, Onboarding!TypeOK, VisitsHaveCopies
<1>3. Onboarding!DecisionsAreOnRecord'
  BY NowBacked, CopiesStayBacked
<1>4. Onboarding!ApprovedClientIsTheApplications' /\ Onboarding!DecidedHasClient'
  BY DEF OnboardingInv, Onboarding!ApprovedClientIsTheApplications, Onboarding!DecidedHasClient
<1> QED BY <1>1, <1>2, <1>3, <1>4 DEF OnboardingInv

LEMMA BeginKeeps ==
  ASSUME OnboardingInv, NEW r \in Requests, NEW kind \in {"view", "save", "submit", "respond", "other"},
         Onboarding!Begin(r, kind)
  PROVE  OnboardingInv'
<1>1. PICK v : v = [at |-> "read", kind |-> kind, copy |-> runtimeCopy]
  OBVIOUS
<1>2. v \in Visits /\ v.at = "read" /\ v.copy = runtimeCopy
  BY <1>1 DEF Visits, OnboardingInv, Onboarding!TypeOK
<1> QED BY <1>1, <1>2, NowBacked, VisitMoves DEF Onboarding!Begin, OnboardingInv, Onboarding!TypeOK

Places == {"read", "bundle", "payload", "client", "answer", "end"}

\* A request goes to another place, with another copy.
GoesWith(r, at, cp) == visit' = [visit EXCEPT ![r].at = at, ![r].copy = cp]
LEMMA VisitWithCopy ==
  ASSUME OnboardingInv, NEW r \in Requests, visit[r] # Onboarding!Idle, NEW at \in Places, NEW cp \in Onboarding!Rows,
         GoesWith(r, at, cp)
  PROVE  \E v \in Visits :
           /\ v.at = at /\ v.copy = cp /\ v.kind = visit[r].kind
           /\ visit' = [visit EXCEPT ![r] = v]
<1>1. visit[r] \in Visits \ {Onboarding!Idle}
  BY DEF OnboardingInv, Onboarding!TypeOK, Visits
<1>2. PICK v : v = [visit[r] EXCEPT !.at = at, !.copy = cp] /\ visit' = [visit EXCEPT ![r] = v]
  <2>1. visit' = [visit EXCEPT ![r] = [visit[r] EXCEPT !.at = at, !.copy = cp]]
    BY DEF OnboardingInv, Onboarding!TypeOK, GoesWith
  <2> DEFINE w == [visit[r] EXCEPT !.at = at, !.copy = cp]
  <2>2. visit' = [visit EXCEPT ![r] = w]
    BY <2>1
  <2>3. w = [visit[r] EXCEPT !.at = at, !.copy = cp]
    OBVIOUS
  <2> HIDE DEF w
  <2> QED BY <2>2, <2>3
<1>3. v = [visit[r] EXCEPT !.at = at, !.copy = cp]
  BY <1>2
<1>4. v \in Visits /\ v.at = at /\ v.copy = cp /\ v.kind = visit[r].kind
  BY <1>1, <1>3 DEF Visits, Places
<1> QED BY <1>2, <1>4

\* A request goes to another place.
LEMMA VisitAt ==
  ASSUME OnboardingInv, NEW r \in Requests, visit[r] # Onboarding!Idle, NEW at \in Places,
         visit' = [visit EXCEPT ![r].at = at]
  PROVE  \E v \in Visits :
           /\ v.at = at /\ v.copy = visit[r].copy /\ v.kind = visit[r].kind
           /\ visit' = [visit EXCEPT ![r] = v]
<1>1. visit[r] \in Visits \ {Onboarding!Idle}
  BY DEF OnboardingInv, Onboarding!TypeOK, Visits
<1>2. PICK v : v = [visit[r] EXCEPT !.at = at] /\ visit' = [visit EXCEPT ![r] = v]
  BY DEF OnboardingInv, Onboarding!TypeOK
<1>3. v = [visit[r] EXCEPT !.at = at]
  BY <1>2
<1>4. v \in Visits /\ v.at = at /\ v.copy = visit[r].copy /\ v.kind = visit[r].kind
  BY <1>1, <1>3 DEF Visits, Places
<1> QED BY <1>2, <1>4

LEMMA ReadKeeps ==
  ASSUME OnboardingInv, NEW r \in Requests, Onboarding!Read(r)
  PROVE  OnboardingInv'
<1>1. visit[r] # Onboarding!Idle /\ visit[r].at = "read"
      /\ visit[r] \in Visits /\ visit[r].kind \in {"view", "save", "submit", "respond"}
  BY DEF Onboarding!Read, OnboardingInv, Onboarding!TypeOK, Onboarding!Idle, Visits
<1>2. PICK copy \in Onboarding!ReadBy(visit[r].copy) :
        visit' = [visit EXCEPT
          ![r].at = IF Onboarding!Accepts(visit[r].kind, copy) THEN "bundle" ELSE "end",
          ![r].copy = IF Onboarding!Accepts(visit[r].kind, copy) THEN Onboarding!Edited(visit[r].kind, copy) ELSE copy]
  BY DEF Onboarding!Read
<1>3. PICK kind \in {"view", "save", "submit", "respond"} : kind = visit[r].kind
  BY <1>1
<1>4. /\ copy \in Onboarding!Rows /\ copy # Onboarding!NoRow /\ Backed(copy)
      /\ Onboarding!Edited(kind, copy) \in Onboarding!Rows
      /\ Onboarding!Edited(kind, copy) # Onboarding!NoRow
      /\ Backed(Onboarding!Edited(kind, copy))
  BY <1>1, ReadIsBacked
<1>5. PICK cp \in Onboarding!Rows, at \in {"bundle", "end"} :
        /\ cp # Onboarding!NoRow /\ Backed(cp)
        /\ GoesWith(r, at, cp)
  BY <1>2, <1>3, <1>4 DEF GoesWith
<1>6. PICK v \in Visits :
        /\ v.at = at /\ v.copy = cp /\ v.kind = visit[r].kind
        /\ visit' = [visit EXCEPT ![r] = v]
  <2>1. at \in Places
    BY DEF Places
  <2> QED BY <1>1, <1>5, <2>1, VisitWithCopy
<1>7. UNCHANGED <<application, client, openTasks, reviews, runtimeCopy>> /\ runtimeCopy \in Onboarding!Rows
  BY DEF Onboarding!Read, OnboardingInv, Onboarding!TypeOK
<1> QED BY <1>1, <1>5, <1>6, <1>7, NowBacked, VisitMoves

LEMMA PersistBundleKeeps ==
  ASSUME OnboardingInv, NEW r \in Requests, Onboarding!PersistBundle(r)
  PROVE  OnboardingInv'
<1>1. /\ visit[r] # Onboarding!Idle /\ visit[r].copy # Onboarding!NoRow
      /\ visit[r].kind \in {"view", "save", "submit", "respond"}
      /\ visit[r].copy \in Onboarding!Rows /\ Backed(visit[r].copy)
  BY NowBacked DEF Onboarding!PersistBundle, OnboardingInv, VisitsHaveCopies, Onboarding!TypeOK, Onboarding!Idle
<1>2. PICK at \in {"end", "payload", "client"} :
        /\ visit' = [visit EXCEPT ![r].at = at]
        /\ at = "payload" => visit[r].kind \in {"save", "respond"}
  <2>1. PICK kind \in {"view", "save", "submit", "respond"} : kind = visit[r].kind
    BY <1>1
  <2>2. /\ Onboarding!AfterBundle[kind] \in {"end", "payload", "client"}
        /\ Onboarding!AfterBundle[kind] = "payload" => kind \in {"save", "respond"}
    BY DEF Onboarding!AfterBundle
  <2> QED BY <2>1, <2>2 DEF Onboarding!PersistBundle
<1>3. PICK v \in Visits :
        /\ v.at = at /\ v.copy = visit[r].copy /\ v.kind = visit[r].kind
        /\ visit' = [visit EXCEPT ![r] = v]
  <2>1. at \in Places
    BY DEF Places
  <2> QED BY <1>1, <1>2, <2>1, VisitAt
<1>4. /\ application' \in Onboarding!Rows /\ Backed(application')
      /\ application # Onboarding!NoRow => application' # Onboarding!NoRow /\ application'.id = application.id
  <2>1. CASE application' = application
    BY <2>1, NowBacked DEF OnboardingInv, Onboarding!TypeOK
  <2>2. CASE application' = visit[r].copy /\ application = Onboarding!NoRow
    BY <1>1, <2>2
  <2>3. CASE application' = [visit[r].copy EXCEPT !.id = application.id] /\ application # Onboarding!NoRow
    <3>1. PICK i \in Ids, s \in Onboarding!Statuses : visit[r].copy = [id |-> i, status |-> s]
      BY <1>1 DEF Onboarding!Rows
    <3>2. application.id \in Ids
      BY <2>3 DEF OnboardingInv, Onboarding!TypeOK, Onboarding!Rows
    <3>3. application' = [id |-> application.id, status |-> s]
      BY <2>3, <3>1
    <3>4. application' \in Onboarding!Rows /\ application' # Onboarding!NoRow /\ application'.id = application.id
      BY <3>2, <3>3, RowsAreThere DEF Onboarding!Rows
    <3>5. Backed(application')
      BY <1>1, <3>1, <3>3 DEF Backed
    <3> QED BY <3>4, <3>5
  <2> QED BY <2>1, <2>2, <2>3 DEF Onboarding!PersistBundle, Onboarding!Upserted
<1>5. Onboarding!TypeOK'
  BY <1>3, <1>4 DEF Onboarding!PersistBundle, OnboardingInv, Onboarding!TypeOK, Visits
<1>6. VisitsHaveCopies'
  BY <1>1, <1>2, <1>3 DEF Onboarding!PersistBundle, OnboardingInv, Onboarding!TypeOK, VisitsHaveCopies
<1>7. Onboarding!DecisionsAreOnRecord'
  BY <1>1, <1>3, <1>4, NowBacked, CopiesStayBacked DEF Onboarding!PersistBundle
<1>8. Onboarding!ApprovedClientIsTheApplications' /\ Onboarding!DecidedHasClient'
  BY <1>4 DEF Onboarding!PersistBundle, OnboardingInv, Onboarding!ApprovedClientIsTheApplications,
              Onboarding!DecidedHasClient
<1> QED BY <1>5, <1>6, <1>7, <1>8 DEF OnboardingInv

\* What a request that is under way holds.
LEMMA UnderWay ==
  ASSUME OnboardingInv, NEW r \in Requests, visit[r] # Onboarding!Idle
  PROVE  visit[r] \in Visits /\ visit[r].copy \in Onboarding!Rows /\ Backed(visit[r].copy)
BY NowBacked DEF OnboardingInv, Onboarding!TypeOK, Visits

LEMMA PersistPayloadKeeps ==
  ASSUME OnboardingInv, NEW r \in Requests, Onboarding!PersistPayload(r)
  PROVE  OnboardingInv'
<1>1. /\ visit[r] # Onboarding!Idle /\ visit[r].copy # Onboarding!NoRow
      /\ visit[r].kind \in {"save", "respond"}
      /\ UNCHANGED <<application, client, openTasks, reviews, runtimeCopy>> /\ runtimeCopy \in Onboarding!Rows
  BY DEF Onboarding!PersistPayload, OnboardingInv, VisitsHaveCopies, Onboarding!TypeOK, Onboarding!Idle
<1>2. \/ visit' = [visit EXCEPT ![r] = Onboarding!Idle]
      \/ \E at \in {"end", "answer"} : visit' = [visit EXCEPT ![r].at = at]
  <2>1. PICK kind \in {"save", "respond"} : kind = visit[r].kind
    BY <1>1
  <2>2. Onboarding!AfterPayload[kind] \in {"end", "answer"}
    BY DEF Onboarding!AfterPayload
  <2> QED BY <2>1, <2>2 DEF Onboarding!PersistPayload
<1>3. CASE visit' = [visit EXCEPT ![r] = Onboarding!Idle]
  <2>1. PICK v : v = Onboarding!Idle
    OBVIOUS
  <2>2. v \in Visits /\ v.at = "idle"
    BY <2>1 DEF Visits, Onboarding!Idle
  <2> QED BY <1>1, <1>3, <2>1, <2>2, NowBacked, VisitMoves
<1>4. ASSUME NEW at \in {"end", "answer"}, visit' = [visit EXCEPT ![r].at = at]
      PROVE  OnboardingInv'
  <2>1. PICK v \in Visits :
          /\ v.at = at /\ v.copy = visit[r].copy /\ v.kind = visit[r].kind
          /\ visit' = [visit EXCEPT ![r] = v]
    <3>1. at \in Places
      BY DEF Places
    <3> QED BY <1>1, <1>4, <3>1, VisitAt
  <2> QED BY <1>1, <2>1, UnderWay, NowBacked, VisitMoves
<1> QED BY <1>2, <1>3, <1>4

LEMMA PersistClientKeeps ==
  ASSUME OnboardingInv, NEW r \in Requests, Onboarding!PersistClient(r)
  PROVE  OnboardingInv'
<1>1. /\ visit[r] # Onboarding!Idle /\ visit[r].copy # Onboarding!NoRow
      /\ visit[r].copy \in Onboarding!Rows
      /\ visit' = [visit EXCEPT ![r].at = "end"]
      /\ UNCHANGED <<application, openTasks, reviews, runtimeCopy>>
  BY DEF Onboarding!PersistClient, OnboardingInv, VisitsHaveCopies, Onboarding!TypeOK, Onboarding!Idle
<1>2. PICK v \in Visits :
        /\ v.at = "end" /\ v.copy = visit[r].copy /\ v.kind = visit[r].kind
        /\ visit' = [visit EXCEPT ![r] = v]
  <2>1. "end" \in Places
    BY DEF Places
  <2> QED BY <1>1, <2>1, VisitAt
<1>3. visit[r].copy.id \in Ids
  BY <1>1 DEF Onboarding!Rows
<1>4. /\ client' \in [Ids -> {"none", "submitted", "approved"}]
      /\ \A i \in Ids : client'[i] = "approved" => client[i] = "approved"
      /\ \A i \in Ids : client'[i] = "none" => client[i] = "none"
  BY <1>3 DEF Onboarding!PersistClient, OnboardingInv, Onboarding!TypeOK
<1>5. Onboarding!TypeOK'
  BY <1>1, <1>2, <1>4 DEF OnboardingInv, Onboarding!TypeOK, Visits
<1>6. VisitsHaveCopies'
  BY <1>2 DEF OnboardingInv, Onboarding!TypeOK, VisitsHaveCopies
<1>7. Onboarding!DecisionsAreOnRecord'
  BY <1>1, <1>2, UnderWay, NowBacked, CopiesStayBacked
<1>8. Onboarding!ApprovedClientIsTheApplications'
  BY <1>1, <1>4 DEF OnboardingInv, Onboarding!ApprovedClientIsTheApplications
<1>9. Onboarding!DecidedHasClient'
  <2>1. application # Onboarding!NoRow => application.id \in Ids
    BY DEF OnboardingInv, Onboarding!TypeOK, Onboarding!Rows
  <2> QED BY <1>1, <1>4, <2>1 DEF OnboardingInv, Onboarding!DecidedHasClient
<1> QED BY <1>5, <1>6, <1>7, <1>8, <1>9 DEF OnboardingInv

LEMMA PersistAnswerKeeps ==
  ASSUME OnboardingInv, NEW r \in Requests, Onboarding!PersistAnswer(r)
  PROVE  OnboardingInv'
<1>1. /\ visit[r] # Onboarding!Idle
      /\ visit' = [visit EXCEPT ![r].at = "end"]
      /\ UNCHANGED <<application, client, reviews, runtimeCopy>>
      /\ openTasks' \in BOOLEAN /\ (openTasks' => openTasks)
  BY DEF Onboarding!PersistAnswer, OnboardingInv, Onboarding!TypeOK, Onboarding!Idle
<1>2. PICK v \in Visits :
        /\ v.at = "end" /\ v.copy = visit[r].copy /\ v.kind = visit[r].kind
        /\ visit' = [visit EXCEPT ![r] = v]
  <2>1. "end" \in Places
    BY DEF Places
  <2> QED BY <1>1, <2>1, VisitAt
<1>3. Onboarding!TypeOK'
  BY <1>1, <1>2 DEF OnboardingInv, Onboarding!TypeOK, Visits
<1>4. VisitsHaveCopies'
  BY <1>2 DEF OnboardingInv, Onboarding!TypeOK, VisitsHaveCopies
<1>5. Onboarding!DecisionsAreOnRecord'
  BY <1>1, <1>2, UnderWay, NowBacked, CopiesStayBacked
<1>6. Onboarding!ApprovedClientIsTheApplications' /\ Onboarding!DecidedHasClient'
  BY <1>1 DEF OnboardingInv, Onboarding!ApprovedClientIsTheApplications, Onboarding!DecidedHasClient
<1> QED BY <1>3, <1>4, <1>5, <1>6 DEF OnboardingInv

\* A draft replaces the state, or is dropped.
LEMMA EndKeeps ==
  ASSUME OnboardingInv, NEW r \in Requests, Onboarding!End(r) \/ Onboarding!Abort(r)
  PROVE  OnboardingInv'
<1>1. PICK v : v = Onboarding!Idle
  OBVIOUS
<1>2. v \in Visits /\ v.at = "idle"
  BY <1>1 DEF Visits, Onboarding!Idle
<1>3. /\ UNCHANGED <<application, client, openTasks, reviews>>
      /\ visit' = [visit EXCEPT ![r] = v]
      /\ runtimeCopy' \in {runtimeCopy, visit[r].copy}
      /\ visit[r] # Onboarding!Idle
  BY <1>1 DEF Onboarding!End, Onboarding!Abort, OnboardingInv, Onboarding!TypeOK, Onboarding!Idle
<1>4. runtimeCopy' \in Onboarding!Rows /\ Backed(runtimeCopy')
  BY <1>3, UnderWay, NowBacked DEF OnboardingInv, Onboarding!TypeOK
<1> QED BY <1>1, <1>2, <1>3, <1>4, VisitMoves

\* A decision is put on record with the status that shows it, for an
\* application that has a client.
LEMMA DecideKeeps ==
  ASSUME OnboardingInv, NEW action \in {"approve", "reject", "ask"}, Onboarding!Decide(action)
  PROVE  OnboardingInv'
<1>1. PICK i \in Ids, s \in Onboarding!Statuses : application = [id |-> i, status |-> s]
  BY DEF Onboarding!Decide, OnboardingInv, Onboarding!TypeOK, Onboarding!Rows
<1>2. PICK status \in {"needs_information", "approved", "rejected"} : status = Onboarding!StatusOf[action]
  BY DEF Onboarding!StatusOf
<1>3. application' = [id |-> i, status |-> status] /\ application'.id = i /\ application'.status = status
  BY <1>1, <1>2 DEF Onboarding!Decide, Onboarding!Decided
<1>4. application' # Onboarding!NoRow /\ application' \in Onboarding!Rows
  BY <1>3, RowsAreThere DEF Onboarding!Rows, Onboarding!Statuses
<1>5. /\ client' \in [Ids -> {"none", "submitted", "approved"}]
      /\ client'[i] # "none"
      /\ \A j \in Ids : client'[j] = "approved" => j = i \/ client[j] = "approved"
  BY <1>1 DEF Onboarding!Decide, Onboarding!HasClient, OnboardingInv, Onboarding!TypeOK
<1>6. reviews' = reviews \cup {action} /\ UNCHANGED <<runtimeCopy, visit>> /\ openTasks' \in BOOLEAN
  BY DEF Onboarding!Decide, Onboarding!Recorded, OnboardingInv, Onboarding!TypeOK
<1>7. Onboarding!TypeOK'
  BY <1>4, <1>5, <1>6 DEF OnboardingInv, Onboarding!TypeOK, Onboarding!StatusOf
<1>8. VisitsHaveCopies'
  BY <1>6 DEF OnboardingInv, VisitsHaveCopies
<1>9. Onboarding!DecisionsAreOnRecord'
  <2> SUFFICES ASSUME NEW c \in Onboarding!Copies', c # Onboarding!NoRow,
                      c.status \in {"needs_information", "approved", "rejected"}
               PROVE  \E act \in reviews' : Onboarding!StatusOf[act] = c.status
    BY DEF Onboarding!DecisionsAreOnRecord
  <2>1. CASE c = application'
    BY <1>2, <1>3, <1>6, <2>1
  <2>2. CASE c # application'
    <3>1. c \in Onboarding!Copies
      BY <1>6, <2>2 DEF Onboarding!Copies
    <3> QED BY <1>6, <3>1 DEF OnboardingInv, Onboarding!DecisionsAreOnRecord
  <2> QED BY <2>1, <2>2
<1>10. Onboarding!ApprovedClientIsTheApplications'
  BY <1>1, <1>3, <1>4, <1>5 DEF OnboardingInv, Onboarding!ApprovedClientIsTheApplications
<1>11. Onboarding!DecidedHasClient'
  BY <1>3, <1>4, <1>5 DEF Onboarding!DecidedHasClient
<1> QED BY <1>7, <1>8, <1>9, <1>10, <1>11 DEF OnboardingInv

LEMMA OnboardingKeeps ==
  ASSUME OnboardingInv, [Onboarding!Next]_onboardingVars
  PROVE  OnboardingInv'
<1>1. CASE UNCHANGED onboardingVars
  BY <1>1 DEF onboardingVars, OnboardingInv, Onboarding!TypeOK, VisitsHaveCopies, Onboarding!DecisionsAreOnRecord,
              Onboarding!Copies, Onboarding!ApprovedClientIsTheApplications, Onboarding!DecidedHasClient
<1>2. ASSUME NEW r \in Requests, NEW kind \in {"view", "save", "submit", "respond", "other"},
             Onboarding!Begin(r, kind)
      PROVE  OnboardingInv'
  BY <1>2, BeginKeeps
<1>3. ASSUME NEW r \in Requests, Onboarding!Read(r) PROVE OnboardingInv'
  BY <1>3, ReadKeeps
<1>4. ASSUME NEW r \in Requests, Onboarding!PersistBundle(r) PROVE OnboardingInv'
  BY <1>4, PersistBundleKeeps
<1>5. ASSUME NEW r \in Requests, Onboarding!PersistPayload(r) PROVE OnboardingInv'
  BY <1>5, PersistPayloadKeeps
<1>6. ASSUME NEW r \in Requests, Onboarding!PersistClient(r) PROVE OnboardingInv'
  BY <1>6, PersistClientKeeps
<1>7. ASSUME NEW r \in Requests, Onboarding!PersistAnswer(r) PROVE OnboardingInv'
  BY <1>7, PersistAnswerKeeps
<1>8. ASSUME NEW r \in Requests, Onboarding!End(r) \/ Onboarding!Abort(r) PROVE OnboardingInv'
  BY <1>8, EndKeeps
<1>9. ASSUME NEW action \in {"approve", "reject", "ask"}, Onboarding!Decide(action) PROVE OnboardingInv'
  BY <1>9, DecideKeeps
<1> QED BY <1>1, <1>2, <1>3, <1>4, <1>5, <1>6, <1>7, <1>8, <1>9 DEF Onboarding!Next

-----------------------------------------------------------------------------
(* The sessions keep their invariant *)

LEMMA TokensBounded == MaxTokens \in Nat \ {0}
BY SessionsKnown DEF SessionsKnown, Sessions!SessionsAssumption

USE TokensBounded

LEMMA SessionsInit == Sessions!Init => SessionsInv
<1> SUFFICES ASSUME Sessions!Init PROVE SessionsInv
  OBVIOUS
<1> USE DEF Sessions!Init, Sessions!NoRow, Sessions!Idle
<1>1. Sessions!TypeOK
  BY DEF Sessions!TypeOK, Sessions!Tokens
<1>2. NothingBeforeSignIn /\ Sessions!IndexFollowsSession
  BY DEF NothingBeforeSignIn, Sessions!IndexFollowsSession
<1> QED BY <1>1, <1>2 DEF SessionsInv

Turns ==
  [at : {"lookup", "loaded", "found", "provider", "refreshed", "refused", "signedOut", "save", "revoke"},
   kind : {"signIn", "use", "refresh", "signOut"}, server : Servers, token : Sessions!Tokens]

\* Types and what a request that is under way is.
LEMMA TurnTypes ==
  ASSUME SessionsInv, NEW q \in SessionCalls
  PROVE  /\ turn \in [SessionCalls -> {Sessions!Idle} \cup Turns]
         /\ turn[q].at # "idle" => turn[q] \in Turns /\ turn[q] # Sessions!Idle
<1>1. turn \in [SessionCalls -> {Sessions!Idle} \cup Turns]
  BY DEF SessionsInv, Sessions!TypeOK, Turns
<1> QED BY <1>1 DEF Sessions!Idle

LEMMA SessionTypes ==
  ASSUME SessionsInv
  PROVE  /\ row \in [token : 0 .. MaxTokens, revoked : BOOLEAN]
         /\ cached \in [Servers -> 0 .. MaxTokens] /\ index \in [Servers -> SUBSET Sessions!Tokens]
         /\ provider \in {"none", "open", "ended"} /\ issued \in 0 .. MaxTokens
BY DEF SessionsInv, Sessions!TypeOK

\* What a process remembers is what its index finds.
LEMMA RememberKeepsIndex ==
  ASSUME SessionsInv, NEW s \in Servers, NEW token \in Sessions!Tokens, Sessions!Remember(s, token)
  PROVE  /\ cached' \in [Servers -> 0 .. MaxTokens] /\ index' \in [Servers -> SUBSET Sessions!Tokens]
         /\ Sessions!IndexFollowsSession'
<1>1. token \in 0 .. MaxTokens /\ token # 0
  BY DEF Sessions!Tokens
<1>2. Sessions!IndexAfter(s, token) = {token}
  BY <1>1 DEF SessionsInv, Sessions!IndexFollowsSession, Sessions!IndexAfter
<1>3. index' = [index EXCEPT ![s] = {token}] /\ cached' = [cached EXCEPT ![s] = token]
  BY <1>2 DEF Sessions!Remember
<1>4. cached' \in [Servers -> 0 .. MaxTokens] /\ index' \in [Servers -> SUBSET Sessions!Tokens]
  BY <1>1, <1>3 DEF SessionsInv, Sessions!TypeOK
<1>5. ASSUME NEW x \in Servers PROVE index'[x] = {cached'[x]} \ {0}
  BY <1>1, <1>3 DEF SessionsInv, Sessions!TypeOK, Sessions!IndexFollowsSession
<1> QED BY <1>4, <1>5 DEF Sessions!IndexFollowsSession

LEMMA ForgetKeepsIndex ==
  ASSUME SessionsInv, NEW s \in Servers, Sessions!Forget(s)
  PROVE  /\ cached' \in [Servers -> 0 .. MaxTokens] /\ index' \in [Servers -> SUBSET Sessions!Tokens]
         /\ Sessions!IndexFollowsSession'
<1>1. cached' \in [Servers -> 0 .. MaxTokens] /\ index' \in [Servers -> SUBSET Sessions!Tokens]
  <2>1. 0 \in 0 .. MaxTokens
    OBVIOUS
  <2>2. cached' \in [Servers -> 0 .. MaxTokens]
    BY <2>1, SessionTypes DEF Sessions!Forget
  <2>3. index[s] \ {cached[s]} \in SUBSET Sessions!Tokens
    BY SessionTypes
  <2> QED BY <2>2, <2>3, SessionTypes DEF Sessions!Forget
<1>2. ASSUME NEW x \in Servers PROVE index'[x] = {cached'[x]} \ {0}
  BY DEF SessionsInv, Sessions!TypeOK, Sessions!IndexFollowsSession, Sessions!Forget
<1> QED BY <1>1, <1>2 DEF Sessions!IndexFollowsSession

\* One request moves on, and the rest is as it should be.
LEMMA TurnMoves ==
  ASSUME SessionsInv, NEW q \in SessionCalls, NEW t \in {Sessions!Idle} \cup Turns, turn' = [turn EXCEPT ![q] = t],
         row' \in [token : 0 .. MaxTokens, revoked : BOOLEAN], provider' \in {"none", "open", "ended"},
         issued' \in 0 .. MaxTokens, issued' > 0,
         cached' \in [Servers -> 0 .. MaxTokens], index' \in [Servers -> SUBSET Sessions!Tokens],
         Sessions!IndexFollowsSession', provider' # "none"
  PROVE  SessionsInv'
<1>1. Sessions!TypeOK'
  BY TurnTypes DEF SessionsInv, Sessions!TypeOK, Turns
<1>2. NothingBeforeSignIn'
  BY DEF NothingBeforeSignIn
<1> QED BY <1>1, <1>2 DEF SessionsInv

\* A request that only moves.
LEMMA OnlyTurnMoves ==
  ASSUME SessionsInv, NEW q \in SessionCalls, NEW t \in {Sessions!Idle} \cup Turns, turn' = [turn EXCEPT ![q] = t],
         UNCHANGED <<row, cached, index, provider, issued>>, issued > 0
  PROVE  SessionsInv'
<1>1. Sessions!IndexFollowsSession' /\ provider # "none"
  BY DEF SessionsInv, Sessions!IndexFollowsSession, NothingBeforeSignIn
<1> QED BY <1>1, TurnMoves DEF SessionsInv, Sessions!TypeOK

LEMMA SignInKeeps ==
  ASSUME SessionsInv, NEW q \in SessionCalls, NEW s \in Servers, Sessions!SignIn(q, s)
  PROVE  SessionsInv'
<1>1. 1 \in Sessions!Tokens /\ 1 \in 0 .. MaxTokens
  BY DEF Sessions!Tokens
<1>2. PICK t : t = [at |-> "save", kind |-> "signIn", server |-> s, token |-> 1]
  OBVIOUS
<1>3. t \in Turns
  BY <1>1, <1>2 DEF Turns
<1>4. /\ turn' = [turn EXCEPT ![q] = t] /\ provider' = "open" /\ issued' = 1 /\ row' = row
      /\ Sessions!Remember(s, 1)
  BY <1>2 DEF Sessions!SignIn
<1>5. /\ cached' \in [Servers -> 0 .. MaxTokens] /\ index' \in [Servers -> SUBSET Sessions!Tokens]
      /\ Sessions!IndexFollowsSession'
  BY <1>1, <1>4, RememberKeepsIndex
<1>6. issued' \in 0 .. MaxTokens /\ issued' > 0 /\ provider' # "none" /\ provider' \in {"none", "open", "ended"}
  BY <1>1, <1>4
<1> QED BY <1>3, <1>4, <1>5, <1>6, SessionTypes, TurnMoves

LEMMA PresentKeeps ==
  ASSUME SessionsInv, NEW q \in SessionCalls, NEW s \in Servers, NEW kind \in {"use", "refresh", "signOut"},
         NEW token \in Sessions!Tokens, Sessions!Present(q, s, kind, token)
  PROVE  SessionsInv'
<1>1. PICK at \in {"found", "lookup"}, tk \in Sessions!Tokens :
        turn' = [turn EXCEPT ![q] = [at |-> at, kind |-> kind, server |-> s, token |-> tk]]
  <2>1. cached[s] # 0 => cached[s] \in Sessions!Tokens
    <3>1. cached[s] \in 0 .. MaxTokens
      BY SessionTypes
    <3>2. \A c \in 0 .. MaxTokens : c # 0 => c \in Sessions!Tokens
      BY DEF Sessions!Tokens
    <3> QED BY <3>1, <3>2
  <2> QED BY <2>1 DEF Sessions!Present
<1>2. PICK t : t = [at |-> at, kind |-> kind, server |-> s, token |-> tk]
  OBVIOUS
<1>3. t \in Turns /\ turn' = [turn EXCEPT ![q] = t]
  BY <1>1, <1>2 DEF Turns
<1>4. issued > 0
  <2>1. token <= issued
    BY DEF Sessions!Present
  <2>2. \A k \in Sessions!Tokens, n \in 0 .. MaxTokens : k <= n => n > 0
    BY DEF Sessions!Tokens
  <2>3. issued \in 0 .. MaxTokens
    BY SessionTypes
  <2> QED BY <2>1, <2>2, <2>3
<1> QED BY <1>3, <1>4, OnlyTurnMoves DEF Sessions!Present

\* Where a request goes to is a place it can be in.
LEMMA GoesTo ==
  ASSUME SessionsInv, NEW q \in SessionCalls, turn[q].at # "idle",
         NEW place \in {"lookup", "loaded", "found", "provider", "refreshed", "refused", "signedOut", "save", "revoke"},
         Sessions!Moves(q, place) \/ Sessions!Ends(q)
  PROVE  \E t \in {Sessions!Idle} \cup Turns : turn' = [turn EXCEPT ![q] = t] /\ issued > 0 /\ provider # "none"
<1>1. issued > 0 /\ provider # "none" /\ turn[q] \in Turns
  <2>1. turn[q] \in Turns /\ turn[q] # Sessions!Idle
    BY TurnTypes
  <2>2. issued > 0
    BY <2>1 DEF SessionsInv, NothingBeforeSignIn
  <2>3. provider # "none"
    <3>1. provider = "none" => issued = 0
      BY DEF SessionsInv, NothingBeforeSignIn
    <3> QED BY <2>2, <3>1
  <2> QED BY <2>1, <2>2, <2>3
<1>2. CASE Sessions!Ends(q)
  BY <1>1, <1>2 DEF Sessions!Ends
<1>3. CASE Sessions!Moves(q, place)
  <2>1. PICK t : t = [turn[q] EXCEPT !.at = place]
    OBVIOUS
  <2>2. t \in Turns
    BY <1>1, <2>1 DEF Turns
  <2>3. turn' = [turn EXCEPT ![q] = t]
    BY <1>3, <2>1, TurnTypes DEF Sessions!Moves
  <2> QED BY <1>1, <2>2, <2>3
<1> QED BY <1>2, <1>3

\* The requests that only move, once they are under way.
LEMMA MovesKeep ==
  ASSUME SessionsInv, NEW q \in SessionCalls, Sessions!Lookup(q) \/ Sessions!Authenticate(q)
  PROVE  SessionsInv'
<1>1. /\ turn[q].at # "idle" /\ UNCHANGED <<row, cached, index, provider, issued>>
      /\ Sessions!Moves(q, "loaded") \/ Sessions!Moves(q, "provider") \/ Sessions!Ends(q)
  BY DEF Sessions!Lookup, Sessions!Authenticate
<1>2. PICK t \in {Sessions!Idle} \cup Turns : turn' = [turn EXCEPT ![q] = t] /\ issued > 0
  BY <1>1, GoesTo
<1> QED BY <1>1, <1>2, OnlyTurnMoves

LEMMA LoadedKeeps ==
  ASSUME SessionsInv, NEW q \in SessionCalls, Sessions!Loaded(q)
  PROVE  SessionsInv'
<1>1. turn[q].at # "idle" /\ Sessions!Moves(q, "found") /\ UNCHANGED <<row, provider, issued>>
      /\ Sessions!Remember(turn[q].server, turn[q].token)
  BY DEF Sessions!Loaded
<1>2. PICK t \in {Sessions!Idle} \cup Turns :
        turn' = [turn EXCEPT ![q] = t] /\ issued > 0 /\ provider # "none"
  BY <1>1, GoesTo
<1>3. turn[q].server \in Servers /\ turn[q].token \in Sessions!Tokens
  BY <1>1, TurnTypes DEF Turns
<1>4. /\ cached' \in [Servers -> 0 .. MaxTokens] /\ index' \in [Servers -> SUBSET Sessions!Tokens]
      /\ Sessions!IndexFollowsSession'
  BY <1>1, <1>3, RememberKeepsIndex
<1> QED BY <1>1, <1>2, <1>4, SessionTypes, TurnMoves

LEMMA RevokeKeeps ==
  ASSUME SessionsInv, NEW q \in SessionCalls, Sessions!Revoke(q)
  PROVE  SessionsInv'
<1>1. turn[q].at # "idle" /\ Sessions!Moves(q, "revoke") /\ UNCHANGED <<row, provider, issued>>
      /\ Sessions!Forget(turn[q].server)
  BY DEF Sessions!Revoke
<1>2. PICK t \in {Sessions!Idle} \cup Turns :
        turn' = [turn EXCEPT ![q] = t] /\ issued > 0 /\ provider # "none"
  BY <1>1, GoesTo
<1>3. turn[q].server \in Servers
  BY <1>1, TurnTypes DEF Turns
<1>4. /\ cached' \in [Servers -> 0 .. MaxTokens] /\ index' \in [Servers -> SUBSET Sessions!Tokens]
      /\ Sessions!IndexFollowsSession'
  BY <1>1, <1>3, ForgetKeepsIndex
<1> QED BY <1>1, <1>2, <1>4, SessionTypes, TurnMoves

LEMMA ProviderAnswersKeeps ==
  ASSUME SessionsInv, NEW q \in SessionCalls, Sessions!ProviderAnswers(q)
  PROVE  SessionsInv'
<1>1. /\ turn[q].at # "idle" /\ UNCHANGED <<row, cached, index, issued>> /\ provider' \in {provider, "ended"}
      /\ \/ Sessions!Moves(q, "refreshed") \/ Sessions!Moves(q, "refused") \/ Sessions!Moves(q, "signedOut")
         \/ Sessions!Ends(q)
  BY DEF Sessions!ProviderAnswers
<1>2. PICK t \in {Sessions!Idle} \cup Turns :
        turn' = [turn EXCEPT ![q] = t] /\ issued > 0 /\ provider # "none"
  BY <1>1, GoesTo
<1>3. Sessions!IndexFollowsSession'
  BY <1>1 DEF SessionsInv, Sessions!IndexFollowsSession
<1> QED BY <1>1, <1>2, <1>3, SessionTypes, TurnMoves

LEMMA ReissueKeeps ==
  ASSUME SessionsInv, NEW q \in SessionCalls, Sessions!Reissue(q)
  PROVE  SessionsInv'
<1>1. turn[q] \in Turns
  BY TurnTypes DEF Sessions!Reissue
<1>2. issued < MaxTokens /\ issued' = issued + 1
  BY DEF Sessions!Reissue
<1>3. PICK next : next = issued + 1
  OBVIOUS
<1>4. next \in Sessions!Tokens /\ next \in 0 .. MaxTokens /\ next > 0 /\ issued' = next
  BY <1>2, <1>3, SessionTypes DEF Sessions!Tokens
<1>5. PICK t : t = [turn[q] EXCEPT !.at = "save", !.token = next]
  OBVIOUS
<1>6. t \in Turns
  BY <1>1, <1>4, <1>5 DEF Turns
<1>7. turn' = [turn EXCEPT ![q] = t]
  <2>1. turn' = [turn EXCEPT ![q].at = "save", ![q].token = next]
    BY <1>3 DEF Sessions!Reissue
  <2>2. turn' = [turn EXCEPT ![q] = [turn[q] EXCEPT !.at = "save", !.token = next]]
    BY <2>1, TurnTypes
  <2> DEFINE u == [turn[q] EXCEPT !.at = "save", !.token = next]
  <2>3. turn' = [turn EXCEPT ![q] = u] /\ u = t
    BY <2>2, <1>5
  <2> HIDE DEF u
  <2> QED BY <2>3
<1>8. Sessions!Remember(turn[q].server, next) /\ turn[q].server \in Servers /\ UNCHANGED <<row, provider>>
  BY <1>1, <1>3 DEF Sessions!Reissue, Turns
<1>9. /\ cached' \in [Servers -> 0 .. MaxTokens] /\ index' \in [Servers -> SUBSET Sessions!Tokens]
      /\ Sessions!IndexFollowsSession'
  BY <1>4, <1>8, RememberKeepsIndex
<1>10. provider' # "none"
  <2>1. turn[q] # Sessions!Idle
    BY TurnTypes DEF Sessions!Reissue
  <2>2. issued > 0 /\ (provider = "none" => issued = 0)
    BY <2>1 DEF SessionsInv, NothingBeforeSignIn
  <2> QED BY <1>8, <2>2
<1> QED BY <1>4, <1>6, <1>7, <1>8, <1>9, <1>10, SessionTypes, TurnMoves

LEMMA SavesKeep ==
  ASSUME SessionsInv, NEW q \in SessionCalls, Sessions!Save(q) \/ Sessions!SaveRevoked(q)
  PROVE  SessionsInv'
<1>1. turn[q].at # "idle" /\ UNCHANGED <<cached, index, provider, issued>> /\ Sessions!Ends(q)
  BY DEF Sessions!Save, Sessions!SaveRevoked
<1>2. PICK t \in {Sessions!Idle} \cup Turns :
        turn' = [turn EXCEPT ![q] = t] /\ issued > 0 /\ provider # "none"
  BY <1>1, GoesTo
<1>3. turn[q].token \in 0 .. MaxTokens
  BY <1>1, TurnTypes DEF Turns, Sessions!Tokens
<1>4. row' \in [token : 0 .. MaxTokens, revoked : BOOLEAN]
  <2>1. CASE Sessions!Save(q)
    <3>1. PICK token \in 0 .. MaxTokens : token = turn[q].token
      BY <1>3
    <3>2. row' = [token |-> token, revoked |-> FALSE] \/ row' = row
      BY <2>1, <3>1 DEF Sessions!Save
    <3>3. [token |-> token, revoked |-> FALSE] \in [token : 0 .. MaxTokens, revoked : BOOLEAN]
      OBVIOUS
    <3>4. row \in [token : 0 .. MaxTokens, revoked : BOOLEAN]
      BY SessionTypes
    <3> QED BY <3>2, <3>3, <3>4, Zenon
  <2>2. CASE Sessions!SaveRevoked(q)
    BY <2>2, SessionTypes DEF Sessions!SaveRevoked
  <2> QED BY <2>1, <2>2
<1>5. Sessions!IndexFollowsSession'
  BY <1>1 DEF SessionsInv, Sessions!IndexFollowsSession
<1> QED BY <1>1, <1>2, <1>4, <1>5, SessionTypes, TurnMoves

LEMMA RestartServerKeeps ==
  ASSUME SessionsInv, NEW s \in Servers, Sessions!RestartServer(s)
  PROVE  SessionsInv'
<1> USE DEF Sessions!RestartServer
<1>1. turn' \in [SessionCalls -> {Sessions!Idle} \cup Turns]
  BY TurnTypes
<1>2. cached' \in [Servers -> 0 .. MaxTokens] /\ index' \in [Servers -> SUBSET Sessions!Tokens]
  BY SessionTypes
<1>3. Sessions!TypeOK'
  BY <1>1, <1>2, SessionTypes DEF Sessions!TypeOK, Turns
<1>4. NothingBeforeSignIn'
  BY DEF SessionsInv, NothingBeforeSignIn
<1>5. ASSUME NEW x \in Servers PROVE index'[x] = {cached'[x]} \ {0}
  BY SessionTypes DEF SessionsInv, Sessions!IndexFollowsSession
<1> QED BY <1>3, <1>4, <1>5 DEF SessionsInv, Sessions!IndexFollowsSession

LEMMA SessionsKeep ==
  ASSUME SessionsInv, [Sessions!Next]_sessionVars
  PROVE  SessionsInv'
<1>1. CASE UNCHANGED sessionVars
  BY <1>1 DEF sessionVars, SessionsInv, Sessions!TypeOK, NothingBeforeSignIn, Sessions!IndexFollowsSession
<1>2. ASSUME NEW q \in SessionCalls, NEW s \in Servers, Sessions!SignIn(q, s) PROVE SessionsInv'
  BY <1>2, SignInKeeps
<1>3. ASSUME NEW q \in SessionCalls, NEW s \in Servers, NEW kind \in {"use", "refresh", "signOut"},
             NEW token \in Sessions!Tokens, Sessions!Present(q, s, kind, token)
      PROVE  SessionsInv'
  BY <1>3, PresentKeeps
<1>4. ASSUME NEW q \in SessionCalls, Sessions!Lookup(q) \/ Sessions!Authenticate(q) PROVE SessionsInv'
  BY <1>4, MovesKeep
<1>5. ASSUME NEW q \in SessionCalls, Sessions!Loaded(q) PROVE SessionsInv'
  BY <1>5, LoadedKeeps
<1>6. ASSUME NEW q \in SessionCalls, Sessions!Revoke(q) PROVE SessionsInv'
  BY <1>6, RevokeKeeps
<1>7. ASSUME NEW q \in SessionCalls, Sessions!ProviderAnswers(q) PROVE SessionsInv'
  BY <1>7, ProviderAnswersKeeps
<1>8. ASSUME NEW q \in SessionCalls, Sessions!Reissue(q) PROVE SessionsInv'
  BY <1>8, ReissueKeeps
<1>9. ASSUME NEW q \in SessionCalls, Sessions!Save(q) \/ Sessions!SaveRevoked(q) PROVE SessionsInv'
  BY <1>9, SavesKeep
<1>10. ASSUME NEW s \in Servers, Sessions!RestartServer(s) PROVE SessionsInv'
  BY <1>10, RestartServerKeeps
<1> QED BY <1>1, <1>2, <1>3, <1>4, <1>5, <1>6, <1>7, <1>8, <1>9, <1>10 DEF Sessions!Next

\* A session that is gone finds nobody that would bring it back: no process and
\* no request remembers it, the row is revoked, and nobody signs in again.
LEMMA GoneStays ==
  ASSUME SessionsInv, [Sessions!Next]_sessionVars, Sessions!Gone
  PROVE  Sessions!Gone'
<1>1. /\ row.revoked /\ \A s \in Servers : cached[s] = 0
      /\ \A q \in SessionCalls : turn[q].at \in {"idle", "lookup", "revoke"}
  BY DEF Sessions!Gone
<1>2. provider # "none"
  <2>1. row # Sessions!NoRow
    BY <1>1 DEF Sessions!NoRow
  <2>2. issued > 0 /\ (provider = "none" => issued = 0)
    BY <2>1 DEF SessionsInv, NothingBeforeSignIn
  <2> QED BY <2>2
<1> USE TurnTypes DEF Sessions!Idle
<1>3. CASE UNCHANGED sessionVars
  BY <1>1, <1>3 DEF sessionVars, Sessions!Gone
<1>4. ASSUME NEW q \in SessionCalls, NEW s \in Servers, NEW kind \in {"use", "refresh", "signOut"},
             NEW token \in Sessions!Tokens, Sessions!Present(q, s, kind, token)
      PROVE  Sessions!Gone'
  BY <1>1, <1>4 DEF Sessions!Present, Sessions!Gone
<1>5. ASSUME NEW q \in SessionCalls, Sessions!Lookup(q) PROVE Sessions!Gone'
  BY <1>1, <1>5 DEF Sessions!Lookup, Sessions!Usable, Sessions!Ends, Sessions!Gone
<1>6. ASSUME NEW q \in SessionCalls, Sessions!SaveRevoked(q) PROVE Sessions!Gone'
  <2>1. row # Sessions!NoRow
    BY <1>1 DEF Sessions!NoRow
  <2>2. row'.revoked
    BY <1>1, <1>6, <2>1, SessionTypes DEF Sessions!SaveRevoked
  <2> QED BY <1>1, <1>6, <2>2 DEF Sessions!SaveRevoked, Sessions!Ends, Sessions!Gone
<1>7. ASSUME NEW s \in Servers, Sessions!RestartServer(s) PROVE Sessions!Gone'
  BY <1>1, <1>7, SessionTypes DEF Sessions!RestartServer, Sessions!Gone
<1> QED BY <1>1, <1>2, <1>3, <1>4, <1>5, <1>6, <1>7
        DEF Sessions!Next, Sessions!SignIn, Sessions!Loaded, Sessions!Authenticate, Sessions!Revoke,
            Sessions!ProviderAnswers, Sessions!Reissue, Sessions!Save

-----------------------------------------------------------------------------
(* The drafts keep their invariant *)

LEMMA TimesBounded == MaxTimes \in Nat \ {0} /\ Rails \subseteq Items
BY DraftsKnown DEF DraftsKnown, Drafts!DraftsAssumption

LEMMA DraftsInit == Drafts!Init => DraftsInv
<1> SUFFICES ASSUME Drafts!Init PROVE DraftsInv
  OBVIOUS
<1> USE DEF Drafts!Init
<1>1. Drafts!TypeOK
  <2>1. {open, known, captured, reload} \subseteq BOOLEAN
    BY Zenon
  <2>2. times \in [Items -> 0 .. MaxTimes]
    BY TimesBounded
  <2> QED BY <2>1, <2>2 DEF Drafts!TypeOK
<1>2. \A t \in Retries : ReadBy(t) = {} /\ ToDoBy(t) = {} /\ LeftBy(t) = {}
  BY DEF ReadBy, ToDoBy, LeftBy
<1>3. RetryTypes /\ RoundsAdvance /\ DraftsAreSaved /\ DoneIsDone /\ Drafts!CarriedOutOnce
  BY <1>2 DEF RetryTypes, RoundsAdvance, DraftsAreSaved, DoneIsDone, Drafts!CarriedOutOnce
<1> QED BY <1>1, <1>3 DEF DraftsInv

\* A retry has as before what it has read, has yet to do and could not do.
Stays(t) == ReadBy(t)' = ReadBy(t) /\ ToDoBy(t)' = ToDoBy(t) /\ LeftBy(t)' = LeftBy(t)

LEMMA SameRetryStays ==
  ASSUME NEW t, retry'[t] = retry[t]
  PROVE  Stays(t)
BY DEF Stays, ReadBy, ToDoBy, LeftBy

LEMMA ReadAreItems ==
  ASSUME DraftsInv, NEW t \in Retries
  PROVE  ReadBy(t) \subseteq Items /\ ToDoBy(t) \subseteq ReadBy(t) /\ LeftBy(t) \subseteq ReadBy(t)
BY DEF DraftsInv, RetryTypes, RoundsAdvance, Rounds, ReadBy

\* A retry begins: it has read all drafts and done none, and the drafts that
\* another has read are unsure from now on.
LEMMA BeginsKeeps ==
  ASSUME DraftsInv, NEW t \in Retries, Drafts!Begins(t), UNCHANGED <<drafts, save, times>>,
         {open, known, captured, reload}' \subseteq BOOLEAN
  PROVE  DraftsInv'
<1>1. unsure \subseteq unsure' /\ unsure' \subseteq Items
      /\ \A u \in Retries : drafts \cap ReadBy(u) \subseteq unsure'
  BY DEF Drafts!Begins, ReadBy, DraftsInv, Drafts!TypeOK
<1>2. retry \in [Retries -> {Drafts!Idle} \cup Rounds] /\ retry[t] = Drafts!Idle
  BY DEF DraftsInv, RetryTypes, Drafts!Begins
<1>3. \A u \in Retries \ {t} : Stays(u)
  <2>1. \A u \in Retries \ {t} : retry'[u] = retry[u]
    BY <1>2 DEF Drafts!Begins
  <2> QED BY <2>1, SameRetryStays
<1>4. RetryTypes'
  BY <1>2 DEF Drafts!Begins, RetryTypes, Rounds, DraftsInv, Drafts!TypeOK
<1>5. ReadBy(t)' \subseteq drafts /\ ToDoBy(t)' = ReadBy(t)' /\ LeftBy(t)' = {}
  <2>1. CASE drafts = {}
    BY <1>2, <2>1 DEF Drafts!Begins, ReadBy, ToDoBy, LeftBy
  <2>2. CASE drafts # {}
    <3>1. PICK x : x = [at |-> "next", read |-> drafts, todo |-> drafts, remaining |-> {}]
      OBVIOUS
    <3>2. retry'[t] = x /\ x # Drafts!Idle /\ x.read = drafts /\ x.todo = drafts /\ x.remaining = {}
      BY <1>2, <2>2, <3>1 DEF Drafts!Begins, Drafts!Idle
    <3> QED BY <3>2 DEF ReadBy, ToDoBy, LeftBy
  <2> QED BY <2>1, <2>2
<1>6. Drafts!TypeOK'
  BY <1>1 DEF DraftsInv, Drafts!TypeOK
<1>7. RoundsAdvance'
  BY <1>3, <1>5 DEF DraftsInv, RoundsAdvance, Stays
<1>8. DraftsAreSaved'
  BY <1>1, <1>3, <1>5 DEF DraftsInv, DraftsAreSaved, Stays
<1>9. DoneIsDone'
  BY <1>1, <1>3, <1>5 DEF DraftsInv, DoneIsDone, Stays
<1>10. Drafts!CarriedOutOnce'
  BY <1>1 DEF DraftsInv, Drafts!CarriedOutOnce
<1> QED BY <1>4, <1>6, <1>7, <1>8, <1>9, <1>10 DEF DraftsInv

\* The page is closed: no retry is under way, and what one had read is unsure.
LEMMA CloseKeeps ==
  ASSUME DraftsInv, Drafts!Close
  PROVE  DraftsInv'
<1> USE DEF Drafts!Close
<1>1. unsure \subseteq unsure' /\ unsure' \subseteq Items /\ \A u \in Retries : ReadBy(u) \subseteq unsure'
  <2>1. \A u \in Retries : ReadBy(u) \subseteq unsure'
    BY DEF ReadBy
  <2>2. \A u \in Retries : retry[u] # Drafts!Idle => retry[u].read \subseteq Items
    BY DEF DraftsInv, RetryTypes, Rounds
  <2> QED BY <2>1, <2>2 DEF DraftsInv, Drafts!TypeOK
<1>2. RetryTypes' /\ \A u \in Retries : ReadBy(u)' = {} /\ ToDoBy(u)' = {} /\ LeftBy(u)' = {}
  BY DEF RetryTypes, ReadBy, ToDoBy, LeftBy
<1>3. /\ save' \in [Items -> {"unsaved", "ok", "error", "ended"}]
      /\ \A i \in Items : save'[i] = "unsaved" => save[i] = "unsaved"
      /\ \A i \in Items : save[i] # "unsaved" => save'[i] = "ended"
  OBVIOUS
<1>4. Drafts!TypeOK'
  <2>1. {open, known, captured, reload}' \subseteq BOOLEAN
    BY Zenon DEF DraftsInv, Drafts!TypeOK
  <2> QED BY <1>1, <1>3, <2>1 DEF DraftsInv, Drafts!TypeOK
<1>5. RoundsAdvance'
  BY <1>2 DEF RoundsAdvance
<1>6. DraftsAreSaved'
  BY <1>2, <1>3 DEF DraftsInv, Drafts!TypeOK, DraftsAreSaved
<1>7. DoneIsDone'
  BY <1>1, <1>2, <1>3 DEF DraftsInv, DoneIsDone
<1>8. Drafts!CarriedOutOnce'
  BY <1>1 DEF DraftsInv, Drafts!CarriedOutOnce
<1> QED BY <1>2, <1>4, <1>5, <1>6, <1>7, <1>8 DEF DraftsInv

\* What the server's part of a save or a retry does to the counts.
LEMMA CarriesCounts ==
  ASSUME DraftsInv, NEW i \in Items, NEW answer \in {"ok", "error"}, Drafts!Carries(i, answer)
  PROVE  /\ times' \in [Items -> 0 .. MaxTimes] /\ unsure \subseteq unsure' /\ unsure' \subseteq Items
         /\ \A j \in Items \ {i} : times'[j] = times[j]
         /\ times'[i] = times[i] \/ (times'[i] = times[i] + 1 /\ (answer = "ok" \/ i \in unsure'))
         /\ answer = "ok" => times'[i] = times[i] + 1
<1>1. times \in [Items -> 0 .. MaxTimes] /\ unsure \subseteq Items /\ MaxTimes \in Nat
  BY TimesBounded DEF DraftsInv, Drafts!TypeOK
<1>2. PICK n \in 0 .. MaxTimes : n = times[i]
  BY <1>1
<1>3. n < MaxTimes => n + 1 \in 0 .. MaxTimes
  BY <1>1
<1> QED BY <1>1, <1>2, <1>3 DEF Drafts!Carries

\* A save begins: nobody has had the item before.
LEMMA SaveKeeps ==
  ASSUME DraftsInv, NEW i \in Items, Drafts!Save(i)
  PROVE  DraftsInv'
<1>1. /\ save[i] = "unsaved" /\ times[i] = 0 /\ i \notin drafts /\ \A t \in Retries : i \notin ReadBy(t)
      /\ save \in [Items -> {"unsaved", "ok", "error", "ended"}] /\ drafts \subseteq Items
      /\ times \in [Items -> 0 .. MaxTimes]
  BY DEF Drafts!Save, DraftsInv, DraftsAreSaved, Drafts!TypeOK
<1>2. /\ \A t \in Retries : Stays(t)
      /\ RetryTypes'
  BY SameRetryStays DEF Drafts!Save, DraftsInv, RetryTypes
<1>3. {open, known, captured, reload}' \subseteq BOOLEAN
  <2>1. UNCHANGED <<open, known, captured, reload>>
    BY DEF Drafts!Save
  <2> QED BY <2>1, Zenon DEF DraftsInv, Drafts!TypeOK
<1>4. CASE i \in Rails /\ ~known
  <2>1. /\ save' = [save EXCEPT ![i] = "ended"] /\ drafts' = drafts \cup {i}
        /\ UNCHANGED <<times, unsure>>
    BY <1>4 DEF Drafts!Save
  <2>2. Drafts!TypeOK'
    BY <1>1, <1>3, <2>1 DEF DraftsInv, Drafts!TypeOK
  <2>3. RoundsAdvance' /\ DraftsAreSaved'
    BY <1>1, <1>2, <2>1 DEF DraftsInv, RoundsAdvance, DraftsAreSaved, Stays
  <2>4. DoneIsDone'
    BY <1>1, <1>2, <2>1 DEF DraftsInv, DoneIsDone, Stays
  <2>5. Drafts!CarriedOutOnce'
    BY <2>1 DEF DraftsInv, Drafts!CarriedOutOnce
  <2> QED BY <1>2, <2>2, <2>3, <2>4, <2>5 DEF DraftsInv
<1>5. CASE ~(i \in Rails /\ ~known)
  <2>1. PICK answer \in {"ok", "error"} : Drafts!Carries(i, answer) /\ save' = [save EXCEPT ![i] = answer]
    BY <1>5 DEF Drafts!Save
  <2>2. /\ times' \in [Items -> 0 .. MaxTimes] /\ unsure \subseteq unsure' /\ unsure' \subseteq Items
        /\ \A j \in Items \ {i} : times'[j] = times[j]
        /\ times'[i] = 0 \/ (times'[i] = 1 /\ (answer = "ok" \/ i \in unsure'))
        /\ drafts' = drafts
    BY <1>1, <1>5, <2>1, CarriesCounts DEF Drafts!Save
  <2>3. Drafts!TypeOK'
    BY <1>1, <1>3, <2>1, <2>2 DEF DraftsInv, Drafts!TypeOK
  <2>4. RoundsAdvance'
    <3>1. \A t \in Retries : \A j \in ReadBy(t) : j \in Items \ {i}
      BY <1>1, ReadAreItems
    <3> QED BY <1>2, <2>2, <3>1 DEF DraftsInv, RoundsAdvance, Stays
  <2>5. DraftsAreSaved'
    <3>1. \A j \in Items : save'[j] = "unsaved" => j # i /\ save[j] = "unsaved"
      BY <1>1, <2>1
    <3>2. \A t \in Retries : \A j \in ReadBy(t) : j # i
      BY <1>1
    <3> QED BY <1>1, <1>2, <2>1, <2>2, <3>1, <3>2 DEF DraftsInv, DraftsAreSaved, Stays
  <2>6. DoneIsDone'
    <3> SUFFICES ASSUME NEW j \in Items \ unsure', times'[j] > 0
                 PROVE  /\ save'[j] \in {"ok", "ended"}
                        /\ \A t \in Retries : j \notin ToDoBy(t) \cup LeftBy(t)
                        /\ j \in drafts => \E t \in Retries : j \in ReadBy(t)
      BY <1>2, <2>2 DEF DoneIsDone, Stays
    <3>1. CASE j = i
      BY <1>1, <2>1, <2>2, <3>1, ReadAreItems
    <3>2. CASE j # i
      BY <1>1, <2>1, <2>2, <3>2 DEF DraftsInv, DoneIsDone
    <3> QED BY <3>1, <3>2
  <2>7. Drafts!CarriedOutOnce'
    BY <1>1, <2>2 DEF DraftsInv, Drafts!CarriedOutOnce
  <2> QED BY <1>2, <2>3, <2>4, <2>5, <2>6, <2>7 DEF DraftsInv
<1> QED BY <1>4, <1>5

\* What failed becomes a draft; it was not carried out for sure.
LEMMA EnqueueDraftKeeps ==
  ASSUME DraftsInv, NEW i \in Items, Drafts!EnqueueDraft(i)
  PROVE  DraftsInv'
<1>1. /\ save[i] = "error" /\ save' = [save EXCEPT ![i] = "ended"] /\ drafts' = drafts \cup {i}
      /\ UNCHANGED <<open, known, captured, reload, retry, times, unsure>>
      /\ save \in [Items -> {"unsaved", "ok", "error", "ended"}]
  BY DEF Drafts!EnqueueDraft, DraftsInv, Drafts!TypeOK
<1>2. RetryTypes' /\ \A t \in Retries : Stays(t)
  BY <1>1, SameRetryStays DEF DraftsInv, RetryTypes
<1>3. Drafts!TypeOK'
  <2>1. {open, known, captured, reload}' \subseteq BOOLEAN
    BY <1>1, Zenon DEF DraftsInv, Drafts!TypeOK
  <2> QED BY <1>1, <2>1 DEF DraftsInv, Drafts!TypeOK
<1>4. RoundsAdvance' /\ DraftsAreSaved'
  BY <1>1, <1>2 DEF DraftsInv, RoundsAdvance, DraftsAreSaved, Stays
<1>5. DoneIsDone'
  BY <1>1, <1>2 DEF DraftsInv, DoneIsDone, Stays
<1>6. Drafts!CarriedOutOnce'
  BY <1>1 DEF DraftsInv, Drafts!CarriedOutOnce
<1> QED BY <1>2, <1>3, <1>4, <1>5, <1>6 DEF DraftsInv

LEMMA LoadsBoolean ==
  ASSUME Drafts!Loads
  PROVE  known' \in BOOLEAN
BY Zenon DEF Drafts!Loads, Drafts!HasAccount

LEMMA LoadAfterSaveKeeps ==
  ASSUME DraftsInv, NEW i \in Items, Drafts!LoadAfterSave(i)
  PROVE  DraftsInv'
<1>1. /\ save[i] = "ok" /\ save' = [save EXCEPT ![i] = "ended"]
      /\ UNCHANGED <<open, captured, reload, drafts, retry, times, unsure>>
      /\ save \in [Items -> {"unsaved", "ok", "error", "ended"}]
  BY DEF Drafts!LoadAfterSave, DraftsInv, Drafts!TypeOK
<1>2. RetryTypes' /\ \A t \in Retries : Stays(t)
  BY <1>1, SameRetryStays DEF DraftsInv, RetryTypes
<1>3. Drafts!TypeOK'
  <2>1. {open, known, captured, reload}' \subseteq BOOLEAN
    <3>1. known' \in BOOLEAN
      BY LoadsBoolean DEF Drafts!LoadAfterSave
    <3> QED BY <1>1, <3>1, Zenon DEF DraftsInv, Drafts!TypeOK
  <2> QED BY <1>1, <2>1 DEF DraftsInv, Drafts!TypeOK
<1>4. RoundsAdvance' /\ DraftsAreSaved'
  BY <1>1, <1>2 DEF DraftsInv, RoundsAdvance, DraftsAreSaved, Stays, Drafts!TypeOK
<1>5. DoneIsDone'
  BY <1>1, <1>2 DEF DraftsInv, DoneIsDone, Stays
<1>6. Drafts!CarriedOutOnce'
  BY <1>1 DEF DraftsInv, Drafts!CarriedOutOnce
<1> QED BY <1>2, <1>3, <1>4, <1>5, <1>6 DEF DraftsInv

\* The page alone changes.
LEMMA ReloadedKeeps ==
  ASSUME DraftsInv, UNCHANGED <<drafts, save, retry, times, unsure>>, {open, known, captured, reload}' \subseteq BOOLEAN
  PROVE  DraftsInv'
<1>1. \A t \in Retries : Stays(t)
  BY SameRetryStays
<1>2. Drafts!TypeOK' /\ RetryTypes' /\ Drafts!CarriedOutOnce'
  BY DEF DraftsInv, Drafts!TypeOK, RetryTypes, Drafts!CarriedOutOnce
<1>3. RoundsAdvance' /\ DraftsAreSaved' /\ DoneIsDone'
  BY <1>1 DEF DraftsInv, RoundsAdvance, DraftsAreSaved, DoneIsDone, Stays
<1> QED BY <1>2, <1>3 DEF DraftsInv

\* One retry moves on to a round of what it has read.
LEMMA RoundMoves ==
  ASSUME DraftsInv, NEW t \in Retries, NEW x \in Rounds, retry' = [retry EXCEPT ![t] = x]
  PROVE  /\ RetryTypes' /\ \A u \in Retries \ {t} : Stays(u)
         /\ ReadBy(t)' = x.read /\ ToDoBy(t)' = x.todo /\ LeftBy(t)' = x.remaining
<1>1. x # Drafts!Idle /\ retry \in [Retries -> {Drafts!Idle} \cup Rounds]
  BY DEF Rounds, Drafts!Idle, DraftsInv, RetryTypes
<1>2. RetryTypes'
  BY <1>1 DEF RetryTypes
<1>3. \A u \in Retries \ {t} : Stays(u)
  <2>1. \A u \in Retries \ {t} : retry'[u] = retry[u]
    BY <1>1
  <2> QED BY <2>1, SameRetryStays
<1>4. ReadBy(t)' = x.read /\ ToDoBy(t)' = x.todo /\ LeftBy(t)' = x.remaining
  <2>1. retry'[t] = x
    BY <1>1
  <2> QED BY <1>1, <2>1 DEF ReadBy, ToDoBy, LeftBy
<1> QED BY <1>2, <1>3, <1>4

\* A draft is carried out by a retry, or left.
LEMMA ExecuteDraftKeeps ==
  ASSUME DraftsInv, NEW t \in Retries, NEW i \in Items, Drafts!ExecuteDraft(t, i)
  PROVE  DraftsInv'
<1>1. /\ retry[t].at = "next" /\ i \in retry[t].todo /\ retry[t] \in Rounds /\ retry[t] # Drafts!Idle
      /\ UNCHANGED <<open, known, captured, reload, drafts, save>>
      /\ retry \in [Retries -> {Drafts!Idle} \cup Rounds]
  BY DEF Drafts!ExecuteDraft, DraftsInv, RetryTypes, Drafts!Idle
<1>2. ReadBy(t) = retry[t].read /\ ToDoBy(t) = retry[t].todo /\ LeftBy(t) = retry[t].remaining
  BY <1>1 DEF ReadBy, ToDoBy, LeftBy
<1>3. i \in ToDoBy(t) /\ i \in ReadBy(t) /\ i \notin LeftBy(t) /\ save[i] = "ended"
  BY <1>1, <1>2 DEF DraftsInv, RoundsAdvance, DraftsAreSaved
<1>4. /\ times' \in [Items -> 0 .. MaxTimes] /\ unsure \subseteq unsure' /\ unsure' \subseteq Items
      /\ \A j \in Items \ {i} : times'[j] = times[j]
      /\ times'[i] = times[i] \/ times'[i] = times[i] + 1
      /\ \E x \in Rounds :
           /\ retry' = [retry EXCEPT ![t] = x] /\ x.read = ReadBy(t) /\ x.todo = ToDoBy(t) \ {i}
           /\ \/ x.remaining = LeftBy(t) \cup {i} /\ (times'[i] = times[i] \/ i \in unsure')
              \/ x.remaining = LeftBy(t) /\ times'[i] = times[i] + 1
  <2> USE DEF Drafts!StillThere
  <2>1. CASE i \in Rails /\ ~captured
    <3>1. PICK x : x = [retry[t] EXCEPT !.todo = @ \ {i}, !.remaining = @ \cup {i}]
      OBVIOUS
    <3>2. x \in Rounds /\ x.read = ReadBy(t) /\ x.todo = ToDoBy(t) \ {i} /\ x.remaining = LeftBy(t) \cup {i}
      BY <1>1, <1>2, <3>1 DEF Rounds
    <3>3. retry' = [retry EXCEPT ![t] = x] /\ UNCHANGED <<times, unsure>>
      <4>1. retry' = [retry EXCEPT ![t].todo = @ \ {i}, ![t].remaining = @ \cup {i}] /\ UNCHANGED <<times, unsure>>
        BY <2>1 DEF Drafts!ExecuteDraft
      <4> DEFINE w == [retry[t] EXCEPT !.todo = @ \ {i}, !.remaining = @ \cup {i}]
      <4>2. retry' = [retry EXCEPT ![t] = w] /\ w = x
        BY <1>1, <3>1, <4>1
      <4> HIDE DEF w
      <4> QED BY <4>1, <4>2
    <3> QED BY <3>2, <3>3 DEF DraftsInv, Drafts!TypeOK
  <2>2. ASSUME NEW answer \in {"ok", "error"}, Drafts!Carries(i, answer),
               retry' = [retry EXCEPT ![t].todo = @ \ {i}, ![t].at = answer,
                           ![t].remaining = IF answer = "error" THEN Drafts!StillThere(@, i) ELSE @]
        PROVE  \E x \in Rounds :
           /\ retry' = [retry EXCEPT ![t] = x] /\ x.read = ReadBy(t) /\ x.todo = ToDoBy(t) \ {i}
           /\ \/ x.remaining = LeftBy(t) \cup {i} /\ answer = "error"
              \/ x.remaining = LeftBy(t) /\ answer = "ok"
    <3>1. PICK left : left = IF answer = "error" THEN LeftBy(t) \cup {i} ELSE LeftBy(t)
      OBVIOUS
    <3>2. PICK x : x = [retry[t] EXCEPT !.todo = @ \ {i}, !.at = answer, !.remaining = left]
      OBVIOUS
    <3>3. left \in SUBSET Items
      BY <1>1, <1>2, <3>1 DEF Rounds
    <3>4. x \in Rounds /\ x.read = ReadBy(t) /\ x.todo = ToDoBy(t) \ {i} /\ x.remaining = left
      BY <1>1, <1>2, <3>2, <3>3 DEF Rounds
    <3>5. retry' = [retry EXCEPT ![t] = x]
      <4> DEFINE w == [retry[t] EXCEPT !.todo = @ \ {i}, !.at = answer, !.remaining = left]
      <4>1. retry' = [retry EXCEPT ![t] = w] /\ w = x
        BY <1>1, <1>2, <2>2, <3>1, <3>2
      <4> HIDE DEF w
      <4> QED BY <4>1
    <3> QED BY <3>1, <3>4, <3>5
  <2>3. CASE ~(i \in Rails /\ ~captured)
    <3>1. PICK answer \in {"ok", "error"} :
            /\ Drafts!Carries(i, answer)
            /\ retry' = [retry EXCEPT ![t].todo = @ \ {i}, ![t].at = answer,
                           ![t].remaining = IF answer = "error" THEN Drafts!StillThere(@, i) ELSE @]
      BY <2>3 DEF Drafts!ExecuteDraft
    <3>2. \E x \in Rounds :
           /\ retry' = [retry EXCEPT ![t] = x] /\ x.read = ReadBy(t) /\ x.todo = ToDoBy(t) \ {i}
           /\ \/ x.remaining = LeftBy(t) \cup {i} /\ answer = "error"
              \/ x.remaining = LeftBy(t) /\ answer = "ok"
      BY <2>2, <3>1
    <3>3. /\ times' \in [Items -> 0 .. MaxTimes] /\ unsure \subseteq unsure' /\ unsure' \subseteq Items
          /\ \A j \in Items \ {i} : times'[j] = times[j]
          /\ times'[i] = times[i] \/ (times'[i] = times[i] + 1 /\ (answer = "ok" \/ i \in unsure'))
          /\ answer = "ok" => times'[i] = times[i] + 1
      BY <3>1, CarriesCounts
    <3>4. answer = "error" => answer # "ok"
      OBVIOUS
    <3> QED BY <3>2, <3>3, <3>4
  <2> QED BY <2>1, <2>3
<1>5. PICK x \in Rounds :
        /\ retry' = [retry EXCEPT ![t] = x] /\ x.read = ReadBy(t) /\ x.todo = ToDoBy(t) \ {i}
        /\ \/ x.remaining = LeftBy(t) \cup {i} /\ (times'[i] = times[i] \/ i \in unsure')
           \/ x.remaining = LeftBy(t) /\ times'[i] = times[i] + 1
  BY <1>4
<1>6. /\ RetryTypes' /\ \A u \in Retries \ {t} : Stays(u)
      /\ ReadBy(t)' = ReadBy(t) /\ ToDoBy(t)' = ToDoBy(t) \ {i} /\ LeftBy(t)' = x.remaining
  BY <1>5, RoundMoves
<1>7. times[i] > 0 => i \in unsure
  BY <1>3 DEF DraftsInv, DoneIsDone
<1>8. times[i] \in Nat
  BY TimesBounded DEF DraftsInv, Drafts!TypeOK
<1>9. Drafts!TypeOK'
  <2>1. {open, known, captured, reload}' \subseteq BOOLEAN
    BY <1>1, Zenon DEF DraftsInv, Drafts!TypeOK
  <2> QED BY <1>1, <1>4, <2>1 DEF DraftsInv, Drafts!TypeOK
<1>10. RoundsAdvance'
  <2>1. \A u \in Retries : \A j \in Items : times[j] > 0 => times'[j] > 0
    BY <1>4, <1>8
  <2>2. ASSUME NEW u \in Retries
        PROVE  /\ ToDoBy(u)' \cup LeftBy(u)' \subseteq ReadBy(u)'
               /\ ToDoBy(u)' \cap LeftBy(u)' = {}
               /\ \A j \in ReadBy(u)' \ (ToDoBy(u)' \cup LeftBy(u)') : times'[j] > 0
    <3>1. CASE u = t
      BY <1>3, <1>5, <1>6, <1>8, <2>1, <3>1, ReadAreItems DEF DraftsInv, RoundsAdvance
    <3>2. CASE u # t
      BY <1>6, <2>1, <3>2, ReadAreItems DEF DraftsInv, RoundsAdvance, Stays
    <3> QED BY <3>1, <3>2
  <2> QED BY <2>2 DEF RoundsAdvance
<1>11. DraftsAreSaved'
  <2>1. \A u \in Retries : ReadBy(u)' = ReadBy(u)
    BY <1>6 DEF Stays
  <2> QED BY <1>1, <1>3, <1>4, <2>1 DEF DraftsInv, DraftsAreSaved
<1>12. DoneIsDone'
  <2> SUFFICES ASSUME NEW j \in Items \ unsure', times'[j] > 0
               PROVE  /\ save[j] \in {"ok", "ended"}
                      /\ \A u \in Retries : j \notin ToDoBy(u)' \cup LeftBy(u)'
                      /\ j \in drafts => \E u \in Retries : j \in ReadBy(u)'
    BY <1>1 DEF DoneIsDone
  <2>1. CASE j = i
    <3>1. x.remaining = LeftBy(t)
      BY <1>3, <1>4, <1>5, <1>7, <2>1
    <3>2. \A u \in Retries \ {t} : i \notin ReadBy(u)
      BY <1>3, <1>4, <2>1 DEF DraftsInv, DraftsAreSaved
    <3>3. ASSUME NEW u \in Retries PROVE j \notin ToDoBy(u)' \cup LeftBy(u)'
      <4>1. CASE u = t
        BY <1>3, <1>6, <2>1, <3>1, <4>1
      <4>2. CASE u # t
        BY <1>6, <2>1, <3>2, <4>2, ReadAreItems DEF Stays
      <4> QED BY <4>1, <4>2
    <3>4. j \in ReadBy(t)'
      BY <1>3, <1>6, <2>1
    <3> QED BY <1>3, <2>1, <3>3, <3>4
  <2>2. CASE j # i
    <3>1. /\ save[j] \in {"ok", "ended"}
          /\ \A u \in Retries : j \notin ToDoBy(u) \cup LeftBy(u)
          /\ j \in drafts => \E u \in Retries : j \in ReadBy(u)
      BY <1>4, <2>2 DEF DraftsInv, DoneIsDone
    <3> QED BY <1>5, <1>6, <2>2, <3>1 DEF Stays
  <2> QED BY <2>1, <2>2
<1>13. Drafts!CarriedOutOnce'
  <2> SUFFICES ASSUME NEW j \in Items, times'[j] > 1 PROVE j \in unsure'
    BY DEF Drafts!CarriedOutOnce
  <2>1. CASE j = i
    BY <1>4, <1>7, <1>8, <2>1
  <2>2. CASE j # i
    BY <1>4, <2>2 DEF DraftsInv, Drafts!CarriedOutOnce
  <2> QED BY <2>1, <2>2
<1> QED BY <1>6, <1>9, <1>10, <1>11, <1>12, <1>13 DEF DraftsInv

\* The answer of the server reaches the retry.
LEMMA AnsweredKeeps ==
  ASSUME DraftsInv, NEW t \in Retries, Drafts!Answered(t)
  PROVE  DraftsInv'
<1>1. /\ retry[t] \in Rounds /\ retry[t] # Drafts!Idle
      /\ UNCHANGED <<open, captured, reload, drafts, save, times, unsure>>
      /\ retry \in [Retries -> {Drafts!Idle} \cup Rounds]
  BY DEF Drafts!Answered, DraftsInv, RetryTypes, Drafts!Idle
<1>2. ReadBy(t) = retry[t].read /\ ToDoBy(t) = retry[t].todo /\ LeftBy(t) = retry[t].remaining
  BY <1>1 DEF ReadBy, ToDoBy, LeftBy
<1>3. PICK x : x = [retry[t] EXCEPT !.at = "next"] /\ retry' = [retry EXCEPT ![t] = x]
  BY <1>1 DEF Drafts!Answered
<1>4. x \in Rounds /\ x.read = ReadBy(t) /\ x.todo = ToDoBy(t) /\ x.remaining = LeftBy(t)
  BY <1>1, <1>2, <1>3 DEF Rounds
<1>5. RetryTypes' /\ \A u \in Retries : Stays(u)
  <2>1. /\ RetryTypes' /\ \A u \in Retries \ {t} : Stays(u)
        /\ ReadBy(t)' = x.read /\ ToDoBy(t)' = x.todo /\ LeftBy(t)' = x.remaining
    BY <1>3, <1>4, RoundMoves
  <2> QED BY <1>4, <2>1 DEF Stays
<1>6. Drafts!TypeOK' /\ Drafts!CarriedOutOnce'
  <2>1. known' \in BOOLEAN
    <3>1. CASE UNCHANGED known
      BY <3>1, Zenon DEF DraftsInv, Drafts!TypeOK
    <3>2. CASE Drafts!Loads
      BY <3>2, LoadsBoolean
    <3> QED BY <3>1, <3>2 DEF Drafts!Answered
  <2>2. {open, known, captured, reload}' \subseteq BOOLEAN
    BY <1>1, <2>1, Zenon DEF DraftsInv, Drafts!TypeOK
  <2> QED BY <1>1, <2>2 DEF DraftsInv, Drafts!TypeOK, Drafts!CarriedOutOnce
<1>7. RoundsAdvance' /\ DraftsAreSaved' /\ DoneIsDone'
  BY <1>1, <1>5 DEF DraftsInv, RoundsAdvance, DraftsAreSaved, DoneIsDone, Stays
<1> QED BY <1>5, <1>6, <1>7 DEF DraftsInv

\* A retry ends: what it could not carry out is all there is among the drafts.
LEMMA WriteDraftsKeeps ==
  ASSUME DraftsInv, NEW t \in Retries, Drafts!WriteDrafts(t)
  PROVE  /\ DraftsInv'
         /\ drafts' = LeftBy(t) /\ ToDoBy(t) = {}
         /\ ReadBy(t) = retry[t].read /\ retry[t] # Drafts!Idle /\ retry'[t] = Drafts!Idle
<1>1. /\ retry[t] \in Rounds /\ retry[t] # Drafts!Idle /\ retry' = [retry EXCEPT ![t] = Drafts!Idle]
      /\ retry[t].todo = {} /\ drafts' = retry[t].remaining
      /\ UNCHANGED <<open, known, captured, save, times, unsure>>
      /\ retry \in [Retries -> {Drafts!Idle} \cup Rounds]
  BY DEF Drafts!WriteDrafts, Drafts!WrittenBack, DraftsInv, RetryTypes, Drafts!Idle
<1>2. ReadBy(t) = retry[t].read /\ ToDoBy(t) = {} /\ LeftBy(t) = drafts' /\ retry'[t] = Drafts!Idle
  BY <1>1 DEF ReadBy, ToDoBy, LeftBy
<1>3. ReadBy(t)' = {} /\ ToDoBy(t)' = {} /\ LeftBy(t)' = {}
  BY <1>2 DEF ReadBy, ToDoBy, LeftBy
<1>4. \A u \in Retries \ {t} : Stays(u)
  <2>1. \A u \in Retries \ {t} : retry'[u] = retry[u]
    BY <1>1
  <2> QED BY <2>1, SameRetryStays
<1>5. drafts' \subseteq ReadBy(t) /\ ReadBy(t) \subseteq Items
  BY <1>2, ReadAreItems
<1>6. Drafts!TypeOK' /\ RetryTypes' /\ Drafts!CarriedOutOnce'
  <2>1. reload' \in BOOLEAN
    BY Zenon DEF Drafts!WriteDrafts
  <2>2. {open, known, captured, reload}' \subseteq BOOLEAN
    BY <1>1, <2>1, Zenon DEF DraftsInv, Drafts!TypeOK
  <2> QED BY <1>1, <1>5, <2>2 DEF DraftsInv, Drafts!TypeOK, RetryTypes, Drafts!CarriedOutOnce
<1>7. RoundsAdvance'
  <2> SUFFICES ASSUME NEW u \in Retries
               PROVE  /\ ToDoBy(u)' \cup LeftBy(u)' \subseteq ReadBy(u)'
                      /\ ToDoBy(u)' \cap LeftBy(u)' = {}
                      /\ \A j \in ReadBy(u)' \ (ToDoBy(u)' \cup LeftBy(u)') : times'[j] > 0
    BY DEF RoundsAdvance
  <2>1. CASE u = t
    BY <1>3, <2>1
  <2>2. CASE u # t
    BY <1>1, <1>4, <2>2 DEF DraftsInv, RoundsAdvance, Stays
  <2> QED BY <2>1, <2>2
<1>8. DraftsAreSaved'
  <2>1. \A u \in Retries : ReadBy(u)' \subseteq ReadBy(u)
    BY <1>3, <1>4 DEF Stays
  <2> QED BY <1>1, <1>5, <2>1 DEF DraftsInv, DraftsAreSaved
<1>9. DoneIsDone'
  <2> SUFFICES ASSUME NEW j \in Items \ unsure, times[j] > 0
               PROVE  /\ save[j] \in {"ok", "ended"}
                      /\ \A u \in Retries : j \notin ToDoBy(u)' \cup LeftBy(u)'
                      /\ j \notin drafts'
    BY <1>1 DEF DoneIsDone
  <2>1. save[j] \in {"ok", "ended"} /\ \A u \in Retries : j \notin ToDoBy(u) \cup LeftBy(u)
    BY DEF DraftsInv, DoneIsDone
  <2>2. ASSUME NEW u \in Retries PROVE j \notin ToDoBy(u)' \cup LeftBy(u)'
    <3>1. CASE u = t
      BY <1>3, <3>1
    <3>2. CASE u # t
      BY <1>4, <2>1, <3>2 DEF Stays
    <3> QED BY <3>1, <3>2
  <2> QED BY <1>2, <2>1, <2>2
<1> QED BY <1>1, <1>2, <1>6, <1>7, <1>8, <1>9 DEF DraftsInv

\* The page may know of accounts, or be loading, or neither.
LEMMA PageKeeps ==
  ASSUME DraftsInv,
         \/ Drafts!Reloaded
         \/ \E t \in Retries : Drafts!Open(t) \/ Drafts!TokenChanges(t) \/ Drafts!RetryDrafts(t)
  PROVE  DraftsInv'
<1>1. ASSUME NEW t \in Retries, Drafts!Open(t) \/ Drafts!TokenChanges(t) \/ Drafts!RetryDrafts(t)
      PROVE  DraftsInv'
  <2>1. Drafts!Begins(t) /\ UNCHANGED <<drafts, save, times>>
    BY <1>1 DEF Drafts!Open, Drafts!TokenChanges, Drafts!RetryDrafts
  <2>2. {open, known, captured, reload}' \subseteq BOOLEAN
    BY <1>1, Zenon DEF Drafts!Open, Drafts!TokenChanges, Drafts!RetryDrafts, DraftsInv, Drafts!TypeOK
  <2> QED BY <2>1, <2>2, BeginsKeeps
<1>2. CASE Drafts!Reloaded
  <2>1. UNCHANGED <<drafts, save, retry, times, unsure>>
    BY <1>2 DEF Drafts!Reloaded
  <2>2. known' \in BOOLEAN /\ reload' = FALSE /\ open' = open /\ captured' = captured
    BY <1>2, LoadsBoolean DEF Drafts!Reloaded
  <2>3. {open, known, captured, reload}' \subseteq BOOLEAN
    BY <2>2, Zenon DEF DraftsInv, Drafts!TypeOK
  <2> QED BY <2>1, <2>3, ReloadedKeeps
<1> QED BY <1>1, <1>2

LEMMA DraftsKeep ==
  ASSUME DraftsInv, [Drafts!Next]_draftVars
  PROVE  DraftsInv'
<1>1. CASE UNCHANGED draftVars
  <2>1. UNCHANGED <<drafts, save, retry, times, unsure>> /\ UNCHANGED <<open, known, captured, reload>>
    BY <1>1 DEF draftVars
  <2>2. {open, known, captured, reload}' \subseteq BOOLEAN
    BY <2>1, Zenon DEF DraftsInv, Drafts!TypeOK
  <2> QED BY <2>1, <2>2, ReloadedKeeps
<1>2. ASSUME NEW t \in Retries, Drafts!Open(t) \/ Drafts!TokenChanges(t) \/ Drafts!RetryDrafts(t)
      PROVE  DraftsInv'
  BY <1>2, PageKeeps
<1>3. ASSUME NEW t \in Retries, NEW i \in Items, Drafts!ExecuteDraft(t, i) PROVE DraftsInv'
  BY <1>3, ExecuteDraftKeeps
<1>4. ASSUME NEW t \in Retries, Drafts!Answered(t) PROVE DraftsInv'
  BY <1>4, AnsweredKeeps
<1>5. ASSUME NEW t \in Retries, Drafts!WriteDrafts(t) PROVE DraftsInv'
  BY <1>5, WriteDraftsKeeps
<1>6. CASE Drafts!Close
  BY <1>6, CloseKeeps
<1>7. CASE Drafts!Reloaded
  BY <1>7, PageKeeps
<1>8. ASSUME NEW i \in Items, Drafts!Save(i) PROVE DraftsInv'
  BY <1>8, SaveKeeps
<1>9. ASSUME NEW i \in Items, Drafts!EnqueueDraft(i) PROVE DraftsInv'
  BY <1>9, EnqueueDraftKeeps
<1>10. ASSUME NEW i \in Items, Drafts!LoadAfterSave(i) PROVE DraftsInv'
  BY <1>10, LoadAfterSaveKeeps
<1> QED BY <1>1, <1>2, <1>3, <1>4, <1>5, <1>6, <1>7, <1>8, <1>9, <1>10 DEF Drafts!Next

\* A draft goes only when a retry writes back.
LEMMA DraftGoes ==
  ASSUME DraftsInv, [Drafts!Next]_draftVars, NEW i \in drafts \ drafts'
  PROVE  times[i] > 0 \/ \E t \in Retries :
           retry'[t] = Drafts!Idle /\ retry[t] # Drafts!Idle /\ i \notin retry[t].read
<1>1. PICK t \in Retries : Drafts!WriteDrafts(t)
  <2>1. drafts' # drafts /\ ~(drafts \subseteq drafts')
    OBVIOUS
  <2> QED BY <2>1 DEF Drafts!Next, draftVars, Drafts!Open, Drafts!TokenChanges, Drafts!RetryDrafts, Drafts!ExecuteDraft,
             Drafts!Answered, Drafts!Close, Drafts!Reloaded, Drafts!Save, Drafts!EnqueueDraft, Drafts!LoadAfterSave
<1>2. /\ drafts' = LeftBy(t) /\ ToDoBy(t) = {}
      /\ ReadBy(t) = retry[t].read /\ retry[t] # Drafts!Idle /\ retry'[t] = Drafts!Idle
  BY <1>1, WriteDraftsKeeps
<1>3. CASE i \in ReadBy(t)
  BY <1>2, <1>3 DEF DraftsInv, RoundsAdvance
<1>4. CASE i \notin ReadBy(t)
  BY <1>2, <1>4
<1> QED BY <1>3, <1>4

-----------------------------------------------------------------------------
(* The sum *)

\* A step of the sum is a step of each component, or none of it.
LEMMA StepsOfAll ==
  ASSUME [Next]_vars
  PROVE  [Onboarding!Next]_onboardingVars /\ [Sessions!Next]_sessionVars /\ [Drafts!Next]_draftVars
BY DEF Next, vars, OnboardingStep, SessionStep, DraftStep

\* Whatever the number of requests, processes, tokens, items and retries, each
\* component keeps its inductive invariant.
THEOREM Invariant == Spec => []IInv
<1>1. Init => IInv
  BY OnboardingInit, SessionsInit, DraftsInit DEF Init, IInv
<1>2. IInv /\ [Next]_vars => IInv'
  BY StepsOfAll, OnboardingKeeps, SessionsKeep, DraftsKeep DEF IInv
<1> QED BY <1>1, <1>2, PTL DEF Spec

\* Stale copies that are written back never invent a decision, the client that
\* is approved is the application's and no decision is without the client it
\* needs (self-registration.ts), a process accepts tokens of its session only,
\* and what a retry carried out for sure is not carried out again
\* (BusinessClientAdaModule.tsx).
THEOREM CopiesKeepTheirWordAlways == Spec => []CopiesKeepTheirWord
<1>1. IInv => CopiesKeepTheirWord
  BY DEF IInv, OnboardingInv, SessionsInv, DraftsInv, CopiesKeepTheirWord, Types
<1> QED BY <1>1, Invariant, PTL

\* A revoked session that nobody holds does not come back, and a draft goes only
\* when it was carried out or a retry that had not read it writes back.
THEOREM GoneStaysGoneAlways == Spec => GoneStaysGone
<1>1. Sessions!vars = sessionVars /\ Drafts!vars = draftVars
  BY DEF Sessions!vars, sessionVars, Drafts!vars, draftVars
<1>2. IInv /\ [Next]_vars => [Sessions!Gone => Sessions!Gone']_Sessions!vars
  BY StepsOfAll, GoneStays DEF IInv
<1>3. IInv /\ [Next]_vars =>
        [\A i \in drafts \ drafts' :
           times[i] > 0 \/ \E t \in Retries :
             retry'[t] = Drafts!Idle /\ retry[t] # Drafts!Idle /\ i \notin retry[t].read]_Drafts!vars
  BY StepsOfAll, DraftGoes DEF IInv
<1> QED BY <1>2, <1>3, Invariant, PTL DEF Spec, GoneStaysGone, Sessions!GoneStaysGone, Drafts!DraftsAreRetried
=============================================================================
