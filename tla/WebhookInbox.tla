----------------------------- MODULE WebhookInbox -----------------------------
(***************************************************************************)
(* Circle's webhook: how an event is recorded, processed or dead-lettered  *)
(* (services/circle-webhook-service.ts and its repository).  The provider  *)
(* delivers an event until it is answered with success, so deliveries of   *)
(* one event overlap and repeat.  A delivery is a transaction of several   *)
(* statements; the effects of an event (processFundingEvent) are a number  *)
(* of writes behind a savepoint, any of which may throw.                   *)
(***************************************************************************)
EXTENDS Naturals

CONSTANTS
  Events,        \* provider event ids
  Deliveries,    \* deliveries in progress at a time
  Writes,        \* number of writes processing an event takes
  MaxReprocess   \* bound on reprocess commands

WritesPositive == Writes \in Nat \ {0}
MaxReprocessNat == MaxReprocess \in Nat

VARIABLES
  inbox,         \* provider_webhook_events
  deadLetters,   \* number of provider_webhook_dead_letters of an event
  effects,       \* writes of processFundingEvent that are committed
  breaks,        \* reconciliation break left by an event
  delivery       \* the deliveries' transactions

vars == <<inbox, deadLetters, effects, breaks, delivery>>

None == [status |-> "none"]
Idle == [at |-> "idle"]

Init ==
  /\ inbox = [e \in Events |-> None]
  /\ deadLetters = [e \in Events |-> 0]
  /\ effects = [e \in Events |-> 0]
  /\ breaks = [e \in Events |-> "none"]
  /\ delivery = [d \in Deliveries |-> Idle]

-----------------------------------------------------------------------------
(* ingest *)

\* The event is not on record as this transaction sees it; one that is gets
\* the answer of a duplicate and changes nothing.
Find(d, e) ==
  /\ delivery[d] = Idle
  /\ inbox[e] = None
  /\ delivery' = [delivery EXCEPT ![d] = [at |-> "insert", event |-> e]]
  /\ UNCHANGED <<inbox, deadLetters, effects, breaks>>

\* Another transaction has inserted the event and not ended.
Pending(e) == \E d \in Deliveries : delivery[d].at \in {"process", "commit"} /\ delivery[d].event = e

\* unique (platform_tenant_id, provider, provider_event_id): the insert waits
\* for a pending one and fails when it has been committed.
\* Mutant: there is no such index.
FreeWithoutIndex(e) == TRUE
Free(e) == inbox[e] = None

\* insertReceived, or insertInvalid with its dead letter.
Insert(d, valid) ==
  /\ delivery[d].at = "insert"
  /\ ~Pending(delivery[d].event)
  /\ delivery' = [delivery EXCEPT ![d] =
       IF ~Free(@.event) THEN Idle
       ELSE [at |-> IF valid THEN "process" ELSE "commit", event |-> @.event,
             status |-> IF valid THEN "received" ELSE "failed",
             letters |-> IF valid THEN 0 ELSE 1, writes |-> 0, break |-> "none"]]
  /\ UNCHANGED <<inbox, deadLetters, effects, breaks>>

\* One write of processFundingEvent; the last may open a break.
Write(d) ==
  /\ delivery[d].at = "process"
  /\ delivery[d].writes < Writes
  /\ \E break \in {"none", "open"} :
       /\ break = "open" => delivery[d].writes + 1 = Writes
       /\ delivery' = [delivery EXCEPT ![d].writes = @ + 1, ![d].break = break]
  /\ UNCHANGED <<inbox, deadLetters, effects, breaks>>

\* rollbackProcessingSavepoint, insertDeadLetter, status failed.
\* Mutant: without the savepoint.
CaughtOnly(t) == [t EXCEPT !.at = "commit", !.status = "failed", !.letters = 1]
RolledBack(t) == [t EXCEPT !.at = "commit", !.status = "failed", !.letters = 1, !.writes = 0, !.break = "none"]

Throw(d) ==
  /\ delivery[d].at = "process"
  /\ delivery' = [delivery EXCEPT ![d] = RolledBack(@)]
  /\ UNCHANGED <<inbox, deadLetters, effects, breaks>>

Processed(d) ==
  /\ delivery[d].at = "process"
  /\ delivery[d].writes = Writes
  /\ delivery' = [delivery EXCEPT ![d].at = "commit", ![d].status = "processed"]
  /\ UNCHANGED <<inbox, deadLetters, effects, breaks>>

\* A failed delivery is answered 400 or 500, and committed like the others.
Commit(d) ==
  /\ delivery[d].at = "commit"
  /\ LET t == delivery[d]
     IN /\ inbox' = [inbox EXCEPT ![t.event] = [status |-> t.status, retries |-> 0]]
        /\ deadLetters' = [deadLetters EXCEPT ![t.event] = @ + t.letters]
        /\ effects' = [effects EXCEPT ![t.event] = @ + t.writes]
        /\ breaks' = [breaks EXCEPT ![t.event] = IF t.break = "open" THEN "open" ELSE @]
  /\ delivery' = [delivery EXCEPT ![d] = Idle]

\* The connection is lost, or a statement fails: everything is rolled back.
Lose(d) ==
  /\ delivery[d] # Idle
  /\ delivery' = [delivery EXCEPT ![d] = Idle]
  /\ UNCHANGED <<inbox, deadLetters, effects, breaks>>

-----------------------------------------------------------------------------
(* Operators *)

\* reprocess: the event is marked, whatever it was, and nothing is processed.
Reprocess(e) ==
  /\ inbox[e] # None
  /\ inbox[e].retries < MaxReprocess
  /\ inbox' = [inbox EXCEPT ![e] = [status |-> "processed", retries |-> @.retries + 1]]
  /\ UNCHANGED <<deadLetters, effects, breaks, delivery>>

ResolveReconciliationBreak(e) ==
  /\ breaks[e] # "none"
  /\ breaks' = [breaks EXCEPT ![e] = "resolved"]
  /\ UNCHANGED <<inbox, deadLetters, effects, delivery>>

Next ==
  \/ \E d \in Deliveries :
       \/ \E e \in Events : Find(d, e)
       \/ \E valid \in BOOLEAN : Insert(d, valid)
       \/ Write(d)
       \/ Throw(d)
       \/ Processed(d)
       \/ Commit(d)
       \/ Lose(d)
  \/ \E e \in Events : Reprocess(e) \/ ResolveReconciliationBreak(e)

Spec == Init /\ [][Next]_vars

-----------------------------------------------------------------------------
(* Properties *)

TypeOK ==
  /\ inbox \in [Events -> {None} \cup [status : {"processed", "failed"}, retries : 0 .. MaxReprocess]]
  /\ deadLetters \in [Events -> 0 .. 1]
  /\ effects \in [Events -> 0 .. Writes]
  /\ breaks \in [Events -> {"none", "open", "resolved"}]
  /\ delivery \in [Deliveries -> {Idle} \cup [at : {"insert"}, event : Events]
       \cup [at : {"process", "commit"}, event : Events, status : {"received", "processed", "failed"},
             letters : 0 .. 1, writes : 0 .. Writes, break : {"none", "open"}]]

\* An event takes effect as a whole and once, or not at all: deliveries that
\* overlap, repeat, throw half-way or are cut off never apply a part of it or
\* apply it again, and a break is left only by an event that was applied.
AppliedWholeOrNot ==
  \A e \in Events :
    /\ effects[e] \in {0, Writes}
    /\ breaks[e] # "none" => effects[e] = Writes

\* Every event on record has been applied or has its one dead letter, never
\* both, also after it was marked as reprocessed: what was never applied can
\* still be found.
AppliedOrDeadLettered ==
  \A e \in Events : inbox[e] # None => (effects[e] = 0 <=> deadLetters[e] = 1) /\ deadLetters[e] <= 1
=============================================================================
