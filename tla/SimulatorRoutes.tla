---------------------------- MODULE SimulatorRoutes ----------------------------
(***************************************************************************)
(* http/router.ts without a database: the commands on funds, payments      *)
(* and webhooks that work on the runtime state, and the processes beside   *)
(* the server, workers/index.ts and workers/scheduler.ts, that change the  *)
(* same state in its snapshot.  ApiRuntimeState models how copies of the   *)
(* state are taken, replaced and saved; this module, what is done to them. *)
(*                                                                         *)
(* A command that waits for nothing outside the server is one step.  One   *)
(* that does (a webhook whose key is fetched, a list of users read from    *)
(* the tables) works on a clone of the state meanwhile.  One account; each *)
(* reservation, journal and mint is of one unit.  Journals are reversed    *)
(* without an effect on balances; redemptions are payments without events, *)
(* obligations statuses without effect: they are left out.                 *)
(***************************************************************************)
EXTENDS Naturals, FiniteSets

CONSTANTS
  Reservations,
  Events,        \* Circle's, <<transfer, status>>
  MaxTransfers,  \* bound on the transfers made
  MaxBrought,    \* bound on the units that journals and mints bring in
  MaxRequests,   \* bound on the requests made
  Requests       \* requests in progress at a time

SimulatorAssumption ==
  /\ {MaxTransfers, MaxBrought, MaxRequests} \subseteq Nat
  /\ Events \subseteq (1 .. MaxTransfers) \X {"complete", "failed"}

VARIABLES
  subject,    \* what the commands of a run are about: funds or payments
  state,      \* of the server
  row,        \* of api_runtime_state_snapshots
  pending,    \* requests: with the clone they work on, or the state they save
  process,    \* worker or scheduler, with the state it has loaded
  transfers,  \* number of transfers that Circle, or its simulator, was asked for
  requests    \* number of requests so far

vars == <<subject, state, row, pending, process, transfers, requests>>

Seed == 1
NoPayment == [status |-> "absent", transfer |-> 0, refreshed |-> FALSE]

\* createInitialState; `brought' is what the journals and mints on record add
\* up to, `refreshed' says that the status is that of a refresh (history).
InitialState ==
  [available |-> Seed, reserved |-> 0, brought |-> 0,
   reservation |-> [r \in Reservations |-> "absent"], payment |-> NoPayment,
   webhook |-> [e \in Events |-> "absent"],
   inbox |-> [e \in Events |-> [pending |-> 0, processed |-> 0]]]

Idle == [at |-> "idle"]

Init ==
  /\ subject \in {"funds", "payments"}
  /\ state = InitialState /\ row = InitialState
  /\ pending = [h \in Requests |-> Idle]
  /\ process = Idle
  /\ transfers = 0 /\ requests = 0

-----------------------------------------------------------------------------
(* What commands make of a copy of the state *)

\* POST /ledger/journals and /ledger/events/opening-journal
Posted(s) == [s EXCEPT !.brought = @ + 1, !.available = @ + 1]

\* POST /fiat/wire-accounts/:id/mint, which the simulator always completes.
Minted(s) == [s EXCEPT !.brought = @ + 1, !.available = @ + 1]

\* POST /funding-reservations
Reserved(s, r) ==
  [s EXCEPT !.reservation[r] = "active", !.available = @ - 1, !.reserved = @ + 1]

\* Mutant: what an active reservation held is available again.
GivenBack(s, r, status) ==
  IF status = "active" \/ s.reservation[r] # "active" THEN [s EXCEPT !.reservation[r] = status]
  ELSE [s EXCEPT !.reservation[r] = status, !.available = @ + 1, !.reserved = @ - 1]
\* POST /funding-reservations/:id/(activate|release|expire|cancel), whatever
\* the status; the balance stays as it is.
Marked(s, r, status) == [s EXCEPT !.reservation[r] = status]

FundsCommands(s) ==
  (IF s.brought < MaxBrought THEN {Posted(s), Minted(s)} ELSE {})
  \cup {Reserved(s, r) : r \in {q \in Reservations : s.reservation[q] = "absent" /\ s.available > 0}}
  \cup {Marked(s, r, status) : r \in {q \in Reservations : s.reservation[q] # "absent"},
                               status \in {"active", "released", "expired", "cancelled"}}

\* POST /payments/:id/(submit|retry|refresh-status): each asks for a transfer.
Transferred(s, status) ==
  [s EXCEPT !.payment = [status |-> status, transfer |-> transfers + 1,
                         refreshed |-> status = "complete"]]

\* Creation and cancellation of a payment.
CreatedOrCancelled(s) ==
  IF s.payment = NoPayment THEN [s EXCEPT !.payment.status = "created"]
  ELSE [s EXCEPT !.payment.status = "cancelled", !.payment.refreshed = FALSE]

\* POST /events/inbox/:id/retry
Retried(s) ==
  {[s EXCEPT !.inbox[e] = [pending |-> @.pending + 1, processed |-> @.processed - 1]] :
     e \in {f \in Events : s.inbox[f].processed > 0}}

\* POST /webhooks/circle: an event that is known, also as rejected, is a
\* duplicate.  A rejected one is answered with 401, and kept.
Delivered(s, e, valid) ==
  IF s.webhook[e] # "absent" THEN s
  ELSE [s EXCEPT !.webhook[e] = IF valid THEN "valid" ELSE "rejected",
                 !.inbox[e].pending = IF valid THEN @ + 1 ELSE @]

-----------------------------------------------------------------------------
(* Requests *)

Replace(h, s) ==
  /\ state' = s
  /\ pending' = [pending EXCEPT ![h] = [at |-> "saving", copy |-> s]]

Start(h) ==
  /\ pending[h] = Idle
  /\ requests < MaxRequests /\ requests' = requests + 1

Command(h) ==
  /\ Start(h)
  /\ \/ /\ subject = "funds"
        /\ \E s \in FundsCommands(state) : Replace(h, s)
        /\ UNCHANGED transfers
     \/ /\ subject = "payments"
        /\ \E s \in {CreatedOrCancelled(state)} \cup Retried(state) : Replace(h, s)
        /\ UNCHANGED transfers
     \/ /\ subject = "payments" /\ state.payment # NoPayment
        /\ transfers < MaxTransfers /\ transfers' = transfers + 1
        /\ \E status \in {"submitted", "complete"} : Replace(h, Transferred(state, status))
  /\ UNCHANGED <<subject, row, process>>

\* A request that will wait, also one that only reads, clones the state ...
Clone(h) ==
  /\ Start(h)
  /\ pending' = [pending EXCEPT ![h] = [at |-> "waiting", copy |-> state]]
  /\ UNCHANGED <<subject, state, row, process, transfers>>

\* ... and replaces it by what it has made of its clone.  Circle tells of
\* transfers that were made; anyone may send what is rejected.
Waited(h) ==
  /\ pending[h].at = "waiting"
  /\ \/ Replace(h, pending[h].copy)
     \/ \E e \in Events, valid \in BOOLEAN :
          /\ valid => e[1] <= transfers
          /\ Replace(h, Delivered(pending[h].copy, e, valid))
  /\ UNCHANGED <<subject, row, process, transfers, requests>>

\* The upsert of the snapshot arrives, or fails; two may arrive in any order.
Saved(h) ==
  /\ pending[h].at = "saving"
  /\ row' \in {row, pending[h].copy}
  /\ pending' = [pending EXCEPT ![h] = Idle]
  /\ UNCHANGED <<subject, state, process, transfers, requests>>

Restart ==
  /\ row' \in {row} \cup {pending[h].copy : h \in {g \in Requests : pending[g].at = "saving"}}
  /\ state' \in {row', InitialState}
  /\ pending' = [h \in Requests |-> Idle]
  /\ UNCHANGED <<subject, process, transfers, requests>>

-----------------------------------------------------------------------------
(* Worker and scheduler *)

\* processEvents: each pending event, in the order of arrival, is applied to
\* the payment whose transfer it is about; nothing in it throws.
Processed(s) ==
  LET waiting == {e \in Events : s.inbox[e].pending > 0}
      about == {e[2] : e \in {f \in waiting : f[1] = s.payment.transfer}}
  IN  {[s EXCEPT !.inbox = [e \in Events |-> [pending |-> 0, processed |-> @[e].processed + @[e].pending]],
                 !.payment.status = status, !.payment.refreshed = @ /\ about = {}] :
         status \in IF about = {} THEN {s.payment.status} ELSE about}

\* runScheduledJobs: active reservations that are old enough.
Expired(s) ==
  {[s EXCEPT !.reservation = [r \in Reservations |-> IF r \in old THEN "expired" ELSE @[r]]] :
     old \in SUBSET {r \in Reservations : s.reservation[r] = "active"}}

\* runWorkerOnce, runSchedulerOnce
Load ==
  /\ process = Idle
  /\ \E s \in {row, InitialState} :
       \E done \in IF subject = "funds" THEN Expired(s) ELSE Processed(s) :
         process' = [at |-> "loaded", copy |-> done]
  /\ UNCHANGED <<subject, state, row, pending, transfers, requests>>

\* Mutant: what the process has changed is saved, not the state it loaded.
OnlyChanges(loaded) == [row EXCEPT !.inbox = loaded.inbox, !.payment = loaded.payment,
                                   !.reservation = loaded.reservation]
Whole(loaded) == loaded

Save ==
  /\ process # Idle
  /\ row' \in {row, Whole(process.copy)}
  /\ process' = Idle
  /\ UNCHANGED <<subject, state, pending, transfers, requests>>

Next ==
  \/ \E h \in Requests : Command(h) \/ Clone(h) \/ Waited(h) \/ Saved(h)
  \/ Restart \/ Load \/ Save

Spec == Init /\ [][Next]_vars

-----------------------------------------------------------------------------
(* Properties *)

Copies ==
  {state, row} \cup {pending[h].copy : h \in {g \in Requests : pending[g] # Idle}}
    \cup (IF process = Idle THEN {} ELSE {process.copy})

TypeOK ==
  /\ transfers \in 0 .. MaxTransfers /\ requests \in 0 .. MaxRequests
  /\ \A s \in Copies :
       /\ s.available \in 0 .. Seed + MaxBrought /\ s.reserved \in 0 .. Seed + MaxBrought
       /\ s.brought \in 0 .. MaxBrought
       /\ s.reservation \in [Reservations -> {"absent", "active", "released", "expired", "cancelled"}]
       /\ s.payment.status \in {"absent", "created", "submitted", "complete", "failed", "cancelled"}
       /\ s.payment.transfer \in 0 .. transfers
       /\ s.webhook \in [Events -> {"absent", "valid", "rejected"}]

\* In every copy of the state, whoever overwrote whose changes: what an account
\* has was brought in by the journals and mints on record, and what its active
\* reservations are for is reserved, however often they were released, expired
\* and activated again.
FundsAreOnRecord ==
  \A s \in Copies :
    /\ s.available + s.reserved = Seed + s.brought
    /\ Cardinality({r \in Reservations : s.reservation[r] = "active"}) <= s.reserved

\* In every copy, an event whose signature was valid is in the inbox once,
\* however deliveries overlap and repeat and whether or not it was processed;
\* one that was rejected is not.
InInboxOnce ==
  \A s \in Copies : \A e \in Events :
    s.inbox[e].pending + s.inbox[e].processed = IF s.webhook[e] = "valid" THEN 1 ELSE 0

\* In every copy, a payment is complete by a refresh, or by a valid event about
\* its latest transfer, and failed by such an event: never by an event about a
\* transfer that was replaced, or that the copy does not know of.
OutcomeIsReported ==
  \A s \in Copies :
    s.payment.status \in {"complete", "failed"} /\ ~s.payment.refreshed =>
      \E e \in Events : e = <<s.payment.transfer, s.payment.status>> /\ s.webhook[e] = "valid"
=============================================================================
