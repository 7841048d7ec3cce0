--------------------------- MODULE ApiRuntimeState ---------------------------
(***************************************************************************)
(* The API server's in-memory state and its one snapshot row, for routes   *)
(* that are not served from tables (server.ts, state-transaction.ts,       *)
(* state-store.ts, events/idempotency.ts, workers/).  A request clones the *)
(* state, works on its draft across awaits, replaces the state by the      *)
(* draft and saves the whole state; other requests run at every await.     *)
(* The event worker and the scheduler are processes of their own that load *)
(* the snapshot, change it and save it.                                    *)
(*                                                                         *)
(* A copy of the state is abstracted to which commands have taken effect   *)
(* in it and which answers its idempotency records hold.  Each command has *)
(* one key.                                                                *)
(***************************************************************************)
EXTENDS Naturals

CONSTANTS
  Commands,    \* commands sent with an idempotency key
  Handlers,    \* requests the server has in progress at a time
  MaxRuns,     \* bound on the times a command's effect is counted in a copy
  Faults       \* what may happen besides requests

MaxRunsNat == MaxRuns \in Nat
FaultsKnown == Faults \subseteq {"restart", "loadFails", "saveFails", "job"}

VARIABLES
  memory,      \* the server's state
  snapshot,    \* the row of api_runtime_state_snapshots
  request,     \* where each request is, with its draft or the state it saves
  job          \* the worker or scheduler process and the state it loaded

vars == <<memory, snapshot, request, job>>

\* createInitialState
Initial == [done |-> [c \in Commands |-> 0], record |-> [c \in Commands |-> "none"]]

Idle == [at |-> "idle"]

Init ==
  /\ memory = Initial
  /\ snapshot = Initial
  /\ request = [h \in Handlers |-> Idle]
  /\ job = Idle

-----------------------------------------------------------------------------
(* Requests *)

\* findIdempotentResponse finds no record.  Mutant: it looks in the snapshot.
NoRecordSaved(c) == snapshot.record[c] = "none"
NoRecord(c) == memory.record[c] = "none"

\* There is no record, and the state is cloned, with no await between the two.
\* (A record found is answered from: nothing changes.)
Begin(h, c) ==
  /\ request[h] = Idle
  /\ NoRecord(c)
  /\ request' = [request EXCEPT ![h] = [at |-> "work", command |-> c, outcome |-> "none", copy |-> memory]]
  /\ UNCHANGED <<memory, snapshot, job>>

\* The draft once the handler has run: an answer below 500 is recorded.
\* Mutant: every answer is.
AppliedAndRecorded(copy, c, outcome) ==
  [done |-> [copy.done EXCEPT ![c] = IF outcome = "ok" THEN @ + 1 ELSE @],
   record |-> [copy.record EXCEPT ![c] = outcome]]
Applied(copy, c, outcome) ==
  [done |-> [copy.done EXCEPT ![c] = IF outcome = "ok" THEN @ + 1 ELSE @],
   record |-> [copy.record EXCEPT ![c] = IF outcome \in {"ok", "refused"} THEN outcome ELSE @]]

\* handleApiRequest answers: below 400, 4xx or 5xx.
Work(h, outcome) ==
  /\ request[h].at = "work"
  /\ request[h].copy.done[request[h].command] < MaxRuns
  /\ request' = [request EXCEPT ![h].at = "commit", ![h].outcome = outcome,
                                ![h].copy = Applied(@, request[h].command, outcome)]
  /\ UNCHANGED <<memory, snapshot, job>>

\* The handler or persistInternalIdentityTables throws: the draft is dropped.
Abort(h) ==
  /\ request[h].at \in {"work", "commit"}
  /\ request' = [request EXCEPT ![h] = Idle]
  /\ UNCHANGED <<memory, snapshot, job>>

\* replaceApiState.
Replace(h) ==
  /\ request[h].at = "commit"
  /\ memory' = request[h].copy
  /\ request' = [request EXCEPT ![h].at = "save"]
  /\ UNCHANGED <<snapshot, job>>

\* saveApiStateSnapshot encodes the state as it is now and sends it.
StartSave(h) ==
  /\ request[h].at = "save"
  /\ request' = [request EXCEPT ![h].at = "saving", ![h].copy = memory]
  /\ UNCHANGED <<memory, snapshot, job>>

\* The save is over and the client is answered; an error of the save is noted
\* in stateStoreStatus and nowhere else.
FinishSave(h, saved) ==
  /\ request[h].at = "saving"
  /\ saved \/ "saveFails" \in Faults
  /\ snapshot' = IF saved THEN request[h].copy ELSE snapshot
  /\ request' = [request EXCEPT ![h] = Idle]
  /\ UNCHANGED <<memory, job>>

-----------------------------------------------------------------------------
(* Restarts, worker and scheduler *)

\* loadApiStateSnapshot: the initial state if the row cannot be read.
Loaded(row) == IF "loadFails" \in Faults THEN {row, Initial} ELSE {row}

\* The server stops anywhere, also with saves on their way, and starts again.
Restart ==
  /\ "restart" \in Faults
  /\ snapshot' \in {snapshot} \cup {request[h].copy : h \in {g \in Handlers : request[g].at = "saving"}}
  /\ memory' \in Loaded(snapshot')
  /\ request' = [h \in Handlers |-> Idle]
  /\ UNCHANGED job

\* runWorkerOnce and runSchedulerOnce; what they change in the copy (statuses
\* of events and reservations) is not part of it here.
JobLoad ==
  /\ "job" \in Faults
  /\ job = Idle
  /\ \E copy \in Loaded(snapshot) : job' = [at |-> "loaded", copy |-> copy]
  /\ UNCHANGED <<memory, snapshot, request>>

JobSave ==
  /\ job # Idle
  /\ snapshot' \in {job.copy} \cup (IF "saveFails" \in Faults THEN {snapshot} ELSE {})
  /\ job' = Idle
  /\ UNCHANGED <<memory, request>>

Next ==
  \/ \E h \in Handlers :
       \/ \E c \in Commands : Begin(h, c)
       \/ \E outcome \in {"ok", "refused", "unavailable"} : Work(h, outcome)
       \/ Abort(h)
       \/ Replace(h)
       \/ StartSave(h)
       \/ \E saved \in BOOLEAN : FinishSave(h, saved)
  \/ Restart
  \/ JobLoad
  \/ JobSave

Spec == Init /\ [][Next]_vars

-----------------------------------------------------------------------------
(* Properties *)

Copy == [done : [Commands -> 0 .. MaxRuns], record : [Commands -> {"none", "ok", "refused"}]]

TypeOK ==
  /\ memory \in Copy
  /\ snapshot \in Copy
  /\ request \in [Handlers -> {Idle} \cup [at : {"work", "commit", "save", "saving"}, command : Commands,
                                           outcome : {"none", "ok", "refused", "unavailable"}, copy : Copy]]
  /\ job \in {Idle} \cup [at : {"loaded"}, copy : Copy]

Copies ==
  {memory, snapshot} \cup {request[h].copy : h \in {g \in Handlers : request[g] # Idle}}
    \cup (IF job = Idle THEN {} ELSE {job.copy})

\* In memory, in the snapshot, in every draft and in what the worker has
\* loaded, a command has taken effect once if its success is on record and
\* not at all otherwise: requests that overlap, repeat a key, fail or are cut
\* off by a restart never separate an effect from its record or double it.
EffectsMatchRecords ==
  \A s \in Copies : \A c \in Commands : s.done[c] = (IF s.record[c] = "ok" THEN 1 ELSE 0)
=============================================================================
