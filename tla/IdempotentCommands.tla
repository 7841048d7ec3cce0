-------------------------- MODULE IdempotentCommands --------------------------
(***************************************************************************)
(* The idempotency wrapper around every durable command                    *)
(* (handlePostgresRoute, executePostgresCommand): look the key up in       *)
(* api_idempotency_records, claim it in idempotency_keys, run the handler, *)
(* record its answer, commit.  One connection runs one command; each       *)
(* statement is a step, reads are READ COMMITTED and take no lock, and an  *)
(* insert waits for an uncommitted insert of the same key.  Nothing of a   *)
(* transaction shows before it commits.                                    *)
(*                                                                         *)
(* What the handler does is abstracted to the response of a run.           *)
(***************************************************************************)
EXTENDS Naturals

CONSTANTS
  Keys,           \* idempotency keys
  Requests,       \* request hashes
  Connections,    \* connections of the pool
  MaxRuns,        \* bound on the handler runs that succeed
  None

ASSUME MaxRunsNat == MaxRuns \in Nat
ASSUME NoneIsNoConnection == None \notin Connections
ASSUME NoneIsNoRecord == None \notin Requests \X Nat

VARIABLES
  record,        \* api_idempotency_records: per key <<request, response>> or None
  keyRow,        \* idempotency_keys: the request hash of each key or None
  recordLock,    \* the connection with an uncommitted insert of a record
  keyLock,       \* the connection with an uncommitted insert of a key row
  conn,          \* where each connection is in the wrapper
  runs,          \* number of runs so far: run n answers with response n
  effects,       \* history: the successful runs whose writes are committed
  answers        \* history: the successes clients have been told of

vars == <<record, keyRow, recordLock, keyLock, conn, runs, effects, answers>>

Responses == 1 .. MaxRuns
Idle == [at |-> "idle"]

Init ==
  /\ record = [k \in Keys |-> None]
  /\ keyRow = [k \in Keys |-> None]
  /\ recordLock = [k \in Keys |-> None]
  /\ keyLock = [k \in Keys |-> None]
  /\ conn = [w \in Connections |-> Idle]
  /\ runs = 0
  /\ effects = {}
  /\ answers = {}

Goto(w, place) == conn' = [conn EXCEPT ![w].at = place]

\* The rows a connection has inserted are released when its transaction ends.
KeepLocks(w, lock) == lock    \* mutant of FreeLocks
FreeLocks(w, lock) == [k \in Keys |-> IF lock[k] = w THEN None ELSE lock[k]]

\* Commit, rollback or a replay ends the transaction of w.
Finish(w) ==
  /\ conn' = [conn EXCEPT ![w] = Idle]
  /\ recordLock' = FreeLocks(w, recordLock)
  /\ keyLock' = FreeLocks(w, keyLock)
  /\ UNCHANGED runs

\* The connection is lost, a statement fails or the handler throws.
Rollback(w) ==
  /\ conn[w] # Idle
  /\ Finish(w)
  /\ UNCHANGED <<record, keyRow, effects, answers>>

Receive(w, k, h) ==
  /\ conn[w] = Idle
  /\ conn' = [conn EXCEPT ![w] = [at |-> "findRecord", key |-> k, request |-> h, response |-> 0]]
  /\ UNCHANGED <<record, keyRow, recordLock, keyLock, runs, effects, answers>>

AnyRequest(k, h) == TRUE    \* mutant of SameRequest
SameRequest(k, h) == record[k][1] = h

\* findIdempotencyRecord: answer from the record, or refuse another request.
Replay(w) ==
  LET k == conn[w].key
      h == conn[w].request
  IN  /\ conn[w].at = "findRecord"
      /\ record[k] # None
      /\ SameRequest(k, h)
      /\ answers' = answers \cup {<<k, h, record[k][2]>>}
      /\ Finish(w)
      /\ UNCHANGED <<record, keyRow, effects>>

FindNoRecord(w) ==
  /\ conn[w].at = "findRecord"
  /\ record[conn[w].key] = None
  /\ Goto(w, "findKey")
  /\ UNCHANGED <<record, keyRow, recordLock, keyLock, runs, effects, answers>>

\* ensureLegacyIdempotencyKey: the select (a key row of another request is an
\* error) and the insert, which fails if the row has been committed meanwhile.
FindKey(w) ==
  LET row == keyRow[conn[w].key]
  IN  /\ conn[w].at = "findKey"
      /\ row \in {None, conn[w].request}
      /\ Goto(w, IF row = None THEN "insertKey" ELSE "run")
      /\ UNCHANGED <<record, keyRow, recordLock, keyLock, runs, effects, answers>>

InsertKey(w) ==
  LET k == conn[w].key
  IN  /\ conn[w].at = "insertKey"
      /\ keyLock[k] = None
      /\ keyRow[k] = None
      /\ keyLock' = [keyLock EXCEPT ![k] = w]
      /\ Goto(w, "run")
      /\ UNCHANGED <<record, keyRow, recordLock, runs, effects, answers>>

\* The handler answers below 400: its answer is to be recorded.
Succeed(w) ==
  /\ conn[w].at = "run"
  /\ runs < MaxRuns
  /\ runs' = runs + 1
  /\ conn' = [conn EXCEPT ![w].at = "insertRecord", ![w].response = runs + 1]
  /\ UNCHANGED <<record, keyRow, recordLock, keyLock, effects, answers>>

KeyRowAnswered(w) ==    \* mutant of KeyRowAfter
  [k \in Keys |-> IF keyLock[k] = w THEN conn[w].response ELSE keyRow[k]]
KeyRowAfter(w) == [k \in Keys |-> IF keyLock[k] = w THEN conn[w].request ELSE keyRow[k]]

\* The handler answers 400 or above: the transaction commits without a record,
\* and the key can be used for the same request again.
Refuse(w) ==
  /\ conn[w].at = "run"
  /\ keyRow' = KeyRowAfter(w)
  /\ Finish(w)
  /\ UNCHANGED <<record, effects, answers>>

NotUnique(k) == TRUE    \* mutant of Unique
\* unique (platform_tenant_id, idempotency_key)
Unique(k) == record[k] = None

InsertRecord(w) ==
  LET k == conn[w].key
  IN  /\ conn[w].at = "insertRecord"
      /\ recordLock[k] = None
      /\ Unique(k)
      /\ recordLock' = [recordLock EXCEPT ![k] = w]
      /\ Goto(w, "commit")
      /\ UNCHANGED <<record, keyRow, keyLock, runs, effects, answers>>

\* The answer may be lost on its way to the client.
Commit(w, delivered) ==
  LET k == conn[w].key
      done == <<k, conn[w].request, conn[w].response>>
  IN  /\ conn[w].at = "commit"
      /\ record' = [record EXCEPT ![k] = <<conn[w].request, conn[w].response>>]
      /\ keyRow' = KeyRowAfter(w)
      /\ effects' = effects \cup {done}
      /\ answers' = IF delivered THEN answers \cup {done} ELSE answers
      /\ Finish(w)

Proceed(w) ==
  \/ Replay(w) \/ FindNoRecord(w) \/ FindKey(w) \/ InsertKey(w)
  \/ Succeed(w) \/ Refuse(w) \/ InsertRecord(w)
  \/ \E delivered \in BOOLEAN : Commit(w, delivered)

Next ==
  \E w \in Connections :
    \/ \E k \in Keys, h \in Requests : Receive(w, k, h)
    \/ Proceed(w)
    \/ Rollback(w)

Spec == Init /\ [][Next]_vars

\* The statement a connection has sent is executed; PostgreSQL lets the inserts
\* that wait for one key go on in turn.  A statement that cannot succeed
\* (another request's key, a unique violation) raises an error, which is a
\* rollback.
MustFail(w) ==
  LET k == conn[w].key
      h == conn[w].request
  IN  \/ conn[w].at = "findRecord" /\ record[k] # None /\ ~SameRequest(k, h)
      \/ conn[w].at = "findKey" /\ keyRow[k] \notin {None, h}
      \/ conn[w].at = "insertKey" /\ keyLock[k] = None /\ keyRow[k] # None
      \/ conn[w].at = "insertRecord" /\ recordLock[k] = None /\ ~Unique(k)
Fail(w) == MustFail(w) /\ Rollback(w)

Fairness == \A w \in Connections : SF_vars(Proceed(w)) /\ WF_vars(Fail(w))

FairSpec == Spec /\ Fairness

-----------------------------------------------------------------------------
(* Properties *)

TypeOK ==
  /\ record \in [Keys -> {None} \cup (Requests \X Nat)]
  /\ keyRow \in [Keys -> {None} \cup Requests]
  /\ recordLock \in [Keys -> {None} \cup Connections]
  /\ keyLock \in [Keys -> {None} \cup Connections]
  /\ conn \in [Connections ->
                 {Idle} \cup [at : {"findRecord", "findKey", "insertKey", "run", "insertRecord", "commit"},
                              key : Keys, request : Requests, response : Nat]]
  /\ runs \in 0 .. MaxRuns
  /\ effects \subseteq Keys \X Requests \X Nat
  /\ answers \subseteq Keys \X Requests \X Nat

\* However often and by however many connections a command is sent under one
\* key, its effects are committed at most once, though its handler may run
\* several times and even at the same time.
AtMostOneEffect == \A x, y \in effects : x[1] = y[1] => x = y

\* A client told of a success is told of the one that was committed, for the
\* request it sent: no answer before its commit, from a run that was rolled back,
\* or from another request under the same key.
AnswersAreCommitted == answers \subseteq effects

\* The promise of an idempotency key (module AtMostOnce).
Key == INSTANCE AtMostOnce WITH outcome <- record
ImplementsAtMostOnce == Key!Spec

\* No command waits for ever behind another that uses its key.
EveryCommandEnds == \A w \in Connections : conn[w] # Idle ~> conn[w] = Idle
=============================================================================
