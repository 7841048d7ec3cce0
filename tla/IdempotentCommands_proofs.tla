----------------------- MODULE IdempotentCommands_proofs -----------------------
(***************************************************************************)
(* Proofs about IdempotentCommands, for any number of keys, requests and   *)
(* connections.  The argument: a connection that is about to commit owns   *)
(* the only uncommitted record of its key and the key has no committed     *)
(* one, so a commit never writes over a record, and the records are        *)
(* exactly the committed effects.                                          *)
(***************************************************************************)
EXTENDS IdempotentCommands, TLAPS

\* The committed records and the committed effects are the same thing.
RecordsAreEffects ==
  /\ \A x \in effects : record[x[1]] = <<x[2], x[3]>>
  /\ \A k \in Keys : record[k] # None => <<k, record[k][1], record[k][2]>> \in effects

\* A connection about to commit holds the lock on the record it inserted, for
\* a key without a committed record.
CommitsAreFirst ==
  \A w \in Connections : conn[w].at = "commit" =>
    record[conn[w].key] = None /\ recordLock[conn[w].key] = w

\* A run that is to be recorded has a response.
RunsAreNumbered ==
  \A w \in Connections : conn[w].at \in {"insertRecord", "commit"} => conn[w].response \in Responses

IInv == TypeOK /\ RecordsAreEffects /\ AnswersAreCommitted /\ CommitsAreFirst /\ RunsAreNumbered

\* The invariant holds initially.
LEMMA InitEstablishes == Init => IInv
  BY MaxRunsNat DEF Init, IInv, TypeOK, RecordsAreEffects, AnswersAreCommitted, CommitsAreFirst,
       RunsAreNumbered, Idle, Responses

\* What is known of a connection that is not idle.
LEMMA BusyConnection ==
  ASSUME TypeOK, NEW w \in Connections, conn[w].at # "idle"
  PROVE  /\ conn[w].key \in Keys
         /\ conn[w].request \in Requests
         /\ conn[w].response \in Nat
  BY DEF TypeOK, Idle

\* Ending a transaction frees the locks of that connection and of no other.
LEMMA FinishKeeps ==
  ASSUME TypeOK, CommitsAreFirst, RunsAreNumbered, NEW w \in Connections, Finish(w)
  PROVE  /\ recordLock' \in [Keys -> {None} \cup Connections]
         /\ keyLock' \in [Keys -> {None} \cup Connections]
         /\ conn' \in [Connections ->
                 {Idle} \cup [at : {"findRecord", "findKey", "insertKey", "run", "insertRecord", "commit"},
                              key : Keys, request : Requests, response : Nat]]
         /\ runs' \in 0 .. MaxRuns
         /\ conn'[w] = Idle
         /\ \A v \in Connections \ {w} : conn'[v] = conn[v]
         /\ \A v \in Connections \ {w} : conn[v].at = "commit" =>
              recordLock'[conn[v].key] = v
         /\ RunsAreNumbered'
<1>1. /\ recordLock' \in [Keys -> {None} \cup Connections]
      /\ keyLock' \in [Keys -> {None} \cup Connections]
      /\ runs' \in 0 .. MaxRuns
  BY DEF Finish, FreeLocks, TypeOK
<1>2. /\ conn'[w] = Idle
      /\ \A v \in Connections \ {w} : conn'[v] = conn[v]
  BY DEF Finish, TypeOK
<1>3. conn' \in [Connections ->
                 {Idle} \cup [at : {"findRecord", "findKey", "insertKey", "run", "insertRecord", "commit"},
                              key : Keys, request : Requests, response : Nat]]
  BY DEF Finish, TypeOK
<1>4. \A v \in Connections \ {w} : conn[v].at = "commit" => recordLock'[conn[v].key] = v
  <2>1. TAKE v \in Connections \ {w}
  <2>2. HAVE conn[v].at = "commit"
  <2>3. conn[v].key \in Keys
    BY <2>2, BusyConnection
  <2>4. recordLock[conn[v].key] = v
    BY <2>2 DEF CommitsAreFirst
  <2> QED
    BY <2>3, <2>4 DEF Finish, FreeLocks
<1>5. RunsAreNumbered'
  BY <1>2 DEF RunsAreNumbered, Idle, Responses
<1> QED
  BY <1>1, <1>2, <1>3, <1>4, <1>5

\* A transaction that ends without writing a record keeps the invariant, if
\* what it answers is committed.
LEMMA EndWithoutRecord ==
  ASSUME IInv, NEW w \in Connections, Finish(w), UNCHANGED <<record, effects>>,
         keyRow' \in [Keys -> {None} \cup Requests], answers' \subseteq effects
  PROVE  IInv'
<1> USE DEF IInv
<1>1. TypeOK'
  BY FinishKeeps DEF TypeOK
<1>2. RecordsAreEffects' /\ AnswersAreCommitted'
  BY DEF RecordsAreEffects, AnswersAreCommitted
<1>3. CommitsAreFirst'
  BY FinishKeeps DEF CommitsAreFirst, Idle
<1>4. RunsAreNumbered'
  BY FinishKeeps
<1> QED
  BY <1>1, <1>2, <1>3, <1>4

\* Moving a connection to a place other than its commit keeps the invariant.
LEMMA MoveKeeps ==
  ASSUME IInv, NEW w \in Connections,
         UNCHANGED <<record, keyRow, recordLock, effects, answers>>,
         keyLock' \in [Keys -> {None} \cup Connections],
         runs' \in 0 .. MaxRuns,
         NEW c \in [at : {"findRecord", "findKey", "insertKey", "run", "insertRecord"},
                    key : Keys, request : Requests, response : Nat],
         c.at = "insertRecord" => c.response \in Responses,
         conn' = [conn EXCEPT ![w] = c]
  PROVE  IInv'
<1>1. TypeOK'
  BY DEF IInv, TypeOK
<1>2. RecordsAreEffects' /\ AnswersAreCommitted'
  BY DEF IInv, RecordsAreEffects, AnswersAreCommitted
<1>3. CommitsAreFirst' /\ RunsAreNumbered'
  BY DEF IInv, TypeOK, CommitsAreFirst, RunsAreNumbered, Responses
<1> QED
  BY <1>1, <1>2, <1>3 DEF IInv

\* Every step keeps the invariant.
LEMMA NextKeeps == IInv /\ [Next]_vars => IInv'
<1> SUFFICES ASSUME IInv, [Next]_vars PROVE IInv'
  OBVIOUS
<1>0. TypeOK
  BY DEF IInv
<1>1. CASE UNCHANGED vars
  BY <1>1 DEF vars, IInv, TypeOK, RecordsAreEffects, AnswersAreCommitted, CommitsAreFirst,
       RunsAreNumbered, Responses
<1>2. ASSUME NEW w \in Connections, NEW k \in Keys, NEW h \in Requests, Receive(w, k, h)
      PROVE  IInv'
  <2> DEFINE c == [at |-> "findRecord", key |-> k, request |-> h, response |-> 0]
  <2>1. conn' = [conn EXCEPT ![w] = c]
    BY <1>2 DEF Receive
  <2>2. c \in [at : {"findRecord", "findKey", "insertKey", "run", "insertRecord"},
               key : Keys, request : Requests, response : Nat] /\ c.at # "insertRecord"
    OBVIOUS
  <2>3. UNCHANGED <<record, keyRow, recordLock, keyLock, runs, effects, answers>>
    BY <1>2 DEF Receive
  <2> HIDE DEF c
  <2> QED
    BY <1>0, <2>1, <2>2, <2>3, MoveKeeps DEF TypeOK
<1>3. ASSUME NEW w \in Connections, Replay(w)
      PROVE  IInv'
  <2>1. conn[w].key \in Keys
    BY <1>0, <1>3, BusyConnection DEF Replay
  <2>2. <<conn[w].key, record[conn[w].key][1], record[conn[w].key][2]>> \in effects
    BY <1>3, <2>1 DEF Replay, IInv, RecordsAreEffects
  <2>3. answers' \subseteq effects
    BY <1>3, <2>2 DEF Replay, SameRequest, IInv, AnswersAreCommitted
  <2>4. Finish(w) /\ UNCHANGED <<record, effects>> /\ keyRow' \in [Keys -> {None} \cup Requests]
    BY <1>0, <1>3 DEF Replay, TypeOK
  <2> QED
    BY <2>3, <2>4, EndWithoutRecord
<1>4. ASSUME NEW w \in Connections, FindNoRecord(w) \/ FindKey(w) \/ InsertKey(w)
      PROVE  IInv'
  <2>1. conn[w].at \in {"findRecord", "findKey", "insertKey"}
    BY <1>4 DEF FindNoRecord, FindKey, InsertKey
  <2>2. conn[w] \in [at : {"findRecord", "findKey", "insertKey"},
                     key : Keys, request : Requests, response : Nat]
    BY <1>0, <2>1 DEF TypeOK, Idle
  <2>3. PICK p \in {"findKey", "insertKey", "run"} : Goto(w, p)
    BY <1>4 DEF FindNoRecord, FindKey, InsertKey
  <2> DEFINE c == [conn[w] EXCEPT !.at = p]
  <2>4. conn' = [conn EXCEPT ![w] = c]
    BY <1>0, <2>3 DEF Goto, TypeOK
  <2>5. c \in [at : {"findRecord", "findKey", "insertKey", "run", "insertRecord"},
               key : Keys, request : Requests, response : Nat] /\ c.at # "insertRecord"
    BY <2>2
  <2>6. /\ UNCHANGED <<record, keyRow, recordLock, effects, answers>>
        /\ keyLock' \in [Keys -> {None} \cup Connections]
        /\ runs' \in 0 .. MaxRuns
    BY <1>0, <1>4 DEF FindNoRecord, FindKey, InsertKey, TypeOK
  <2> HIDE DEF c
  <2> QED
    BY <2>4, <2>5, <2>6, MoveKeeps
<1>5. ASSUME NEW w \in Connections, Succeed(w)
      PROVE  IInv'
  <2>1. conn[w] \in [at : {"run"}, key : Keys, request : Requests, response : Nat]
    BY <1>0, <1>5 DEF TypeOK, Idle, Succeed
  <2> DEFINE c == [conn[w] EXCEPT !.at = "insertRecord", !.response = runs + 1]
  <2>2. conn' = [conn EXCEPT ![w] = c]
    BY <1>0, <1>5 DEF Succeed, TypeOK
  <2>3. runs + 1 \in Responses /\ runs + 1 \in Nat /\ runs' \in 0 .. MaxRuns
    BY <1>0, <1>5, MaxRunsNat DEF Succeed, TypeOK, Responses
  <2>4. c \in [at : {"findRecord", "findKey", "insertKey", "run", "insertRecord"},
               key : Keys, request : Requests, response : Nat] /\ c.response \in Responses
    BY <2>1, <2>3
  <2>5. /\ UNCHANGED <<record, keyRow, recordLock, effects, answers>>
        /\ keyLock' \in [Keys -> {None} \cup Connections]
    BY <1>0, <1>5 DEF Succeed, TypeOK
  <2> HIDE DEF c
  <2> QED
    BY <2>2, <2>3, <2>4, <2>5, MoveKeeps
<1>6. ASSUME NEW w \in Connections, Refuse(w) \/ Rollback(w)
      PROVE  IInv'
  <2>1. CASE Refuse(w)
    <3>1. conn[w].request \in Requests
      BY <1>0, <2>1, BusyConnection DEF Refuse
    <3>2. keyRow' \in [Keys -> {None} \cup Requests]
      BY <1>0, <2>1, <3>1 DEF Refuse, KeyRowAfter, TypeOK
    <3> QED
      BY <2>1, <3>2, EndWithoutRecord DEF Refuse, IInv, AnswersAreCommitted
  <2>2. CASE Rollback(w)
    BY <1>0, <2>2, EndWithoutRecord DEF Rollback, IInv, AnswersAreCommitted, TypeOK
  <2> QED
    BY <1>6, <2>1, <2>2
<1>7. ASSUME NEW w \in Connections, InsertRecord(w)
      PROVE  IInv'
  <2>1. conn[w] \in [at : {"insertRecord"}, key : Keys, request : Requests, response : Nat]
    BY <1>0, <1>7 DEF TypeOK, Idle, InsertRecord
  <2> DEFINE k == conn[w].key
             c == [conn[w] EXCEPT !.at = "commit"]
  <2>2. /\ k \in Keys /\ c.key = k /\ c.at = "commit" /\ c.response = conn[w].response
        /\ c \in [at : {"commit"}, key : Keys, request : Requests, response : Nat]
    BY <2>1
  <2>3. /\ conn' = [conn EXCEPT ![w] = c]
        /\ recordLock[k] = None /\ record[k] = None
        /\ recordLock' = [recordLock EXCEPT ![k] = w]
        /\ UNCHANGED <<record, keyRow, keyLock, runs, effects, answers>>
    BY <1>0, <1>7 DEF InsertRecord, Goto, Unique, TypeOK
  <2>4. conn[w].response \in Responses
    BY <1>7 DEF IInv, RunsAreNumbered, InsertRecord
  <2> HIDE DEF c, k
  <2>5. TypeOK'
    BY <1>0, <2>2, <2>3 DEF TypeOK
  <2>6. RecordsAreEffects' /\ AnswersAreCommitted'
    BY <2>3 DEF IInv, RecordsAreEffects, AnswersAreCommitted
  <2>7. CommitsAreFirst'
    <3>1. SUFFICES ASSUME NEW v \in Connections, conn'[v].at = "commit"
                   PROVE  record'[conn'[v].key] = None /\ recordLock'[conn'[v].key] = v
      BY DEF CommitsAreFirst
    <3>2. CASE v = w
      BY <1>0, <2>2, <2>3, <3>2 DEF TypeOK
    <3>3. CASE v # w
      <4>1. conn'[v] = conn[v]
        BY <1>0, <2>3, <3>3 DEF TypeOK
      <4>2. record[conn[v].key] = None /\ recordLock[conn[v].key] = v
        BY <3>1, <4>1 DEF IInv, CommitsAreFirst
      <4>3. conn[v].key # k
        BY <2>3, <4>2, NoneIsNoConnection
      <4> QED
        BY <2>3, <4>1, <4>2, <4>3
    <3> QED
      BY <3>2, <3>3
  <2>8. RunsAreNumbered'
    BY <1>0, <2>2, <2>3, <2>4 DEF IInv, RunsAreNumbered, TypeOK, Responses
  <2> QED
    BY <2>5, <2>6, <2>7, <2>8 DEF IInv
<1>8. ASSUME NEW w \in Connections, NEW delivered \in BOOLEAN, Commit(w, delivered)
      PROVE  IInv'
  <2> DEFINE k == conn[w].key
             h == conn[w].request
             r == conn[w].response
  <2>1. k \in Keys /\ h \in Requests /\ r \in Nat
    BY <1>0, <1>8, BusyConnection DEF Commit
  <2>2. record[k] = None /\ recordLock[k] = w
    BY <1>8 DEF Commit, IInv, CommitsAreFirst
  <2>3. /\ record' = [record EXCEPT ![k] = <<h, r>>]
        /\ keyRow' = KeyRowAfter(w)
        /\ effects' = effects \cup {<<k, h, r>>}
        /\ answers' \subseteq answers \cup {<<k, h, r>>}
        /\ Finish(w)
    BY <1>8 DEF Commit
  <2> HIDE DEF k, h, r
  <2>4. TypeOK'
    <3>1. keyRow' \in [Keys -> {None} \cup Requests]
      BY <1>0, <2>1, <2>3 DEF KeyRowAfter, TypeOK, h
    <3>2. record' \in [Keys -> {None} \cup (Requests \X Nat)]
      BY <1>0, <2>1, <2>3 DEF TypeOK
    <3>3. effects' \subseteq Keys \X Requests \X Nat /\ answers' \subseteq Keys \X Requests \X Nat
      BY <1>0, <2>1, <2>3 DEF TypeOK
    <3> QED
      BY <2>3, <3>1, <3>2, <3>3, FinishKeeps DEF IInv, TypeOK
  <2>5. RecordsAreEffects'
    <3>1. \A x \in effects : x[1] \in Keys /\ x[1] # k
      <4>1. TAKE x \in effects
      <4>2. x \in Keys \X Requests \X Nat
        BY <1>0 DEF TypeOK
      <4>3. record[x[1]] = <<x[2], x[3]>> /\ <<x[2], x[3]>> \in Requests \X Nat
        BY <4>2 DEF IInv, RecordsAreEffects
      <4> QED
        BY <2>2, <4>2, <4>3, NoneIsNoRecord
    <3>2. \A x \in effects' : record'[x[1]] = <<x[2], x[3]>>
      BY <1>0, <2>1, <2>3, <3>1 DEF IInv, RecordsAreEffects, TypeOK
    <3>3. \A j \in Keys : record'[j] # None => <<j, record'[j][1], record'[j][2]>> \in effects'
      BY <1>0, <2>1, <2>3 DEF IInv, RecordsAreEffects, TypeOK
    <3> QED
      BY <3>2, <3>3 DEF RecordsAreEffects
  <2>6. AnswersAreCommitted'
    BY <2>3 DEF IInv, AnswersAreCommitted
  <2>7. CommitsAreFirst'
    <3>1. SUFFICES ASSUME NEW v \in Connections, conn'[v].at = "commit"
                   PROVE  record'[conn'[v].key] = None /\ recordLock'[conn'[v].key] = v
      BY DEF CommitsAreFirst
    <3>2. v # w /\ conn'[v] = conn[v]
      BY <2>3, <3>1, FinishKeeps DEF IInv, Idle
    <3>3. /\ record[conn[v].key] = None /\ recordLock[conn[v].key] = v
          /\ recordLock'[conn[v].key] = v
      BY <2>3, <3>1, <3>2, FinishKeeps DEF IInv, CommitsAreFirst
    <3>4. conn[v].key # k
      BY <2>2, <3>2, <3>3
    <3> QED
      BY <2>3, <3>2, <3>3, <3>4
  <2>8. RunsAreNumbered'
    BY <2>3, FinishKeeps DEF IInv
  <2> QED
    BY <2>4, <2>5, <2>6, <2>7, <2>8 DEF IInv
<1> QED
  BY <1>1, <1>2, <1>3, <1>4, <1>5, <1>6, <1>7, <1>8 DEF Next, Proceed

\* IInv holds in every reachable state.
THEOREM Invariant == Spec => []IInv
  BY InitEstablishes, NextKeeps, PTL DEF Spec

\* Every variable keeps its type, for any number of keys and connections.
THEOREM TypeCorrect == Spec => []TypeOK
<1>1. IInv => TypeOK
  BY DEF IInv
<1> QED
  BY <1>1, Invariant, PTL

\* The effects of a command are committed at most once per key, however many
\* connections run it under that key at the same time.
THEOREM AtMostOneEffectAlways == Spec => []AtMostOneEffect
<1>1. IInv => AtMostOneEffect
  <2> SUFFICES ASSUME IInv, NEW x \in effects, NEW y \in effects, x[1] = y[1] PROVE x = y
    BY DEF AtMostOneEffect
  <2>1. x \in Keys \X Requests \X Nat /\ y \in Keys \X Requests \X Nat
    BY DEF IInv, TypeOK
  <2>2. <<x[2], x[3]>> = <<y[2], y[3]>>
    BY DEF IInv, RecordsAreEffects
  <2>3. x[2] = y[2] /\ x[3] = y[3]
    BY <2>2
  <2> QED
    BY <2>1, <2>3
<1> QED
  BY <1>1, Invariant, PTL

\* A success a client is told of has been committed, for the request it sent.
THEOREM AnswersAreCommittedAlways == Spec => []AnswersAreCommitted
<1>1. IInv => AnswersAreCommitted
  BY DEF IInv
<1> QED
  BY <1>1, Invariant, PTL

\* A commit is the abstract command performed, a replay the abstract answer and
\* every other step a stutter: the wrapper keeps the promise of AtMostOnce.
THEOREM AtMostOnceImplemented == Spec => ImplementsAtMostOnce
<1>1. Init => Key!Init
  BY DEF Init, Key!Init
<1>2. IInv /\ [Next]_vars => [Key!Next]_(Key!vars)
  <2> SUFFICES ASSUME IInv, [Next]_vars PROVE Key!Next \/ UNCHANGED Key!vars
    OBVIOUS
  <2>0. TypeOK
    BY DEF IInv
  <2>1. CASE UNCHANGED vars
    BY <2>1 DEF vars, Key!vars
  <2>2. ASSUME NEW w \in Connections, NEW k \in Keys, NEW h \in Requests, Receive(w, k, h)
        PROVE  UNCHANGED Key!vars
    BY <2>2 DEF Receive, Key!vars
  <2>3. ASSUME NEW w \in Connections, Replay(w)
        PROVE  Key!Next
    <3>1. conn[w].key \in Keys
      BY <2>0, <2>3, BusyConnection DEF Replay
    <3>2. Key!Answer(conn[w].key)
      BY <2>3 DEF Replay, SameRequest, Key!Answer
    <3> QED
      BY <3>1, <3>2 DEF Key!Next
  <2>4. ASSUME NEW w \in Connections, NEW delivered \in BOOLEAN, Commit(w, delivered)
        PROVE  Key!Next
    <3>1. conn[w].key \in Keys /\ conn[w].request \in Requests
      BY <2>0, <2>4, BusyConnection DEF Commit
    <3>2. conn[w].response \in Responses /\ record[conn[w].key] = None
      BY <2>4 DEF Commit, IInv, RunsAreNumbered, CommitsAreFirst
    <3>3. Key!Perform(conn[w].key, conn[w].request, conn[w].response)
      BY <2>4, <3>2 DEF Commit, Key!Perform
    <3> QED
      BY <3>1, <3>2, <3>3 DEF Key!Next
  <2>5. ASSUME NEW w \in Connections,
               FindNoRecord(w) \/ FindKey(w) \/ InsertKey(w) \/ Succeed(w) \/ Refuse(w)
                 \/ InsertRecord(w) \/ Rollback(w)
        PROVE  UNCHANGED Key!vars
    BY <2>5 DEF FindNoRecord, FindKey, InsertKey, Succeed, Refuse, InsertRecord, Rollback, Key!vars
  <2> QED
    BY <2>1, <2>2, <2>3, <2>4, <2>5 DEF Next, Proceed
<1> QED
  BY <1>1, <1>2, Invariant, PTL DEF Spec, ImplementsAtMostOnce, Key!Spec
=============================================================================
