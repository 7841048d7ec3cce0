----------------------- MODULE ReservationTransactions -----------------------
(***************************************************************************)
(* The reservation and obligation commands as PostgreSQL runs them: each   *)
(* connection runs one command in a READ COMMITTED transaction             *)
(* (withPostgresTransaction), takes row locks one SELECT ... FOR UPDATE at *)
(* a time in the order the handler does, writes, and commits.  Inserting   *)
(* into obligation_events takes a KEY SHARE lock on the obligation its     *)
(* foreign key names; that lock comes last in a consume or a release and   *)
(* first (as FOR UPDATE) in a create, a cancel and a fulfil, so lock waits *)
(* can form a cycle, which PostgreSQL breaks by aborting one of them.      *)
(*                                                                         *)
(* The columns are those of FundingReservations and hold committed values. *)
(* A transaction keeps what it read (seen) and computes its writes from    *)
(* that; nothing of it shows before Commit.                                *)
(***************************************************************************)
EXTENDS FundingReservations, Sequences

CONSTANTS
  Connections,    \* connections of the pool that run commands
  EndStatus       \* the statuses clients end reservations in

ASSUME EndStatusKnown == EndStatus \subseteq {"released", "expired", "cancelled"}
ASSUME NoneIsNoConnection == None \notin Connections

VARIABLES
  cmd,          \* the command each connection runs, NoCommand when idle
  todo,         \* its lock requests still to make, in order
  seen,         \* the values its locking reads returned
  rowLock,      \* FOR UPDATE: which connection holds each row, None if none
  keyShare      \* FOR KEY SHARE: the connections that hold it, per obligation

txVars == <<cmd, todo, seen, rowLock, keyShare>>
allVars == <<vars, txVars>>

NoCommand == [kind |-> "idle"]

\* Rows to lock FOR UPDATE, and the two statements that lock otherwise: the
\* count of active reservations, which locks nothing, and the insert into
\* obligation_events, which shares the key of the obligation.
Obligation(o)  == <<"obligation", o>>
Reservation(r) == <<"reservation", r>>
Balance(a)     == <<"balance", a>>
CountActive(o) == <<"count", o>>
LockForEvent(o) == <<"obligation", o>>    \* mutant of RecordEvent
RecordEvent(o) == <<"event", o>>
Rows == {Obligation(o) : o \in Obligations} \cup {Reservation(r) : r \in Reservations}
          \cup {Balance(a) : a \in Accounts}

Commands ==
  [kind : {"create"}, r : Reservations, o : Obligations, a : Accounts, n : Amounts]
    \cup [kind : {"consume"}, r : Reservations, n : Amounts]
    \cup [kind : {"end"}, r : Reservations, next : EndStatus]
    \cup [kind : {"cancel"}, o : Obligations]
    \cup [kind : {"fulfil"}, o : Obligations, n : Amounts]
    \cup [kind : {"fulfilFrom"}, o : Obligations, r : Reservations, n : Amounts]

NothingSeen ==
  [obligationStatus |-> "absent", fulfilled |-> 0, reservationStatus |-> "absent",
   consumed |-> 0, active |-> 0, available |-> 0, reserved |-> 0]

TxInit ==
  /\ Init
  /\ cmd = [w \in Connections |-> NoCommand]
  /\ todo = [w \in Connections |-> <<>>]
  /\ seen = [w \in Connections |-> NothingSeen]
  /\ rowLock = [x \in Rows |-> None]
  /\ keyShare = [o \in Obligations |-> {}]

-----------------------------------------------------------------------------
(* Row locks *)

\* The connections that hold row x against w.  Mutant: the balance is read
\* without FOR UPDATE.
HoldersWithoutBalanceLock(w, x) ==
  IF x[1] = "balance" THEN {} ELSE {rowLock[x]} \ {None, w}
Holders(w, x) == {rowLock[x]} \ {None, w}

\* The connections w has to wait for before its next statement runs.
Blockers(w) ==
  IF todo[w] = <<>> THEN {}
  ELSE LET x == Head(todo[w])
       IN  CASE x[1] = "count" -> {}
             [] x[1] = "event" -> Holders(w, Obligation(x[2]))
             [] x[1] = "obligation" -> Holders(w, x) \cup (keyShare[x[2]] \ {w})
             [] OTHER -> Holders(w, x)

\* A cycle of waiting connections, and being on one.
FormsCycle(S) ==
  S # {} /\ \A v \in S : Blockers(v) \cap S # {} /\ \E u \in S : v \in Blockers(u)
Deadlocked(w) == \E S \in SUBSET Connections : w \in S /\ FormsCycle(S)

\* The row locks once the transaction of w is over.  Mutant: it never ends.
UnlockedNothing(w) == rowLock
Unlocked(w) == [x \in Rows |-> IF rowLock[x] = w THEN None ELSE rowLock[x]]

\* Commit, rollback and an error answer all end the transaction.
Finish(w) ==
  /\ cmd' = [cmd EXCEPT ![w] = NoCommand]
  /\ todo' = [todo EXCEPT ![w] = <<>>]
  /\ seen' = [seen EXCEPT ![w] = NothingSeen]
  /\ rowLock' = Unlocked(w)
  /\ keyShare' = [o \in Obligations |-> keyShare[o] \ {w}]

-----------------------------------------------------------------------------
(* One statement of a handler *)

\* What the connection knows once statement x has run: a locking read returns
\* the latest committed values.
Read(s, x) ==
  CASE x[1] = "obligation" ->
         [s EXCEPT !.obligationStatus = obligationStatus[x[2]], !.fulfilled = fulfilled[x[2]]]
    [] x[1] = "reservation" ->
         [s EXCEPT !.reservationStatus = reservationStatus[x[2]], !.consumed = consumed[x[2]]]
    [] x[1] = "balance" ->
         [s EXCEPT !.available = available[x[2]], !.reserved = reserved[x[2]]]
    [] x[1] = "count" -> [s EXCEPT !.active = Cardinality(ActiveFor(x[2]))]
    [] OTHER -> s

\* The early returns of the handlers: the command goes on past statement x.
GoesOn(c, x, s) ==
  CASE x[1] = "obligation" /\ c.kind \in {"create", "cancel"} ->
         s.obligationStatus \notin TerminalObligation \cup {"absent"}
    [] x[1] = "obligation" /\ c.kind \in {"fulfil", "fulfilFrom"} ->
         /\ s.obligationStatus \notin {"cancelled", "absent"}
         /\ c.n <= principal[c.o] - s.fulfilled
    [] x[1] = "reservation" /\ c.kind = "end" -> s.reservationStatus = "active"
    [] x[1] = "reservation" /\ c.kind # "end" ->
         \/ s.reservationStatus = "active" /\ c.n <= amount[c.r] - s.consumed
         \/ c.kind = "fulfilFrom" /\ s.reservationStatus = "consumed"
    [] x[1] = "balance" -> c.kind = "create" => c.n <= s.available
    [] x[1] = "count" -> s.active = 0
    [] OTHER -> TRUE

\* The statements that follow x, given what has been read.
FollowedBy(c, x, s) ==
  CASE x[1] = "obligation" /\ c.kind = "create" -> <<Balance(c.a)>>
    [] x[1] = "obligation" /\ c.kind = "cancel" -> <<CountActive(c.o)>>
    [] x[1] = "obligation" /\ c.kind = "fulfilFrom" -> <<Reservation(c.r)>>
    [] x[1] = "reservation" /\ s.reservationStatus = "active" ->
         <<Balance(onAccount[c.r]), RecordEvent(forObligation[c.r])>>
    [] OTHER -> <<>>

Begin(w, c) ==
  /\ cmd[w] = NoCommand
  /\ c.kind = "create" =>     \* randomUUID
       /\ reservationStatus[c.r] = "absent"
       /\ \A v \in Connections : cmd[v].kind = "create" => cmd[v].r # c.r
  /\ cmd' = [cmd EXCEPT ![w] = c]
  /\ todo' = [todo EXCEPT ![w] =
                IF c.kind \in {"consume", "end"} THEN <<Reservation(c.r)>> ELSE <<Obligation(c.o)>>]
  /\ UNCHANGED <<vars, seen, rowLock, keyShare>>

Statement(w) ==
  /\ todo[w] # <<>>
  /\ Blockers(w) = {}
  /\ LET x == Head(todo[w])
         s == Read(seen[w], x)
     IN  IF GoesOn(cmd[w], x, s)
         THEN /\ seen' = [seen EXCEPT ![w] = s]
              /\ todo' = [todo EXCEPT ![w] = Tail(@) \o FollowedBy(cmd[w], x, s)]
              /\ rowLock' = [y \in Rows |-> IF y = x THEN w ELSE rowLock[y]]
              /\ keyShare' = [o \in Obligations |->
                                IF x = RecordEvent(o) THEN keyShare[o] \cup {w} ELSE keyShare[o]]
              /\ UNCHANGED cmd
         ELSE Finish(w)
  /\ UNCHANGED vars

-----------------------------------------------------------------------------
(* The writes, computed from what was read *)

WriteCreate(c, s) ==
  /\ reservationStatus' = [reservationStatus EXCEPT ![c.r] = "active"]
  /\ forObligation' = [forObligation EXCEPT ![c.r] = c.o]
  /\ onAccount' = [onAccount EXCEPT ![c.r] = c.a]
  /\ amount' = [amount EXCEPT ![c.r] = c.n]
  /\ available' = [available EXCEPT ![c.a] = s.available - c.n]
  /\ reserved' = [reserved EXCEPT ![c.a] = s.reserved + c.n]
  /\ obligationStatus' = [obligationStatus EXCEPT ![c.o] =
                            IF s.obligationStatus = "draft" THEN "reserved" ELSE @]
  /\ UNCHANGED <<principal, fulfilled, consumed, credited>>

WriteConsume(c, s) ==
  LET a == onAccount[c.r]
      spent == s.consumed + c.n
  IN  /\ available' = [available EXCEPT ![a] = s.available]
      /\ reserved' = [reserved EXCEPT ![a] = Drain(s.reserved, c.n)]
      /\ consumed' = [consumed EXCEPT ![c.r] = spent]
      /\ reservationStatus' = [reservationStatus EXCEPT ![c.r] =
                                 IF spent >= amount[c.r] THEN "consumed" ELSE "active"]
      /\ UNCHANGED <<forObligation, onAccount, amount, credited>>

WriteEnd(c, s) ==
  LET a == onAccount[c.r]
      back == amount[c.r] - s.consumed
  IN  /\ available' = [available EXCEPT ![a] = s.available + back]
      /\ reserved' = [reserved EXCEPT ![a] = Drain(s.reserved, back)]
      /\ reservationStatus' = [reservationStatus EXCEPT ![c.r] = c.next]
      /\ UNCHANGED <<obligationVars, forObligation, onAccount, amount, consumed, credited>>

WriteCancel(c) ==
  /\ obligationStatus' = [obligationStatus EXCEPT ![c.o] = "cancelled"]
  /\ UNCHANGED <<principal, fulfilled, reservationVars, balanceVars>>

WriteFulfil(c, s) ==
  LET total == s.fulfilled + c.n
  IN  /\ fulfilled' = [fulfilled EXCEPT ![c.o] = total]
      /\ obligationStatus' = [obligationStatus EXCEPT ![c.o] =
                                IF total >= principal[c.o] THEN "fulfilled"
                                                           ELSE "partially_fulfilled"]
      /\ UNCHANGED principal

Commit(w) ==
  LET c == cmd[w]
      s == seen[w]
  IN  /\ c # NoCommand /\ todo[w] = <<>>
      /\ \/ c.kind = "create" /\ WriteCreate(c, s)
         \/ c.kind = "consume" /\ WriteConsume(c, s) /\ UNCHANGED obligationVars
         \/ c.kind = "end" /\ WriteEnd(c, s)
         \/ c.kind = "cancel" /\ WriteCancel(c)
         \/ c.kind = "fulfil" /\ WriteFulfil(c, s) /\ UNCHANGED <<reservationVars, balanceVars>>
         \/ /\ c.kind = "fulfilFrom" /\ WriteFulfil(c, s)
            /\ IF s.reservationStatus = "active" THEN WriteConsume(c, s)
                                                 ELSE UNCHANGED <<reservationVars, balanceVars>>
      /\ Finish(w)

\* The connection or the process is lost, or a statement fails: rollback.
Rollback(w) == cmd[w] # NoCommand /\ Finish(w) /\ UNCHANGED vars

\* PostgreSQL's deadlock detector aborts a transaction that waits for itself.
AbortVictim(w) == Deadlocked(w) /\ Finish(w) /\ UNCHANGED vars

\* Transactions of one statement each, as far as these rows go; the upsert of
\* a balance waits for the lock on its row.
InsertObligation(o, p, s) == CreateObligation(o, p, s) /\ UNCHANGED txVars
PostFunds(a, n) == rowLock[Balance(a)] = None /\ CreditAvailable(a, n) /\ UNCHANGED txVars

TxNext ==
  \/ \E o \in Obligations, p \in Amounts, s \in {"draft", "reserved"} : InsertObligation(o, p, s)
  \/ \E a \in Accounts, n \in Amounts : PostFunds(a, n)
  \/ \E w \in Connections :
       \/ \E c \in Commands : Begin(w, c)
       \/ Statement(w)
       \/ Commit(w)
       \/ Rollback(w)
       \/ AbortVictim(w)

TxSpec == TxInit /\ [][TxNext]_allVars

\* A connection keeps running its statements; PostgreSQL queues the waiters of
\* a row in order, so a lock that keeps being freed is granted (strong
\* fairness), and runs its deadlock check on every long wait.
Fairness ==
  \A w \in Connections :
    SF_allVars(Statement(w)) /\ WF_allVars(Commit(w)) /\ WF_allVars(AbortVictim(w))

FairTxSpec == TxSpec /\ Fairness

-----------------------------------------------------------------------------
(* Properties *)

\* A connection that goes back to the pool holds no row lock, however its
\* transaction ended: by a commit, an early return, an error or an abort.
ReleasedConnectionsHoldNothing ==
  \A w \in Connections : cmd[w] = NoCommand =>
    /\ todo[w] = <<>>
    /\ \A x \in Rows : rowLock[x] # w
    /\ \A o \in Obligations : w \notin keyShare[o]

\* The FOR UPDATE locks are taken in one order (obligation, reservation,
\* balance) and cannot deadlock among themselves: every cycle of waits passes
\* through an insert into obligation_events.
CyclesPassThroughAnEvent ==
  \A S \in SUBSET Connections :
    FormsCycle(S) => \E v \in S : Head(todo[v])[1] = "event"

\* Locks are given back however a transaction ends, and the explicit ones are
\* taken in one order.
LocksAreOrdered == ReleasedConnectionsHoldNothing /\ CyclesPassThroughAnEvent

\* Interleaved statement by statement, rolled back at any point or aborted by
\* the deadlock detector, the commands commit as if each had run alone: no
\* commit overwrites what another wrote after the first one's reads.
CommandsAreAtomic == Spec

\* No command waits for ever: lock waits can form a cycle (a release holds the
\* reservation and its balance and waits to share the obligation that a create
\* or a fulfil holds), and the cycle is always broken.
EveryCommandEnds == \A w \in Connections : cmd[w] # NoCommand ~> cmd[w] = NoCommand
=============================================================================
