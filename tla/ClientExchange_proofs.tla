------------------------ MODULE ClientExchange_proofs ------------------------
(***************************************************************************)
(* The invariants of ClientExchange and its refinement of                  *)
(* TwoStageSettlement, for every set of instructions (a finite one),       *)
(* events, operators and accounts and every bound on amounts.              *)
(***************************************************************************)
EXTENDS ClientExchange, FiniteSetTheorems, TLAPS

-----------------------------------------------------------------------------
(* The inductive invariant *)

\* An instruction that has not been inserted has no amount and no orders; one
\* that has been names an account, and its USDC order is blocked until the wire
\* order completes.
InstructionRows ==
  \A i \in Instructions :
    /\ status[i] = "absent" =>
         /\ destination[i] = None /\ amount[i] = 0
         /\ wireOrder[i] = "absent" /\ usdcOrder[i] = "absent"
    /\ status[i] # "absent" =>
         /\ destination[i] \in Accounts /\ amount[i] \in Amounts
         /\ wireOrder[i] # "absent" /\ usdcOrder[i] # "absent"
         /\ wireOrder[i] # "completed" => usdcOrder[i] = "blocked_dependency"

\* What an operator's connection has read is a row that exists.
TransitionRows ==
  \A w \in Operators : transition[w] # Idle => status[transition[w].of] # "absent"

\* A stage is in the journal just when the instruction names the event that
\* confirmed it, an event of the right kind about that instruction.
StageByEvent(stage, kind, confirmedBy) ==
  \A i \in Instructions :
    /\ confirmedBy[i] # None =>
         /\ [stage |-> stage, of |-> i, by |-> confirmedBy[i]] \in journal
         /\ event[confirmedBy[i]].status = "processed"
         /\ event[confirmedBy[i]].kind = kind
         /\ event[confirmedBy[i]].of = i
    /\ \A x \in journal : x.stage = stage /\ x.of = i => confirmedBy[i] = x.by

Confirmations ==
  /\ StageByEvent("fiat_settled", "wire", wireConfirmedBy)
  /\ StageByEvent("posted", "usdc", usdcConfirmedBy)
  /\ \A i \in Instructions : usdcConfirmedBy[i] # None => wireConfirmedBy[i] # None

\* Events with a break have been received.
BreaksOfEvents == \A e \in breaks : event[e] # Unseen

IInv ==
  /\ TypeOK
  /\ InstructionRows
  /\ TransitionRows
  /\ Confirmations
  /\ BreaksOfEvents
  /\ BalancesMatchJournal
  /\ OrdersMatchConfirmations
  /\ ExceptionsHaveBreaks

-----------------------------------------------------------------------------
(* Sums of amounts *)

\* The units of an instruction are as many as its amount.
LEMMA UnitsOfOne ==
  ASSUME NEW i \in Instructions, amount[i] \in Units
  PROVE  IsFiniteSet(UnitsOf({i})) /\ Cardinality(UnitsOf({i})) = amount[i]
<1> DEFINE n == amount[i]
<1>1. n \in Nat /\ n <= MaxUnits
  BY MaxUnitsNat DEF Units
<1>0. UnitsOf({i}) = {i} \X (1 .. n)
  BY <1>1, MaxUnitsNat DEF UnitsOf, Amounts
<1>2. IsFiniteSet({i}) /\ Cardinality({i}) = 1
  BY FS_Singleton
<1>3. IsFiniteSet(1 .. n) /\ Cardinality(1 .. n) = n
  <2> HIDE DEF n
  <2>1. 1 \in Int /\ n \in Int /\ (1 > n => n = 0)
    BY <1>1
  <2> QED BY <2>1, <1>1, FS_Interval
<1>4. IsFiniteSet({i} \X (1 .. n)) /\ Cardinality({i} \X (1 .. n)) = Cardinality({i}) * Cardinality(1 .. n)
  BY <1>2, <1>3, FS_Product
<1>5. Cardinality({i}) * Cardinality(1 .. n) = n
  BY <1>1, <1>2, <1>3
<1> QED BY <1>0, <1>4, <1>5

\* Every sum is a natural number.
LEMMA UnitsFinite ==
  ASSUME NEW S \in SUBSET Instructions
  PROVE  IsFiniteSet(UnitsOf(S)) /\ Cardinality(UnitsOf(S)) \in Nat
<1>1. IsFiniteSet(Instructions \X Amounts)
  <2>1. IsFiniteSet(Amounts)
    BY MaxUnitsNat, FS_Interval DEF Amounts
  <2> QED BY <2>1, InstructionsFinite, FS_Product
<1>2. UnitsOf(S) \subseteq Instructions \X Amounts
  BY DEF UnitsOf
<1> QED BY <1>1, <1>2, FS_Subset, FS_CardinalityType

\* Adding an instruction to a set adds its amount to the sum.
LEMMA UnitsOfMore ==
  ASSUME NEW S \in SUBSET Instructions, NEW i \in Instructions \ S, amount[i] \in Units
  PROVE  Cardinality(UnitsOf(S \cup {i})) = Cardinality(UnitsOf(S)) + amount[i]
<1>1. UnitsOf(S \cup {i}) = UnitsOf(S) \cup UnitsOf({i})
  BY DEF UnitsOf
<1>2. UnitsOf(S) \cap UnitsOf({i}) = {}
  BY DEF UnitsOf
<1>3. /\ IsFiniteSet(UnitsOf(S)) /\ Cardinality(UnitsOf(S)) \in Nat
      /\ IsFiniteSet(UnitsOf({i})) /\ Cardinality(UnitsOf({i})) = amount[i]
  BY UnitsFinite, UnitsOfOne
<1>4. Cardinality(UnitsOf(S) \cup UnitsOf({i})) =
        Cardinality(UnitsOf(S)) + Cardinality(UnitsOf({i})) - Cardinality(UnitsOf(S) \cap UnitsOf({i}))
  BY <1>3, FS_Union
<1>5. Cardinality(UnitsOf(S) \cap UnitsOf({i})) = 0
  BY <1>2, FS_EmptySet
<1>6. amount[i] \in Nat
  BY MaxUnitsNat DEF Units
<1>7. Cardinality(UnitsOf(S) \cup UnitsOf({i})) = Cardinality(UnitsOf(S)) + amount[i]
  BY <1>3, <1>4, <1>5, <1>6
<1> QED BY <1>1, <1>7

\* What the events that confirmed an instruction are.
LEMMA ConfirmingEvents ==
  ASSUME Confirmations, NEW j \in Instructions
  PROVE  /\ wireConfirmedBy[j] # None =>
              /\ [stage |-> "fiat_settled", of |-> j, by |-> wireConfirmedBy[j]] \in journal
              /\ event[wireConfirmedBy[j]].status = "processed"
              /\ event[wireConfirmedBy[j]].kind = "wire"
              /\ event[wireConfirmedBy[j]].of = j
         /\ usdcConfirmedBy[j] # None =>
              /\ [stage |-> "posted", of |-> j, by |-> usdcConfirmedBy[j]] \in journal
              /\ event[usdcConfirmedBy[j]].status = "processed"
              /\ event[usdcConfirmedBy[j]].kind = "usdc"
              /\ event[usdcConfirmedBy[j]].of = j
              /\ wireConfirmedBy[j] # None
BY DEF Confirmations, StageByEvent

\* What the journal's entries are.
LEMMA JournalEntries ==
  ASSUME TypeOK, Confirmations, NEW x \in journal
  PROVE  /\ x.of \in Instructions /\ x.by \in Events /\ x.by # None
         /\ x.stage \in {"fiat_settled", "posted"}
         /\ x.stage = "fiat_settled" => wireConfirmedBy[x.of] = x.by
         /\ x.stage = "posted" => usdcConfirmedBy[x.of] = x.by
<1>1. x.of \in Instructions /\ x.by \in Events /\ x.stage \in {"fiat_settled", "posted"}
  BY DEF TypeOK
<1>2. ASSUME x.stage = "fiat_settled" PROVE wireConfirmedBy[x.of] = x.by
  <2>1. \A j \in Instructions : \A y \in journal :
          y.stage = "fiat_settled" /\ y.of = j => wireConfirmedBy[j] = y.by
    BY Zenon DEF Confirmations, StageByEvent
  <2> QED BY <1>1, <1>2, <2>1, Zenon
<1>3. ASSUME x.stage = "posted" PROVE usdcConfirmedBy[x.of] = x.by
  <2>1. \A j \in Instructions : \A y \in journal :
          y.stage = "posted" /\ y.of = j => usdcConfirmedBy[j] = y.by
    BY Zenon DEF Confirmations, StageByEvent
  <2> QED BY <1>1, <1>3, <2>1, Zenon
<1> QED BY <1>1, <1>2, <1>3, NoneIsNoEvent

\* An event that has not been processed has confirmed nothing.
LEMMA ConfirmsNothing ==
  ASSUME Confirmations, NEW e \in Events, event[e].status # "processed", NEW j \in Instructions
  PROVE  wireConfirmedBy[j] # e /\ usdcConfirmedBy[j] # e
<1>1. wireConfirmedBy[j] # None => event[wireConfirmedBy[j]].status = "processed"
  BY ConfirmingEvents
<1>2. usdcConfirmedBy[j] # None => event[usdcConfirmedBy[j]].status = "processed"
  BY ConfirmingEvents
<1> QED BY <1>1, <1>2, NoneIsNoEvent

\* The instructions of a stage are those that name an event for it.
LEMMA PostedIsConfirmed ==
  ASSUME TypeOK, Confirmations
  PROVE  /\ Posted("fiat_settled") = {j \in Instructions : wireConfirmedBy[j] # None}
         /\ Posted("posted") = {j \in Instructions : usdcConfirmedBy[j] # None}
<1>1. ASSUME NEW j \in Instructions
      PROVE  /\ wireConfirmedBy[j] # None <=> \E x \in journal : x.stage = "fiat_settled" /\ x.of = j
             /\ usdcConfirmedBy[j] # None <=> \E x \in journal : x.stage = "posted" /\ x.of = j
  <2>1. wireConfirmedBy[j] # None => \E x \in journal : x.stage = "fiat_settled" /\ x.of = j
    BY ConfirmingEvents
  <2>2. usdcConfirmedBy[j] # None => \E x \in journal : x.stage = "posted" /\ x.of = j
    BY ConfirmingEvents
  <2> QED BY <2>1, <2>2, JournalEntries
<1> QED BY <1>1 DEF Posted

\* The balances match the journal as long as neither changes, nor the amounts
\* and destinations of the instructions in it.
LEMMA BalancesKept ==
  ASSUME BalancesMatchJournal, UNCHANGED ledgerVars,
         \A i \in Posted("fiat_settled") \cup Posted("posted") :
           destination'[i] = destination[i] /\ amount'[i] = amount[i]
  PROVE  BalancesMatchJournal'
<1>1. Posted("fiat_settled")' = Posted("fiat_settled") /\ Posted("posted")' = Posted("posted")
  BY DEF Posted, ledgerVars
<1>2. ASSUME NEW a \in Accounts
      PROVE  /\ UnitsOf(To(a) \cap Posted("posted"))' = UnitsOf(To(a) \cap Posted("posted"))
             /\ UnitsOf(To(a) \cap (Posted("fiat_settled") \ Posted("posted")))' =
                  UnitsOf(To(a) \cap (Posted("fiat_settled") \ Posted("posted")))
  <2>1. ASSUME NEW S \in SUBSET (Posted("fiat_settled") \cup Posted("posted"))
        PROVE  {u \in (To(a)' \cap S) \X Amounts : u[2] <= amount'[u[1]]} =
                 {u \in (To(a) \cap S) \X Amounts : u[2] <= amount[u[1]]}
    BY DEF To
  <2> QED BY <1>1, <2>1 DEF UnitsOf
<1> QED BY <1>2 DEF BalancesMatchJournal, ledgerVars

-----------------------------------------------------------------------------
(* Every step keeps the invariant *)

LEMMA InitEstablishes == Init => IInv
<1> SUFFICES ASSUME Init PROVE IInv
  OBVIOUS
<1>1. TypeOK
  BY MaxUnitsNat DEF Init, TypeOK, InstructionStatus, OrderStatus, Units
<1>2. InstructionRows /\ TransitionRows /\ BreaksOfEvents /\ ExceptionsHaveBreaks
  BY DEF Init, InstructionRows, TransitionRows, BreaksOfEvents, ExceptionsHaveBreaks
<1>3. Confirmations /\ OrdersMatchConfirmations
  BY DEF Init, Confirmations, StageByEvent, OrdersMatchConfirmations
<1>4. BalancesMatchJournal
  <2>1. \A a \in Accounts :
          /\ UnitsOf(To(a) \cap (Posted("fiat_settled") \ Posted("posted"))) = {}
          /\ UnitsOf(To(a) \cap Posted("posted")) = {}
    BY DEF Init, Posted, UnitsOf
  <2>2. Cardinality({}) = 0
    BY FS_EmptySet
  <2> QED BY <2>1, <2>2 DEF Init, BalancesMatchJournal
<1> QED BY <1>1, <1>2, <1>3, <1>4 DEF IInv

\* A new instruction has no history.
LEMMA InsertKeeps ==
  ASSUME IInv, NEW i \in Instructions, NEW a \in Accounts, NEW n \in Amounts,
         CreateByOperator(i, a, n) \/ CreateByClient(i, a, n)
  PROVE  IInv'
<1> USE DEF IInv, CreateByOperator, CreateByClient, InsertInstruction, inboxVars, ledgerVars
<1>1. TypeOK'
  <2>1. n \in Units
    BY MaxUnitsNat DEF Units, Amounts
  <2>2. /\ status' \in [Instructions -> InstructionStatus]
        /\ destination' \in [Instructions -> Accounts \cup {None}]
        /\ amount' \in [Instructions -> Units]
        /\ wireOrder' \in [Instructions -> OrderStatus]
        /\ usdcOrder' \in [Instructions -> OrderStatus]
    BY <2>1 DEF TypeOK, InstructionStatus, OrderStatus
  <2>3. /\ fiatAccountKnown' \in [Instructions -> BOOLEAN]
        /\ usdcAccountKnown' \in [Instructions -> BOOLEAN]
    BY DEF TypeOK
  <2> QED BY <2>2, <2>3 DEF TypeOK
<1>2. InstructionRows' /\ TransitionRows'
  BY DEF TypeOK, InstructionRows, TransitionRows
<1>3. wireConfirmedBy[i] = None /\ usdcConfirmedBy[i] = None
  BY DEF InstructionRows, OrdersMatchConfirmations, Confirmations
<1>4. Confirmations' /\ BreaksOfEvents' /\ ExceptionsHaveBreaks'
  BY DEF TypeOK, Confirmations, StageByEvent, BreaksOfEvents, ExceptionsHaveBreaks
<1>5. OrdersMatchConfirmations'
  BY <1>3 DEF TypeOK, OrdersMatchConfirmations
<1>6. BalancesMatchJournal'
  <2>1. \A j \in Posted("fiat_settled") \cup Posted("posted") :
          destination'[j] = destination[j] /\ amount'[j] = amount[j]
    <3>1. i \notin Posted("fiat_settled") \cup Posted("posted")
      BY <1>3, PostedIsConfirmed
    <3> SUFFICES ASSUME NEW j \in Instructions, j # i
                 PROVE  destination'[j] = destination[j] /\ amount'[j] = amount[j]
      BY <3>1 DEF Posted
    <3> QED BY DEF TypeOK
  <2> QED BY <2>1, BalancesKept
<1> QED BY <1>1, <1>2, <1>4, <1>5, <1>6

\* An operator's connection changes the status of an instruction that exists and
\* what the journal needs of its orders.
LEMMA TransitionKeeps ==
  ASSUME IInv, NEW w \in Operators,
         \/ \E i \in Instructions, action \in {"cancel", "assign-route"} : ReadForTransition(w, i, action)
         \/ WriteCancel(w) \/ WriteRoute(w) \/ AbandonTransition(w)
  PROVE  IInv'
<1> USE DEF IInv
<1>1. CASE \/ \E i \in Instructions, action \in {"cancel", "assign-route"} : ReadForTransition(w, i, action)
           \/ AbandonTransition(w)
  <2> USE <1>1 DEF ReadForTransition, AbandonTransition, instructionVars, orderVars, ledgerVars, inboxVars
  <2>1. TypeOK' /\ TransitionRows'
    BY DEF TypeOK, TransitionRows
  <2>2. InstructionRows' /\ Confirmations' /\ BreaksOfEvents'
    BY DEF InstructionRows, Confirmations, StageByEvent, BreaksOfEvents
  <2>3. OrdersMatchConfirmations' /\ ExceptionsHaveBreaks'
    BY DEF OrdersMatchConfirmations, ExceptionsHaveBreaks
  <2>4. BalancesMatchJournal'
    BY BalancesKept
  <2> QED BY <2>1, <2>2, <2>3, <2>4
<1>2. CASE WriteCancel(w) \/ WriteRoute(w)
  <2> DEFINE i == transition[w].of
  <2>1. i \in Instructions /\ status[i] # "absent"
    BY <1>2 DEF TypeOK, TransitionRows, WriteCancel, WriteRoute, Idle
  <2>2. /\ \E s \in {"cancelled", "route_resolved"} : status' = [status EXCEPT ![i] = s]
        /\ transition' = [transition EXCEPT ![w] = Idle]
        /\ \/ wireOrder' = wireOrder
           \/ wireOrder[i] # "completed" /\ wireOrder' = [wireOrder EXCEPT ![i] = "route_resolved"]
        /\ fiatAccountKnown' \in [Instructions -> BOOLEAN]
        /\ usdcAccountKnown' \in [Instructions -> BOOLEAN]
        /\ UNCHANGED <<destination, amount, pendingUsdc, availableUsdc, wireConfirmedBy, usdcConfirmedBy,
                       usdcOrder, ledgerVars, inboxVars>>
    <3>1. CASE WriteCancel(w)
      BY <3>1 DEF WriteCancel, orderVars, TypeOK
    <3>2. CASE WriteRoute(w)
      BY <2>1, <3>2 DEF WriteRoute, Unrouted, TypeOK
    <3> QED BY <1>2, <3>1, <3>2
  <2> HIDE DEF i
  <2>3. TypeOK'
    <3>1. status' \in [Instructions -> InstructionStatus] /\ wireOrder' \in [Instructions -> OrderStatus]
      BY <2>1, <2>2 DEF TypeOK, InstructionStatus, OrderStatus
    <3>2. transition' \in [Operators -> {Idle} \cup [action : {"cancel", "assign-route"}, of : Instructions]]
      BY <2>2 DEF TypeOK
    <3> QED BY <2>2, <3>1, <3>2 DEF TypeOK, ledgerVars, inboxVars
  <2>4. InstructionRows' /\ TransitionRows'
    BY <2>1, <2>2 DEF TypeOK, InstructionRows, TransitionRows
  <2>5. Confirmations' /\ BreaksOfEvents'
    BY <2>2 DEF Confirmations, StageByEvent, BreaksOfEvents, ledgerVars, inboxVars
  <2>6. OrdersMatchConfirmations'
    BY <2>1, <2>2 DEF TypeOK, OrdersMatchConfirmations
  <2>7. ExceptionsHaveBreaks'
    BY <2>1, <2>2 DEF TypeOK, ExceptionsHaveBreaks, inboxVars
  <2>8. BalancesMatchJournal'
    BY <2>2, BalancesKept
  <2> QED BY <2>3, <2>4, <2>5, <2>6, <2>7, <2>8
<1> QED BY <1>1, <1>2

-----------------------------------------------------------------------------
(* Events *)

\* An event that is received for the first time is none of those that have
\* confirmed a stage or that have a break.
Received(e, i) ==
  /\ event' \in [Events -> {Unseen} \cup [kind : Kinds \cup {"orphan"}, of : Instructions \cup {None},
                                          status : {"processed", "failed"}]]
  /\ breaks' \subseteq Events
  /\ BreaksOfEvents'
  /\ event'[e].of = i
  /\ \A f \in Events : f # e => event'[f] = event[f]
  /\ e \notin breaks
  /\ \A j \in Instructions : wireConfirmedBy[j] # e /\ usdcConfirmedBy[j] # e

LEMMA RecordedEvent ==
  ASSUME IInv, NEW e \in Events, NEW kind \in Kinds \cup {"orphan"}, NEW i \in Instructions \cup {None},
         NEW outcome \in {"processed", "failed"}, Record(e, kind, i, outcome),
         breaks' = breaks \/ breaks' = breaks \cup {e}
  PROVE  Received(e, i)
<1> USE DEF IInv, Record
<1>1. /\ event' \in [Events -> {Unseen} \cup [kind : Kinds \cup {"orphan"}, of : Instructions \cup {None},
                                              status : {"processed", "failed"}]]
      /\ event'[e] = [kind |-> kind, of |-> i, status |-> outcome]
      /\ \A f \in Events : f # e => event'[f] = event[f]
  BY DEF TypeOK
<1>2. event'[e] # Unseen /\ Unseen.status # "processed"
  BY <1>1 DEF Unseen
<1>3. breaks' \subseteq Events /\ BreaksOfEvents' /\ e \notin breaks
  BY <1>1, <1>2 DEF TypeOK, BreaksOfEvents
<1>4. ASSUME NEW j \in Instructions PROVE wireConfirmedBy[j] # e /\ usdcConfirmedBy[j] # e
  BY <1>2, ConfirmsNothing
<1> QED BY <1>1, <1>3, <1>4 DEF Received

\* Confirmed stages stay confirmed by the same events when another is recorded.
LEMMA ConfirmationsKept ==
  ASSUME IInv, NEW e \in Events, UNCHANGED <<wireConfirmedBy, usdcConfirmedBy, journal>>,
         \A f \in Events : f # e => event'[f] = event[f],
         \A j \in Instructions : wireConfirmedBy[j] # e /\ usdcConfirmedBy[j] # e
  PROVE  Confirmations'
<1>1. wireConfirmedBy \in [Instructions -> Events \cup {None}]
      /\ usdcConfirmedBy \in [Instructions -> Events \cup {None}]
  BY DEF IInv, TypeOK
<1>2. StageByEvent("fiat_settled", "wire", wireConfirmedBy)'
  BY <1>1 DEF IInv, Confirmations, StageByEvent
<1>3. StageByEvent("posted", "usdc", usdcConfirmedBy)'
  BY <1>1 DEF IInv, Confirmations, StageByEvent
<1> QED BY <1>2, <1>3 DEF IInv, Confirmations

\* Events that are recorded and change nothing else.
LEMMA RecordKeeps ==
  ASSUME IInv, NEW e \in Events, NEW kind \in Kinds \cup {"orphan"}, NEW i \in Instructions \cup {None},
         NEW outcome \in {"processed", "failed"}, Record(e, kind, i, outcome),
         breaks' = breaks \/ breaks' = breaks \cup {e},
         UNCHANGED <<instructionVars, orderVars, ledgerVars, transition>>
  PROVE  IInv'
<1> USE DEF Received, instructionVars, orderVars, ledgerVars
<1>0. Received(e, i)
  BY RecordedEvent
<1>1. TypeOK' /\ BreaksOfEvents'
  BY <1>0 DEF IInv, TypeOK
<1>2. InstructionRows' /\ TransitionRows' /\ OrdersMatchConfirmations'
  BY DEF IInv, InstructionRows, TransitionRows, OrdersMatchConfirmations
<1>3. Confirmations'
  BY <1>0, ConfirmationsKept
<1>4. ExceptionsHaveBreaks'
  BY <1>0 DEF IInv, TypeOK, ExceptionsHaveBreaks
<1>5. BalancesMatchJournal'
  BY BalancesKept DEF IInv
<1> QED BY <1>1, <1>2, <1>3, <1>4, <1>5 DEF IInv

\* Events that put their instruction into suspense.
LEMMA SuspendKeeps ==
  ASSUME IInv, NEW e \in Events, NEW kind \in Kinds, NEW i \in Instructions,
         status[i] # "absent", ProcessedWithBreak(e, kind, i), Suspend(i),
         \/ usdcOrder' = usdcOrder
         \/ WireCompleted(i) /\ usdcOrder' = [usdcOrder EXCEPT ![i] = "failed"],
         UNCHANGED <<destination, amount, pendingUsdc, availableUsdc, wireConfirmedBy, usdcConfirmedBy,
                     wireOrder, fiatAccountKnown, usdcAccountKnown, ledgerVars, transition>>
  PROVE  IInv'
<1> USE DEF IInv
<1>1. Record(e, kind, i, "processed") /\ breaks' = breaks \cup {e}
  BY DEF ProcessedWithBreak
<1>2. Received(e, i)
  BY <1>1, RecordedEvent
<1> USE DEF Received
<1>3. /\ status' = [status EXCEPT ![i] = "exception_suspense"]
      /\ usdcOrder' \in [Instructions -> OrderStatus]
  BY DEF Suspend, TypeOK, OrderStatus
<1>4. TypeOK'
  <2>1. status' \in [Instructions -> InstructionStatus]
    BY <1>3 DEF TypeOK, InstructionStatus
  <2> QED BY <1>2, <1>3, <2>1 DEF TypeOK, ledgerVars
<1>5. InstructionRows' /\ TransitionRows'
  BY <1>3 DEF TypeOK, InstructionRows, TransitionRows, WireCompleted
<1>6. OrdersMatchConfirmations'
  BY <1>3 DEF TypeOK, OrdersMatchConfirmations, WireCompleted
<1>7. Confirmations'
  BY <1>2, ConfirmationsKept DEF ledgerVars
<1>8. ExceptionsHaveBreaks'
  BY <1>1, <1>2, <1>3 DEF TypeOK, ExceptionsHaveBreaks
<1>9. BalancesMatchJournal'
  BY BalancesKept
<1> QED BY <1>2, <1>4, <1>5, <1>6, <1>7, <1>8, <1>9

\* Marking a failed event as processed.
LEMMA ReprocessKeeps ==
  ASSUME IInv, NEW e \in Events, Reprocess(e)
  PROVE  IInv'
<1> USE DEF IInv, Reprocess, instructionVars, orderVars, ledgerVars
<1>1. /\ event[e] \in [kind : Kinds \cup {"orphan"}, of : Instructions \cup {None},
                       status : {"processed", "failed"}]
      /\ \A j \in Instructions : wireConfirmedBy[j] # e /\ usdcConfirmedBy[j] # e
  <2>1. \A j \in Instructions : wireConfirmedBy[j] # e /\ usdcConfirmedBy[j] # e
    BY ConfirmsNothing
  <2> QED BY <2>1 DEF TypeOK, Unseen
<1>2. /\ event' \in [Events -> {Unseen} \cup [kind : Kinds \cup {"orphan"}, of : Instructions \cup {None},
                                              status : {"processed", "failed"}]]
      /\ event'[e].of = event[e].of
      /\ event'[e].status = "processed"
      /\ \A f \in Events : f # e => event'[f] = event[f]
  BY <1>1 DEF TypeOK
<1>3. TypeOK' /\ BreaksOfEvents'
  BY <1>2 DEF TypeOK, BreaksOfEvents, Unseen
<1>4. InstructionRows' /\ TransitionRows' /\ OrdersMatchConfirmations'
  BY DEF InstructionRows, TransitionRows, OrdersMatchConfirmations
<1>5. Confirmations'
  BY <1>1, <1>2, ConfirmationsKept
<1>6. ExceptionsHaveBreaks'
  BY <1>2 DEF TypeOK, ExceptionsHaveBreaks
<1>7. BalancesMatchJournal'
  BY BalancesKept
<1> QED BY <1>3, <1>4, <1>5, <1>6, <1>7

\* The first stage: the instruction joins those whose amount is pending.
LEMMA ConfirmWireKeeps ==
  ASSUME IInv, NEW e \in Events, NEW i \in Instructions, ConfirmWire(e, i)
  PROVE  IInv'
<1> DEFINE a == destination[i]
           n == amount[i]
<1>1. /\ status[i] # "absent" /\ wireConfirmedBy[i] = None /\ usdcConfirmedBy[i] = None
      /\ a \in Accounts /\ n \in Amounts /\ n \in Units
      /\ wireOrder[i] # "completed" /\ usdcOrder[i] = "blocked_dependency"
      /\ pendingUsdc[i] = 0
  <2>1. status[i] # "absent" /\ wireConfirmedBy[i] = None
    BY DEF ConfirmWire, NotYetSettled
  <2>2. usdcConfirmedBy[i] = None
    BY <2>1, ConfirmingEvents DEF IInv
  <2>3. n \in Units /\ n \in Amounts /\ a \in Accounts
    BY <2>1 DEF IInv, InstructionRows, TypeOK
  <2> QED BY <2>1, <2>2, <2>3 DEF IInv, InstructionRows, OrdersMatchConfirmations
<1>2. /\ Record(e, "wire", i, "processed") /\ breaks' = breaks
      /\ wireOrder' = [wireOrder EXCEPT ![i] = "completed"]
      /\ usdcOrder' = [usdcOrder EXCEPT ![i] = "pending_provider"]
      /\ pendingUsdc' = [pendingUsdc EXCEPT ![i] = n]
      /\ status' = [status EXCEPT ![i] = "pending_usdc_reserved"]
      /\ wireConfirmedBy' = [wireConfirmedBy EXCEPT ![i] = e]
      /\ pending' = [pending EXCEPT ![a] = pending[a] + n]
      /\ journal' = journal \cup {[stage |-> "fiat_settled", of |-> i, by |-> e]}
      /\ UNCHANGED <<destination, amount, availableUsdc, usdcConfirmedBy, fiatAccountKnown,
                     usdcAccountKnown, available, transition>>
  <2>1. 0 + n = n
    BY <1>1, MaxUnitsNat DEF Units
  <2>2. /\ usdcOrder' = [usdcOrder EXCEPT ![i] = "pending_provider"]
        /\ pendingUsdc' = [pendingUsdc EXCEPT ![i] = n]
    BY <1>1, <2>1 DEF ConfirmWire
  <2> QED BY <2>2 DEF ConfirmWire, Processed, WireOrderCompleted
<1>3. Received(e, i) /\ event'[e] = [kind |-> "wire", of |-> i, status |-> "processed"]
  <2>1. Received(e, i)
    BY <1>2, RecordedEvent DEF Kinds
  <2> QED BY <1>2, <2>1 DEF Record, IInv, TypeOK
<1> HIDE DEF a, n
<1>4. TypeOK'
  <2>1. /\ status' \in [Instructions -> InstructionStatus]
        /\ wireOrder' \in [Instructions -> OrderStatus]
        /\ usdcOrder' \in [Instructions -> OrderStatus]
        /\ wireConfirmedBy' \in [Instructions -> Events \cup {None}]
    BY <1>2 DEF IInv, TypeOK, InstructionStatus, OrderStatus
  <2>2. pendingUsdc' \in [Instructions -> Units]
    BY <1>1, <1>2 DEF IInv, TypeOK
  <2>3. pending' \in [Accounts -> Nat]
    BY <1>1, <1>2, MaxUnitsNat DEF IInv, TypeOK, Units
  <2>4. journal' \subseteq [stage : {"fiat_settled", "posted"}, of : Instructions, by : Events]
    BY <1>2 DEF IInv, TypeOK
  <2> QED BY <1>2, <1>3, <2>1, <2>2, <2>3, <2>4 DEF IInv, TypeOK, Received
<1>5. InstructionRows' /\ TransitionRows'
  BY <1>1, <1>2 DEF IInv, TypeOK, InstructionRows, TransitionRows
<1>6. StageByEvent("fiat_settled", "wire", wireConfirmedBy)'
  <2> SUFFICES ASSUME NEW j \in Instructions
               PROVE /\ wireConfirmedBy'[j] # None =>
                          /\ [stage |-> "fiat_settled", of |-> j, by |-> wireConfirmedBy'[j]] \in journal'
                          /\ event'[wireConfirmedBy'[j]].status = "processed"
                          /\ event'[wireConfirmedBy'[j]].kind = "wire"
                          /\ event'[wireConfirmedBy'[j]].of = j
                     /\ \A x \in journal' : x.stage = "fiat_settled" /\ x.of = j => wireConfirmedBy'[j] = x.by
    BY DEF StageByEvent
  <2>1. CASE j = i
    <3>1. \A x \in journal : ~(x.stage = "fiat_settled" /\ x.of = i)
      BY <1>1, JournalEntries DEF IInv
    <3>2. wireConfirmedBy'[i] = e
      BY <1>2 DEF IInv, TypeOK
    <3> QED BY <2>1, <3>1, <3>2, <1>2, <1>3
  <2>2. CASE j # i
    <3>1. wireConfirmedBy'[j] = wireConfirmedBy[j]
      BY <2>2, <1>2 DEF IInv, TypeOK
    <3>2. wireConfirmedBy[j] # None => event'[wireConfirmedBy[j]] = event[wireConfirmedBy[j]]
      BY <1>3 DEF Received, IInv, TypeOK
    <3>3. wireConfirmedBy'[j] # None =>
            /\ [stage |-> "fiat_settled", of |-> j, by |-> wireConfirmedBy'[j]] \in journal'
            /\ event'[wireConfirmedBy'[j]].status = "processed"
            /\ event'[wireConfirmedBy'[j]].kind = "wire"
            /\ event'[wireConfirmedBy'[j]].of = j
      <4>1. wireConfirmedBy[j] # None =>
              /\ [stage |-> "fiat_settled", of |-> j, by |-> wireConfirmedBy[j]] \in journal
              /\ event[wireConfirmedBy[j]].status = "processed"
              /\ event[wireConfirmedBy[j]].kind = "wire"
              /\ event[wireConfirmedBy[j]].of = j
        BY ConfirmingEvents DEF IInv
      <4> QED BY <1>2, <3>1, <3>2, <4>1
    <3>4. ASSUME NEW x \in journal', x.stage = "fiat_settled", x.of = j PROVE wireConfirmedBy'[j] = x.by
      <4>1. x \in journal
        BY <1>2, <2>2, <3>4
      <4> QED BY <3>1, <3>4, <4>1, JournalEntries DEF IInv
    <3> QED BY <3>3, <3>4
  <2> QED BY <2>1, <2>2
<1>7. StageByEvent("posted", "usdc", usdcConfirmedBy)'
  <2> SUFFICES ASSUME NEW j \in Instructions
               PROVE /\ usdcConfirmedBy[j] # None =>
                          /\ [stage |-> "posted", of |-> j, by |-> usdcConfirmedBy[j]] \in journal'
                          /\ event'[usdcConfirmedBy[j]].status = "processed"
                          /\ event'[usdcConfirmedBy[j]].kind = "usdc"
                          /\ event'[usdcConfirmedBy[j]].of = j
                     /\ \A x \in journal' : x.stage = "posted" /\ x.of = j => usdcConfirmedBy[j] = x.by
    BY <1>2 DEF StageByEvent
  <2>1. usdcConfirmedBy[j] # None => event'[usdcConfirmedBy[j]] = event[usdcConfirmedBy[j]]
    BY <1>3 DEF Received, IInv, TypeOK
  <2>2. usdcConfirmedBy[j] # None =>
          /\ [stage |-> "posted", of |-> j, by |-> usdcConfirmedBy[j]] \in journal
          /\ event[usdcConfirmedBy[j]].status = "processed"
          /\ event[usdcConfirmedBy[j]].kind = "usdc"
          /\ event[usdcConfirmedBy[j]].of = j
    BY ConfirmingEvents DEF IInv
  <2>3. ASSUME NEW x \in journal', x.stage = "posted", x.of = j PROVE usdcConfirmedBy[j] = x.by
    <3>1. x \in journal
      BY <1>2, <2>3
    <3> QED BY <2>3, <3>1, JournalEntries DEF IInv
  <2> QED BY <1>2, <2>1, <2>2, <2>3
<1>8. Confirmations'
  <2>1. \A j \in Instructions : usdcConfirmedBy'[j] # None => wireConfirmedBy'[j] # None
    BY <1>1, <1>2, NoneIsNoEvent DEF IInv, TypeOK, Confirmations
  <2> QED BY <1>6, <1>7, <2>1 DEF Confirmations
<1>9. OrdersMatchConfirmations'
  <2> SUFFICES ASSUME NEW j \in Instructions
               PROVE /\ wireOrder'[j] = "completed" <=> wireConfirmedBy'[j] # None
                     /\ usdcOrder'[j] \in {"pending_provider", "completed", "failed"} <=> wireOrder'[j] = "completed"
                     /\ usdcConfirmedBy'[j] # None => usdcConfirmedBy'[j] # wireConfirmedBy'[j]
                     /\ pendingUsdc'[j] = IF wireConfirmedBy'[j] # None /\ usdcConfirmedBy'[j] = None THEN amount'[j] ELSE 0
                     /\ availableUsdc'[j] = IF usdcConfirmedBy'[j] # None THEN amount'[j] ELSE 0
    BY DEF OrdersMatchConfirmations
  <2>1. CASE j = i
    BY <1>1, <1>2, <2>1, NoneIsNoEvent DEF IInv, TypeOK, OrdersMatchConfirmations, n
  <2>2. CASE j # i
    BY <1>2, <2>2 DEF IInv, TypeOK, OrdersMatchConfirmations
  <2> QED BY <2>1, <2>2
<1>10. ExceptionsHaveBreaks'
  BY <1>2, <1>3 DEF IInv, TypeOK, ExceptionsHaveBreaks, Received
<1>11. BalancesMatchJournal'
  <2> DEFINE Waiting(b) == To(b) \cap (Posted("fiat_settled") \ Posted("posted"))
             Delivered(b) == To(b) \cap Posted("posted")
  <2>1. Posted("fiat_settled")' = Posted("fiat_settled") \cup {i} /\ Posted("posted")' = Posted("posted")
    <3> DEFINE x == [stage |-> "fiat_settled", of |-> i, by |-> e]
    <3>1. x.stage = "fiat_settled" /\ x.of = i
      OBVIOUS
    <3> HIDE DEF x
    <3>2. journal' = journal \cup {x}
      BY <1>2 DEF x
    <3> QED BY <3>1, <3>2 DEF Posted
  <2>2. i \notin Posted("fiat_settled") /\ i \notin Posted("posted")
    BY <1>1, PostedIsConfirmed DEF IInv
  <2>3. ASSUME NEW b \in Accounts
        PROVE  Waiting(b)' = (IF b = a THEN Waiting(b) \cup {i} ELSE Waiting(b)) /\ Delivered(b)' = Delivered(b)
    BY <1>2, <2>1, <2>2 DEF To, a
  <2>4. ASSUME NEW S PROVE UnitsOf(S)' = UnitsOf(S)
    BY <1>2 DEF UnitsOf
  <2>5. ASSUME NEW b \in Accounts
        PROVE  /\ pending'[b] = Cardinality(UnitsOf(Waiting(b)'))
               /\ available'[b] = Cardinality(UnitsOf(Delivered(b)'))
    <3>1. pending[b] = Cardinality(UnitsOf(Waiting(b))) /\ available[b] = Cardinality(UnitsOf(Delivered(b)))
      BY DEF IInv, BalancesMatchJournal
    <3>2. CASE b = a
      <4>1. Waiting(b) \in SUBSET Instructions /\ i \in Instructions \ Waiting(b)
        BY <2>2 DEF To
      <4>2. Cardinality(UnitsOf(Waiting(b) \cup {i})) = Cardinality(UnitsOf(Waiting(b))) + n
        BY <1>1, <4>1, UnitsOfMore DEF n
      <4> QED BY <1>2, <2>3, <3>1, <3>2, <4>2 DEF IInv, TypeOK
    <3>3. CASE b # a
      BY <1>1, <1>2, <2>3, <3>1, <3>3 DEF IInv, TypeOK
    <3> QED BY <3>2, <3>3
  <2> QED BY <1>2, <2>4, <2>5 DEF BalancesMatchJournal, UnitsOf
<1> QED BY <1>3, <1>4, <1>5, <1>8, <1>9, <1>10, <1>11 DEF IInv, Received

\* The second stage: the amount goes from pending to available.  The wire has
\* been settled and what is pending includes it, so no clamp takes effect.
LEMMA BeforeConfirmUsdc ==
  ASSUME IInv, NEW e \in Events, NEW i \in Instructions, ConfirmUsdc(e, i)
  PROVE  /\ status[i] # "absent" /\ wireConfirmedBy[i] # None /\ usdcConfirmedBy[i] = None
         /\ destination[i] \in Accounts /\ amount[i] \in Amounts /\ amount[i] \in Units
         /\ wireOrder[i] = "completed" /\ pendingUsdc[i] = amount[i] /\ availableUsdc[i] = 0
         /\ i \in Posted("fiat_settled") /\ i \notin Posted("posted")
         /\ pending[destination[i]] =
              Cardinality(UnitsOf((To(destination[i]) \cap (Posted("fiat_settled") \ Posted("posted"))) \ {i}))
                + amount[i]
<1>1. status[i] # "absent" /\ wireOrder[i] = "completed" /\ usdcConfirmedBy[i] = None
  BY DEF ConfirmUsdc, NotYetDelivered, WireCompleted
<1>2. amount[i] \in Units /\ amount[i] \in Amounts /\ destination[i] \in Accounts
  BY <1>1 DEF IInv, TypeOK, InstructionRows
<1>3. wireConfirmedBy[i] # None /\ pendingUsdc[i] = amount[i] /\ availableUsdc[i] = 0
  BY <1>1 DEF IInv, OrdersMatchConfirmations
<1>4. i \in Posted("fiat_settled") /\ i \notin Posted("posted")
  BY <1>1, <1>3, PostedIsConfirmed DEF IInv
<1>5. pending[destination[i]] =
        Cardinality(UnitsOf((To(destination[i]) \cap (Posted("fiat_settled") \ Posted("posted"))) \ {i}))
          + amount[i]
  <2> DEFINE S == To(destination[i]) \cap (Posted("fiat_settled") \ Posted("posted"))
  <2>1. pending[destination[i]] = Cardinality(UnitsOf(S))
    BY <1>2 DEF IInv, BalancesMatchJournal
  <2>2. (S \ {i}) \cup {i} = S /\ S \ {i} \in SUBSET Instructions /\ i \in Instructions \ (S \ {i})
    BY <1>4 DEF To
  <2> HIDE DEF S
  <2>3. Cardinality(UnitsOf((S \ {i}) \cup {i})) = Cardinality(UnitsOf(S \ {i})) + amount[i]
    BY <1>2, <2>2, UnitsOfMore
  <2> QED BY <2>1, <2>2, <2>3 DEF S
<1> QED BY <1>1, <1>2, <1>3, <1>4, <1>5

LEMMA ConfirmUsdcKeeps ==
  ASSUME IInv, NEW e \in Events, NEW i \in Instructions, ConfirmUsdc(e, i)
  PROVE  IInv'
<1> DEFINE a == destination[i]
           n == amount[i]
           Waiting(b) == To(b) \cap (Posted("fiat_settled") \ Posted("posted"))
           Delivered(b) == To(b) \cap Posted("posted")
           rest == Cardinality(UnitsOf(Waiting(a) \ {i}))
<1>1. /\ status[i] # "absent" /\ wireConfirmedBy[i] # None /\ usdcConfirmedBy[i] = None
      /\ a \in Accounts /\ n \in Amounts /\ n \in Units
      /\ wireOrder[i] = "completed" /\ pendingUsdc[i] = n /\ availableUsdc[i] = 0
      /\ i \in Posted("fiat_settled") /\ i \notin Posted("posted")
      /\ pending[a] = rest + n
  BY BeforeConfirmUsdc
<1>2. rest \in Nat /\ n \in Nat
  BY <1>1, UnitsFinite, MaxUnitsNat DEF To, Units
<1> HIDE DEF a, n, rest
<1>3. /\ Record(e, "usdc", i, "processed") /\ breaks' = breaks
      /\ usdcOrder' = [usdcOrder EXCEPT ![i] = "completed"]
      /\ pendingUsdc' = [pendingUsdc EXCEPT ![i] = 0]
      /\ availableUsdc' = [availableUsdc EXCEPT ![i] = n]
      /\ status' = [status EXCEPT ![i] = "posted_available"]
      /\ usdcConfirmedBy' = [usdcConfirmedBy EXCEPT ![i] = e]
      /\ pending' = [pending EXCEPT ![a] = rest]
      /\ available' = [available EXCEPT ![a] = available[a] + n]
      /\ journal' = journal \cup {[stage |-> "posted", of |-> i, by |-> e]}
      /\ UNCHANGED <<destination, amount, wireConfirmedBy, wireOrder, fiatAccountKnown,
                     usdcAccountKnown, transition>>
  <2>1. /\ Drain(pendingUsdc[i], n) = 0
        /\ Drain(pending[a], n) = rest
        /\ availableUsdc[i] + n = n
    BY <1>1, <1>2 DEF Drain
  <2>2. /\ pendingUsdc' = [pendingUsdc EXCEPT ![i] = Drain(pendingUsdc[i], n)]
        /\ availableUsdc' = [availableUsdc EXCEPT ![i] = availableUsdc[i] + n]
        /\ pending' = [pending EXCEPT ![a] = Drain(pending[a], n)]
        /\ available' = [available EXCEPT ![a] = available[a] + n]
    BY DEF ConfirmUsdc, a, n
  <2> QED BY <2>1, <2>2 DEF ConfirmUsdc, Processed
<1>4. Received(e, i) /\ event'[e] = [kind |-> "usdc", of |-> i, status |-> "processed"]
  <2>1. Received(e, i)
    BY <1>3, RecordedEvent DEF Kinds
  <2> QED BY <1>3, <2>1 DEF Record, IInv, TypeOK
<1>5. TypeOK'
  <2>1. /\ status' \in [Instructions -> InstructionStatus]
        /\ usdcOrder' \in [Instructions -> OrderStatus]
        /\ usdcConfirmedBy' \in [Instructions -> Events \cup {None}]
    BY <1>3 DEF IInv, TypeOK, InstructionStatus, OrderStatus
  <2>2. pendingUsdc' \in [Instructions -> Units] /\ availableUsdc' \in [Instructions -> Units]
    BY <1>1, <1>3, MaxUnitsNat DEF IInv, TypeOK, Units
  <2>3. pending' \in [Accounts -> Nat] /\ available' \in [Accounts -> Nat]
    BY <1>1, <1>2, <1>3 DEF IInv, TypeOK
  <2>4. journal' \subseteq [stage : {"fiat_settled", "posted"}, of : Instructions, by : Events]
    BY <1>3 DEF IInv, TypeOK
  <2> QED BY <1>3, <1>4, <2>1, <2>2, <2>3, <2>4 DEF IInv, TypeOK, Received
<1>6. InstructionRows' /\ TransitionRows'
  BY <1>1, <1>3 DEF IInv, TypeOK, InstructionRows, TransitionRows
<1>7. StageByEvent("posted", "usdc", usdcConfirmedBy)'
  <2> SUFFICES ASSUME NEW j \in Instructions
               PROVE /\ usdcConfirmedBy'[j] # None =>
                          /\ [stage |-> "posted", of |-> j, by |-> usdcConfirmedBy'[j]] \in journal'
                          /\ event'[usdcConfirmedBy'[j]].status = "processed"
                          /\ event'[usdcConfirmedBy'[j]].kind = "usdc"
                          /\ event'[usdcConfirmedBy'[j]].of = j
                     /\ \A x \in journal' : x.stage = "posted" /\ x.of = j => usdcConfirmedBy'[j] = x.by
    BY DEF StageByEvent
  <2>1. CASE j = i
    <3>1. \A x \in journal : ~(x.stage = "posted" /\ x.of = i)
      BY <1>1, JournalEntries DEF IInv
    <3>2. usdcConfirmedBy'[i] = e
      BY <1>3 DEF IInv, TypeOK
    <3> QED BY <2>1, <3>1, <3>2, <1>3, <1>4
  <2>2. CASE j # i
    <3>1. usdcConfirmedBy'[j] = usdcConfirmedBy[j]
      BY <2>2, <1>3 DEF IInv, TypeOK
    <3>2. usdcConfirmedBy[j] # None => event'[usdcConfirmedBy[j]] = event[usdcConfirmedBy[j]]
      BY <1>4 DEF Received, IInv, TypeOK
    <3>3. usdcConfirmedBy'[j] # None =>
            /\ [stage |-> "posted", of |-> j, by |-> usdcConfirmedBy'[j]] \in journal'
            /\ event'[usdcConfirmedBy'[j]].status = "processed"
            /\ event'[usdcConfirmedBy'[j]].kind = "usdc"
            /\ event'[usdcConfirmedBy'[j]].of = j
      <4>1. usdcConfirmedBy[j] # None =>
              /\ [stage |-> "posted", of |-> j, by |-> usdcConfirmedBy[j]] \in journal
              /\ event[usdcConfirmedBy[j]].status = "processed"
              /\ event[usdcConfirmedBy[j]].kind = "usdc"
              /\ event[usdcConfirmedBy[j]].of = j
        BY ConfirmingEvents DEF IInv
      <4> QED BY <1>3, <3>1, <3>2, <4>1
    <3>4. ASSUME NEW x \in journal', x.stage = "posted", x.of = j PROVE usdcConfirmedBy'[j] = x.by
      <4>1. x \in journal
        BY <1>3, <2>2, <3>4
      <4> QED BY <3>1, <3>4, <4>1, JournalEntries DEF IInv
    <3> QED BY <3>3, <3>4
  <2> QED BY <2>1, <2>2
<1>8. StageByEvent("fiat_settled", "wire", wireConfirmedBy)'
  <2> SUFFICES ASSUME NEW j \in Instructions
               PROVE /\ wireConfirmedBy[j] # None =>
                          /\ [stage |-> "fiat_settled", of |-> j, by |-> wireConfirmedBy[j]] \in journal'
                          /\ event'[wireConfirmedBy[j]].status = "processed"
                          /\ event'[wireConfirmedBy[j]].kind = "wire"
                          /\ event'[wireConfirmedBy[j]].of = j
                     /\ \A x \in journal' : x.stage = "fiat_settled" /\ x.of = j => wireConfirmedBy[j] = x.by
    BY <1>3 DEF StageByEvent
  <2>1. wireConfirmedBy[j] # None => event'[wireConfirmedBy[j]] = event[wireConfirmedBy[j]]
    BY <1>4 DEF Received, IInv, TypeOK
  <2>2. wireConfirmedBy[j] # None =>
          /\ [stage |-> "fiat_settled", of |-> j, by |-> wireConfirmedBy[j]] \in journal
          /\ event[wireConfirmedBy[j]].status = "processed"
          /\ event[wireConfirmedBy[j]].kind = "wire"
          /\ event[wireConfirmedBy[j]].of = j
    BY ConfirmingEvents DEF IInv
  <2>3. ASSUME NEW x \in journal', x.stage = "fiat_settled", x.of = j PROVE wireConfirmedBy[j] = x.by
    <3>1. x \in journal
      BY <1>3, <2>3
    <3> QED BY <2>3, <3>1, JournalEntries DEF IInv
  <2> QED BY <1>3, <2>1, <2>2, <2>3
<1>9. Confirmations'
  <2>1. \A j \in Instructions : usdcConfirmedBy'[j] # None => wireConfirmedBy'[j] # None
    BY <1>1, <1>3 DEF IInv, TypeOK, Confirmations
  <2> QED BY <1>7, <1>8, <2>1 DEF Confirmations
<1>10. OrdersMatchConfirmations'
  <2> SUFFICES ASSUME NEW j \in Instructions
               PROVE /\ wireOrder'[j] = "completed" <=> wireConfirmedBy'[j] # None
                     /\ usdcOrder'[j] \in {"pending_provider", "completed", "failed"} <=> wireOrder'[j] = "completed"
                     /\ usdcConfirmedBy'[j] # None => usdcConfirmedBy'[j] # wireConfirmedBy'[j]
                     /\ pendingUsdc'[j] = IF wireConfirmedBy'[j] # None /\ usdcConfirmedBy'[j] = None THEN amount'[j] ELSE 0
                     /\ availableUsdc'[j] = IF usdcConfirmedBy'[j] # None THEN amount'[j] ELSE 0
    BY DEF OrdersMatchConfirmations
  <2>1. CASE j = i
    <3>1. wireConfirmedBy[i] # e
      BY <1>4 DEF Received
    <3> QED BY <1>1, <1>3, <2>1, <3>1, NoneIsNoEvent DEF IInv, TypeOK, OrdersMatchConfirmations, n
  <2>2. CASE j # i
    BY <1>3, <2>2 DEF IInv, TypeOK, OrdersMatchConfirmations
  <2> QED BY <2>1, <2>2
<1>11. ExceptionsHaveBreaks'
  BY <1>3, <1>4 DEF IInv, TypeOK, ExceptionsHaveBreaks, Received
<1>12. BalancesMatchJournal'
  <2>1. Posted("posted")' = Posted("posted") \cup {i} /\ Posted("fiat_settled")' = Posted("fiat_settled")
    <3> DEFINE x == [stage |-> "posted", of |-> i, by |-> e]
    <3>1. x.stage = "posted" /\ x.of = i
      OBVIOUS
    <3> HIDE DEF x
    <3>2. journal' = journal \cup {x}
      BY <1>3 DEF x
    <3> QED BY <3>1, <3>2 DEF Posted
  <2>2. ASSUME NEW b \in Accounts
        PROVE  /\ Waiting(b)' = (IF b = a THEN Waiting(b) \ {i} ELSE Waiting(b))
               /\ Delivered(b)' = (IF b = a THEN Delivered(b) \cup {i} ELSE Delivered(b))
    BY <1>1, <1>3, <2>1 DEF To, a
  <2>3. ASSUME NEW b \in Accounts
        PROVE  /\ pending'[b] = Cardinality(UnitsOf(Waiting(b)'))
               /\ available'[b] = Cardinality(UnitsOf(Delivered(b)'))
    <3>1. pending[b] = Cardinality(UnitsOf(Waiting(b))) /\ available[b] = Cardinality(UnitsOf(Delivered(b)))
      BY DEF IInv, BalancesMatchJournal
    <3>2. CASE b = a
      <4>1. Delivered(b) \in SUBSET Instructions /\ i \in Instructions \ Delivered(b)
        BY <1>1 DEF To
      <4>2. Cardinality(UnitsOf(Delivered(b) \cup {i})) = Cardinality(UnitsOf(Delivered(b))) + n
        BY <1>1, <4>1, UnitsOfMore DEF n
      <4>3. pending'[b] = rest /\ available'[b] = available[b] + n
        BY <1>3, <3>2 DEF IInv, TypeOK
      <4> QED BY <2>2, <3>1, <3>2, <4>2, <4>3 DEF rest
    <3>3. CASE b # a
      BY <1>1, <1>3, <2>2, <3>1, <3>3 DEF IInv, TypeOK
    <3> QED BY <3>2, <3>3
  <2> QED BY <1>3, <2>3 DEF BalancesMatchJournal, UnitsOf
<1> QED BY <1>4, <1>5, <1>6, <1>9, <1>10, <1>11, <1>12 DEF IInv, Received

-----------------------------------------------------------------------------
(* The theorems *)

LEMMA NextKeeps == IInv /\ [Next]_vars => IInv'
<1> SUFFICES ASSUME IInv, [Next]_vars PROVE IInv'
  OBVIOUS
<1>1. ASSUME NEW i \in Instructions, NEW a \in Accounts, NEW n \in Amounts,
             CreateByOperator(i, a, n) \/ CreateByClient(i, a, n)
      PROVE  IInv'
  BY <1>1, InsertKeeps
<1>2. ASSUME NEW w \in Operators,
             \/ \E i \in Instructions, action \in {"cancel", "assign-route"} : ReadForTransition(w, i, action)
             \/ WriteCancel(w) \/ WriteRoute(w) \/ AbandonTransition(w)
      PROVE  IInv'
  BY <1>2, TransitionKeeps
<1>3. ASSUME NEW e \in Events, NEW i \in Instructions, NEW kind \in Kinds,
             MismatchedConfirmation(e, i, kind)
      PROVE  IInv'
  BY <1>3, SuspendKeeps DEF MismatchedConfirmation, orderVars
<1>4. ASSUME NEW e \in Events, NEW i \in Instructions, ProviderFailure(e, i)
      PROVE  IInv'
  <2>1. usdcOrder' = usdcOrder \/ (WireCompleted(i) /\ usdcOrder' = [usdcOrder EXCEPT ![i] = "failed"])
    BY <1>4 DEF ProviderFailure, IInv, TypeOK
  <2> QED BY <1>4, <2>1, SuspendKeeps DEF ProviderFailure, Kinds
<1>5. ASSUME NEW e \in Events, NEW i \in Instructions, ConfirmUsdcTooEarly(e, i)
      PROVE  IInv'
  BY <1>5, SuspendKeeps DEF ConfirmUsdcTooEarly, Kinds, orderVars
<1>6. ASSUME NEW e \in Events, NEW i \in Instructions, NEW kind \in Kinds,
             AlreadyConfirmed(e, i, kind) \/ ProcessingFails(e, i, kind)
      PROVE  IInv'
  <2>1. kind \in Kinds \cup {"orphan"} /\ i \in Instructions \cup {None}
    OBVIOUS
  <2>2. CASE AlreadyConfirmed(e, i, kind)
    BY <2>1, <2>2, RecordKeeps DEF AlreadyConfirmed, Processed
  <2>3. CASE ProcessingFails(e, i, kind)
    BY <2>1, <2>3, RecordKeeps DEF ProcessingFails
  <2> QED BY <1>6, <2>2, <2>3
<1>7. ASSUME NEW e \in Events, NEW i \in Instructions, ConfirmWire(e, i) \/ ConfirmUsdc(e, i)
      PROVE  IInv'
  BY <1>7, ConfirmWireKeeps, ConfirmUsdcKeeps
<1>8. ASSUME NEW e \in Events, Orphan(e) \/ Reprocess(e)
      PROVE  IInv'
  <2>1. CASE Orphan(e)
    BY <2>1, RecordKeeps DEF Orphan, Processed, ProcessedWithBreak
  <2> QED BY <1>8, <2>1, ReprocessKeeps
<1>9. CASE UNCHANGED vars
  <2> USE <1>9 DEF vars, instructionVars, orderVars, ledgerVars, inboxVars
  <2>1. TypeOK' /\ InstructionRows' /\ TransitionRows' /\ BreaksOfEvents'
    BY DEF IInv, TypeOK, InstructionRows, TransitionRows, BreaksOfEvents
  <2>2. Confirmations' /\ OrdersMatchConfirmations' /\ ExceptionsHaveBreaks'
    BY DEF IInv, Confirmations, StageByEvent, OrdersMatchConfirmations, ExceptionsHaveBreaks
  <2>3. BalancesMatchJournal'
    BY BalancesKept DEF IInv
  <2> QED BY <2>1, <2>2, <2>3 DEF IInv
<1> QED BY <1>1, <1>2, <1>3, <1>4, <1>5, <1>6, <1>7, <1>8, <1>9 DEF Next

\* Every reachable state satisfies the invariant.
LEMMA Invariant == Spec => []IInv
<1> QED BY InitEstablishes, NextKeeps, PTL DEF Spec

\* Every column keeps its type.
THEOREM TypeCorrect == Spec => []TypeOK
<1>1. IInv => TypeOK
  BY DEF IInv
<1> QED BY <1>1, Invariant, PTL

\* Each stage of an instruction is posted to the journal once, the second after
\* the first (processFundingInstructionWebhookEvent).
THEOREM PostedOncePerStageAlways == Spec => []PostedOncePerStage
<1>1. IInv => PostedOncePerStage
  <2> SUFFICES ASSUME IInv PROVE PostedOncePerStage
    OBVIOUS
  <2>1. ASSUME NEW x \in journal, NEW y \in journal, x.stage = y.stage, x.of = y.of
        PROVE  x = y
    <3>1. x.by = y.by
      BY <2>1, JournalEntries DEF IInv
    <3> QED BY <2>1, <3>1 DEF IInv, TypeOK
  <2>2. Posted("posted") \subseteq Posted("fiat_settled")
    BY PostedIsConfirmed DEF IInv, Confirmations
  <2> QED BY <2>1, <2>2 DEF PostedOncePerStage
<1> QED BY <1>1, Invariant, PTL

\* Journal, balance, orders, instruction and breaks tell one story, however
\* events are duplicated, reordered, mismatched or fail, and whatever operators
\* write over the status between an event and their read.
THEOREM RecordsAgreeAlways == Spec => []RecordsAgree
<1>1. IInv => RecordsAgree
  BY DEF IInv, RecordsAgree
<1> QED BY <1>1, Invariant, PTL

-----------------------------------------------------------------------------
(* The refinement of TwoStageSettlement *)

Settled == {<<i, destination[i], amount[i]>> : i \in {j \in Instructions : wireConfirmedBy[j] # None}}
Delivered == {i \in Instructions : usdcConfirmedBy[i] # None}

\* A step that confirms no stage is a stutter of the promise.
LEMMA OthersStutter ==
  ASSUME IInv, UNCHANGED <<pending, available, wireConfirmedBy, usdcConfirmedBy>>,
         \A i \in Instructions : status[i] # "absent" => destination'[i] = destination[i] /\ amount'[i] = amount[i]
  PROVE  UNCHANGED Promise!vars
<1>1. \A i \in Instructions : wireConfirmedBy[i] # None => status[i] # "absent"
  BY DEF IInv, InstructionRows, OrdersMatchConfirmations
<1>2. Settled' = Settled /\ Delivered' = Delivered
  BY <1>1 DEF Settled, Delivered
<1> QED BY <1>2 DEF Promise!vars, Settled, Delivered

\* A wire confirmation settles an instruction that has not been settled.
LEMMA ConfirmWireSettles ==
  ASSUME IInv, NEW e \in Events, NEW i \in Instructions, ConfirmWire(e, i),
         NEW a, a = destination[i], NEW n, n = amount[i]
  PROVE  Promise!SettleFiat(i, a, n)
<1>1. wireConfirmedBy[i] = None
  BY DEF ConfirmWire, NotYetSettled
<1>2. /\ wireConfirmedBy' = [wireConfirmedBy EXCEPT ![i] = e]
      /\ pending' = [pending EXCEPT ![destination[i]] = @ + amount[i]]
      /\ UNCHANGED <<destination, amount, usdcConfirmedBy, available>>
  BY DEF ConfirmWire
<1>3. \A x \in Settled : x[1] # i
  BY <1>1 DEF Settled
<1>4. Settled' = Settled \cup {<<i, destination[i], amount[i]>>}
  <2>1. \A j \in Instructions : wireConfirmedBy'[j] # None <=> wireConfirmedBy[j] # None \/ j = i
    BY <1>2, NoneIsNoEvent DEF IInv, TypeOK
  <2> QED BY <1>2, <2>1 DEF Settled
<1> QED BY <1>2, <1>3, <1>4 DEF Promise!SettleFiat, Settled

\* A USDC confirmation delivers what was settled, to the same account.
LEMMA ConfirmUsdcDelivers ==
  ASSUME IInv, NEW e \in Events, NEW i \in Instructions, ConfirmUsdc(e, i),
         NEW a, a = destination[i], NEW n, n = amount[i]
  PROVE  Promise!DeliverUsdc(i, a, n)
<1> DEFINE rest == Cardinality(UnitsOf((To(destination[i]) \cap (Posted("fiat_settled") \ Posted("posted"))) \ {i}))
<1>1. /\ wireConfirmedBy[i] # None /\ usdcConfirmedBy[i] = None
      /\ pending[destination[i]] = rest + amount[i]
      /\ amount[i] \in Units
  BY BeforeConfirmUsdc
<1>2. rest \in Nat /\ amount[i] \in Nat
  BY <1>1, UnitsFinite, MaxUnitsNat DEF To, Units
<1> HIDE DEF rest
<1>3. Drain(pending[destination[i]], amount[i]) = pending[destination[i]] - amount[i]
  BY <1>1, <1>2 DEF Drain
<1>4. /\ usdcConfirmedBy' = [usdcConfirmedBy EXCEPT ![i] = e]
      /\ pending' = [pending EXCEPT ![destination[i]] = Drain(pending[destination[i]], amount[i])]
      /\ available' = [available EXCEPT ![destination[i]] = available[destination[i]] + amount[i]]
      /\ UNCHANGED <<destination, amount, wireConfirmedBy>>
  BY DEF ConfirmUsdc
<1>5. <<i, destination[i], amount[i]>> \in Settled /\ i \notin Delivered /\ Settled' = Settled
  BY <1>1, <1>4 DEF Settled, Delivered
<1>6. Delivered' = Delivered \cup {i}
  BY <1>4, NoneIsNoEvent DEF IInv, TypeOK, Delivered
<1> QED BY <1>3, <1>4, <1>5, <1>6 DEF Promise!DeliverUsdc, Settled, Delivered

\* Every step settles, delivers or leaves the promise alone.
LEMMA StepsKeepPromise == IInv /\ [Next]_vars => [Promise!Next]_(Promise!vars)
<1> SUFFICES ASSUME IInv, [Next]_vars PROVE [Promise!Next]_(Promise!vars)
  OBVIOUS
<1>1. ASSUME NEW e \in Events, NEW i \in Instructions, ConfirmWire(e, i) \/ ConfirmUsdc(e, i)
      PROVE  Promise!Next
  <2>1. destination[i] \in Accounts /\ amount[i] \in 1 .. MaxUnits
    BY <1>1 DEF IInv, InstructionRows, ConfirmWire, ConfirmUsdc, Amounts
  <2>2. PICK a \in Accounts, n \in 1 .. MaxUnits : a = destination[i] /\ n = amount[i]
    BY <2>1
  <2>3. Promise!SettleFiat(i, a, n) \/ Promise!DeliverUsdc(i, a, n)
    BY <1>1, <2>2, ConfirmWireSettles, ConfirmUsdcDelivers
  <2> QED BY <2>3, Zenon DEF Promise!Next
<1>2. ASSUME NEW i \in Instructions, NEW a \in Accounts, NEW n \in Amounts,
             CreateByOperator(i, a, n) \/ CreateByClient(i, a, n)
      PROVE  UNCHANGED Promise!vars
  <2>1. status[i] = "absent" /\ UNCHANGED <<pending, available, wireConfirmedBy, usdcConfirmedBy>>
    BY <1>2 DEF CreateByOperator, CreateByClient, InsertInstruction, ledgerVars
  <2>2. \A j \in Instructions : status[j] # "absent" => destination'[j] = destination[j] /\ amount'[j] = amount[j]
    BY <1>2, <2>1 DEF CreateByOperator, CreateByClient, InsertInstruction, IInv, TypeOK
  <2> QED BY <2>1, <2>2, OthersStutter
<1>3. CASE \/ UNCHANGED vars
           \/ \E w \in Operators :
                \/ \E i \in Instructions, action \in {"cancel", "assign-route"} : ReadForTransition(w, i, action)
                \/ WriteCancel(w) \/ WriteRoute(w) \/ AbandonTransition(w)
           \/ \E e \in Events, i \in Instructions :
                \/ \E kind \in Kinds :
                     MismatchedConfirmation(e, i, kind) \/ AlreadyConfirmed(e, i, kind) \/ ProcessingFails(e, i, kind)
                \/ ProviderFailure(e, i) \/ ConfirmUsdcTooEarly(e, i)
           \/ \E e \in Events : Orphan(e) \/ Reprocess(e)
  <2>1. UNCHANGED <<pending, available, wireConfirmedBy, usdcConfirmedBy, destination, amount>>
    BY <1>3 DEF vars, instructionVars, orderVars, ledgerVars, ReadForTransition, WriteCancel, WriteRoute,
                AbandonTransition, MismatchedConfirmation, AlreadyConfirmed, ProcessingFails,
                ProviderFailure, ConfirmUsdcTooEarly, Orphan, Reprocess
  <2> QED BY <2>1, OthersStutter
<1> QED BY <1>1, <1>2, <1>3 DEF Next

\* What a client exchange promises is kept: fiat is settled once, for one account
\* and amount, then delivered once to that account.
THEOREM PromiseKept == Spec => ImplementsTwoStageSettlement
<1>1. Init => Promise!Init
  BY DEF Init, Promise!Init
<1> QED BY <1>1, Invariant, StepsKeepPromise, PTL DEF Spec, ImplementsTwoStageSettlement, Promise!Spec
=============================================================================
