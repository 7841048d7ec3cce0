---------------------- MODULE TreasuryPayments_proofs ----------------------
(***************************************************************************)
(* The invariants of TreasuryPayments and its refinement of                *)
(* FundingReservations, for every set of instructions, reservations,       *)
(* profiles and bindings and every bound on amounts.                       *)
(***************************************************************************)
EXTENDS TreasuryPayments, TLAPS

\* A routing transaction that is open holds the row of an instruction that may
\* be routed, and an instruction that exists pays something.
OpenRows ==
  \A p \in Payments :
    /\ chosen[p] # None => status[p] \notin {"absent", "settled", "cancelled"}
    /\ status[p] # "absent" => payAmount[p] \in Amounts

IInv ==
  /\ TypeOK
  /\ JournalPostedOnce
  /\ PaidOnce
  /\ InstructionMatchesRows
  /\ DecisionsNameProfiles
  /\ OpenRows

USE DEF Unlocked, ProfileExists

\* Nothing has been created.
LEMMA InitInvariant == Init => IInv
<1> SUFFICES ASSUME Init PROVE IInv
  OBVIOUS
<1>1. TypeOK
  BY FundingConstants DEF Init, TypeOK, Status
<1>2. JournalPostedOnce /\ PaidOnce /\ InstructionMatchesRows /\ DecisionsNameProfiles /\ OpenRows
  BY DEF Init, JournalPostedOnce, PaidOnce, InstructionMatchesRows, DecisionsNameProfiles, OpenRows
<1> QED BY <1>1, <1>2 DEF IInv

\* Commands on reservations and obligations touch no payment.
LEMMA OthersKeepInvariant ==
  ASSUME IInv, UNCHANGED <<payVars, catalogue>>
  PROVE  IInv'
BY DEF IInv, TypeOK, JournalPostedOnce, PaidOnce, InstructionMatchesRows, DecisionsNameProfiles,
       OpenRows, payVars, routeVars, settleVars, catalogue

\* The catalogue never loses a profile that a decision names.
LEMMA CatalogueKeepsInvariant ==
  ASSUME IInv, CatalogueCommand
  PROVE  IInv'
<1> USE DEF IInv, CatalogueCommand, payVars, routeVars, settleVars
<1>1. TypeOK'
  BY DEF TypeOK, CreateProfile, PatchProfile, DeleteProfile, CreateBinding, PatchBinding,
         DeleteBinding
<1>2. DecisionsNameProfiles'
  <2>1. ASSUME NEW p \in Payments, decision[p] # None PROVE ProfileExists(decision[p])'
    <3>1. decision[p] \in Profiles /\ ProfileExists(decision[p])
      BY <2>1 DEF TypeOK, DecisionsNameProfiles
    <3> QED BY <2>1, <3>1 DEF TypeOK, CreateProfile, PatchProfile, DeleteProfile, CreateBinding,
                              PatchBinding, DeleteBinding
  <2> QED BY <2>1 DEF DecisionsNameProfiles
<1>3. JournalPostedOnce' /\ PaidOnce' /\ InstructionMatchesRows' /\ OpenRows'
  BY DEF JournalPostedOnce, PaidOnce, InstructionMatchesRows, OpenRows
<1> QED BY <1>1, <1>2, <1>3

\* Creation starts from a row that nothing else refers to.
LEMMA CreateKeepsInvariant ==
  ASSUME IInv, NEW q \in Payments, NEW s \in {"created", "draft"}, NEW n \in Amounts,
         NEW r \in Reservations \cup {None}, NEW k \in BOOLEAN,
         InsertInstruction(q, s, n, r, k), UNCHANGED catalogue
  PROVE  IInv'
<1> USE DEF IInv, InsertInstruction, catalogue, settleVars
<1>1. TypeOK'
  BY FundingConstants DEF TypeOK, Amounts, Status
<1>2. JournalPostedOnce' /\ PaidOnce' /\ InstructionMatchesRows'
  BY DEF TypeOK, JournalPostedOnce, PaidOnce, InstructionMatchesRows
<1>3. DecisionsNameProfiles' /\ OpenRows'
  BY DEF TypeOK, DecisionsNameProfiles, OpenRows
<1> QED BY <1>1, <1>2, <1>3

\* The payments endpoint leaves the history mark the properties ask about.
LEMMA TransitionKeepsInvariant ==
  ASSUME IInv, NEW q \in Payments, NEW s \in {"submitted", "complete", "cancelled"},
         TransitionPayment(q, s), UNCHANGED catalogue
  PROVE  IInv'
<1> USE DEF IInv, TransitionPayment, TransferAfter, catalogue, settleVars, routeVars
<1>1. TypeOK'
  BY DEF TypeOK, Status
<1>2. JournalPostedOnce' /\ PaidOnce' /\ InstructionMatchesRows'
  BY DEF TypeOK, JournalPostedOnce, PaidOnce, InstructionMatchesRows
<1>3. DecisionsNameProfiles' /\ OpenRows'
  BY DEF TypeOK, DecisionsNameProfiles, OpenRows
<1> QED BY <1>1, <1>2, <1>3

\* Routing writes a decision only for a profile that is still there.
LEMMA RoutingKeepsInvariant ==
  ASSUME IInv, NEW q \in Payments, Routing(q), UNCHANGED catalogue
  PROVE  IInv'
<1> USE DEF IInv, catalogue, settleVars, TypeOK
<1>1. ASSUME NEW b \in Bindings, RouteSelect(q, b) PROVE IInv'
  <2> USE <1>1 DEF RouteSelect
  <2>1. TypeOK'
    OBVIOUS
  <2>2. JournalPostedOnce' /\ PaidOnce' /\ InstructionMatchesRows' /\ DecisionsNameProfiles' /\ OpenRows'
    BY DEF JournalPostedOnce, PaidOnce, InstructionMatchesRows, DecisionsNameProfiles, OpenRows
  <2> QED BY <2>1, <2>2
<1>2. ASSUME RouteWrite(q) PROVE IInv'
  <2> USE <1>2 DEF RouteWrite, DecisionAccepted
  <2>1. TypeOK'
    BY DEF Status
  <2>2. status[q] \notin {"absent", "settled", "cancelled"}
    BY DEF OpenRows
  <2>3. JournalPostedOnce' /\ PaidOnce' /\ InstructionMatchesRows'
    BY <2>2 DEF JournalPostedOnce, PaidOnce, InstructionMatchesRows
  <2>4. DecisionsNameProfiles' /\ OpenRows'
    BY <2>2 DEF DecisionsNameProfiles, OpenRows
  <2> QED BY <2>1, <2>3, <2>4
<1>3. ASSUME RouteAbort(q) PROVE IInv'
  <2> USE <1>3 DEF RouteAbort
  <2>1. TypeOK'
    OBVIOUS
  <2>2. JournalPostedOnce' /\ PaidOnce' /\ InstructionMatchesRows' /\ DecisionsNameProfiles' /\ OpenRows'
    BY DEF JournalPostedOnce, PaidOnce, InstructionMatchesRows, DecisionsNameProfiles, OpenRows
  <2> QED BY <2>1, <2>2
<1> QED BY <1>1, <1>2, <1>3 DEF Routing

\* A settling execution draws and posts for an instruction that has done neither,
\* unless the payments endpoint reopened it; then only the source event protects
\* the journal.
LEMMA SettlingKeepsInvariant ==
  ASSUME IInv, NEW q \in Payments, NEW retry \in BOOLEAN, NEW supplied \in BOOLEAN,
         ExecuteSettles(q, retry, supplied), UNCHANGED catalogue
  PROVE  IInv'
<1> USE DEF IInv, ExecuteSettles, Executable, catalogue, routeVars
<1>1. posted' \in [Payments -> Nat] /\ (\A p \in Payments : posted'[p] <= 1)
       /\ (\A p \in Payments : p # q => posted'[p] = posted[p])
  BY DEF PostJournal, SourceEventFree, TypeOK, JournalPostedOnce
<1>2. /\ drawn' \in [Payments -> Nat]
      /\ \A p \in Payments : p # q => drawn'[p] = drawn[p]
      /\ drawn'[q] = drawn[q] \/ drawn'[q] = drawn[q] + payAmount[q]
  BY FundingConstants DEF DrawOnReservation, TypeOK
<1>3. TypeOK'
  BY <1>1, <1>2 DEF TypeOK, Status
<1>4. PaidOnce'
  BY <1>1, <1>2, FundingConstants DEF PaidOnce, TypeOK
<1>5. JournalPostedOnce' /\ InstructionMatchesRows' /\ DecisionsNameProfiles' /\ OpenRows'
  BY <1>1 DEF JournalPostedOnce, InstructionMatchesRows, DecisionsNameProfiles, OpenRows, TypeOK
<1> QED BY <1>3, <1>4, <1>5

\* A failed execution and a cancellation have drawn and posted nothing.
LEMMA EndingKeepsInvariant ==
  ASSUME IInv, NEW q \in Payments, NEW retry \in BOOLEAN,
         ExecuteFails(q, retry) \/ CancelInstruction(q), UNCHANGED catalogue
  PROVE  IInv'
<1> USE DEF IInv, ExecuteFails, CancelInstruction, CancelledSettlement, Executable, catalogue, routeVars
<1>1. TypeOK'
  BY DEF TypeOK, Status
<1>2. JournalPostedOnce' /\ PaidOnce'
  BY DEF TypeOK, JournalPostedOnce, PaidOnce
<1>3. InstructionMatchesRows'
  BY DEF TypeOK, InstructionMatchesRows
<1>4. DecisionsNameProfiles' /\ OpenRows'
  BY DEF TypeOK, DecisionsNameProfiles, OpenRows
<1> QED BY <1>1, <1>2, <1>3, <1>4

\* IInv is an invariant of every behaviour.
LEMMA Invariant == Spec => []IInv
<1>1. ASSUME IInv, [Next]_vars PROVE IInv'
  <2>1. ASSUME NEW p \in Payments, PaymentCommand(p), UNCHANGED catalogue PROVE IInv'
    BY <1>1, <2>1, CreateKeepsInvariant, TransitionKeepsInvariant, RoutingKeepsInvariant,
       SettlingKeepsInvariant, EndingKeepsInvariant
    DEF PaymentCommand, CreateInternalPayment, CreateInternalTreasuryPaymentInstruction
  <2>2. CASE UNCHANGED vars
    BY <1>1, <2>2, OthersKeepInvariant DEF vars
  <2> QED BY <1>1, <2>1, <2>2, OthersKeepInvariant, CatalogueKeepsInvariant DEF Next
<1> QED BY <1>1, InitInvariant, PTL DEF Spec

\* The tables of payments, routes and settlements keep their types.
THEOREM TypeCorrect == Spec => []TypeOK
BY Invariant, PTL DEF IInv

\* No settlement is posted to the journal twice, however often its instruction is
\* reopened, routed, executed and retried.
THEOREM JournalPostedOnceAlways == Spec => []JournalPostedOnce
BY Invariant, PTL DEF IInv

\* An instruction that only the treasury endpoints have touched draws its amount
\* once, and only by settling.
THEOREM PaidOnceAlways == Spec => []PaidOnce
BY Invariant, PTL DEF IInv

\* Instruction, settlement and transfer always agree.
THEOREM InstructionMatchesRowsAlways == Spec => []InstructionMatchesRows
BY Invariant, PTL DEF IInv

\* Decisions always name existing profiles, and routed instructions have one.
THEOREM DecisionsNameProfilesAlways == Spec => []DecisionsNameProfiles
BY Invariant, PTL DEF IInv

\* A routing that began before an instruction was settled or cancelled is never
\* written after it: the row lock keeps the two apart.
THEOREM EndedIsNotReroutedAlways == Spec => EndedIsNotRerouted
<1> DEFINE Kept == \A p \in Payments : status[p] \in {"settled", "cancelled"} => status'[p] # "routed"
<1>1. ASSUME IInv, [Next]_vars PROVE [Kept]_vars
  <2>1. ASSUME NEW q \in Payments, PaymentCommand(q) PROVE Kept
    <3>1. RouteWrite(q) => status[q] \notin {"settled", "cancelled"}
      BY <1>1 DEF IInv, OpenRows, RouteWrite
    <3> QED BY <1>1, <2>1, <3>1
            DEF PaymentCommand, Routing, CreateInternalPayment, CreateInternalTreasuryPaymentInstruction,
                InsertInstruction, TransitionPayment, RouteSelect, RouteWrite,
                RouteAbort, ExecuteSettles, ExecuteFails, CancelInstruction, IInv, TypeOK
  <2>2. ASSUME UNCHANGED payVars PROVE Kept
    BY <2>2 DEF payVars
  <2> QED BY <1>1, <2>1, <2>2 DEF Next, CatalogueCommand, vars
<1> QED BY <1>1, Invariant, PTL DEF Spec, EndedIsNotRerouted

\* Payments change reservations and balances only by consume commands.
THEOREM ReservationsImplemented == Spec => ImplementsReservations
<1>1. Init => Funding!Init
  BY DEF Init
<1>2. ASSUME IInv, [Next]_vars PROVE [Funding!Next]_(Funding!vars)
  <2>1. ASSUME UNCHANGED fundingVars PROVE UNCHANGED Funding!vars
    BY <2>1 DEF fundingVars, Funding!vars, Funding!obligationVars, Funding!reservationVars,
                Funding!balanceVars
  <2>2. ASSUME NEW p \in Payments, PaymentCommand(p) PROVE [Funding!Next]_(Funding!vars)
    <3>1. ASSUME fundedBy[p] # None, status[p] # "absent", Draw(p) PROVE Funding!Next
      <4>1. fundedBy[p] \in Reservations /\ payAmount[p] \in Funding!Amounts
        BY <1>2, <3>1 DEF IInv, TypeOK, OpenRows, Amounts, Funding!Amounts
      <4> QED BY <3>1, <4>1 DEF Draw, Funding!Next, Funding!OtherCommand
    <3>2. ASSUME NEW retry \in BOOLEAN, NEW supplied \in BOOLEAN, ExecuteSettles(p, retry, supplied)
          PROVE  [Funding!Next]_(Funding!vars)
      BY <2>1, <3>1, <3>2 DEF ExecuteSettles, Executable, DrawOnReservation
    <3> QED BY <2>1, <2>2, <3>2
            DEF PaymentCommand, Routing, CreateInternalPayment, CreateInternalTreasuryPaymentInstruction,
                InsertInstruction, TransitionPayment, RouteSelect, RouteWrite,
                RouteAbort, ExecuteFails, CancelInstruction
  <2> QED BY <1>2, <2>1, <2>2 DEF Next, CatalogueCommand, vars
<1> QED BY <1>1, <1>2, Invariant, PTL DEF Spec, ImplementsReservations, Funding!Spec
=============================================================================
