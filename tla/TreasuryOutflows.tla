--------------------------- MODULE TreasuryOutflows ---------------------------
(***************************************************************************)
(* What the tenant's treasury sends out on the Postgres path               *)
(* (db/postgres-route-handler.ts): advances on a settlement credit line,   *)
(* disbursements to clients, and redemptions to a bank account.  A         *)
(* transition locks its row, a reservation on the credit line locks        *)
(* nothing; transactions overlap.                                          *)
(*                                                                         *)
(* The provider is not called: ids of provider transfers come with the     *)
(* request or are made up.  Accounts, wire instruments, wire proofs and    *)
(* audit rows are left out.                                                *)
(***************************************************************************)
EXTENDS FiniteSets, Naturals, FiniteSetsExt

CONSTANTS
  CreditLimit,    \* SETTLEMENT_ADVANCE_CREDIT_LIMIT_MINOR_UNITS
  Advances,       \* ids of settlement advances
  Disbursements,  \* ids of tenant disbursements
  Redemptions,    \* ids of fiat redemptions
  Desks           \* transactions in progress at a time; a desk's name also stands
                  \* for the withdrawal id it makes up

LimitNat == CreditLimit \in Nat
TablesDiffer ==
  Advances \cap Disbursements = {} /\ Advances \cap Redemptions = {} /\ Disbursements \cap Redemptions = {}
NoneIsNoDesk == "none" \notin Desks

VARIABLES
  advance,       \* settlement_advance_transfers
  disbursement,  \* tenant_disbursements
  redemption,    \* redemption_instructions
  executions,    \* redemption_execution_events
  desk           \* the transactions

vars == <<advance, disbursement, redemption, executions, desk>>

Idle == [at |-> "idle"]
Absent == [status |-> "absent"]
None == "none"

Init ==
  /\ advance = [a \in Advances |-> Absent]
  /\ disbursement = [d \in Disbursements |-> Absent]
  /\ redemption = [r \in Redemptions |-> Absent]
  /\ executions = {}
  /\ desk = [x \in Desks |-> Idle]

-----------------------------------------------------------------------------
(* Locks *)

\* select ... for update.  Mutant: a select.
Unlocked(x, row) == TRUE
RowFree(x, row) == \A y \in Desks \ {x} : desk[y].at = "locked" => desk[y].row # row

Lock(x, row, found, action) ==
  /\ desk[x] = Idle
  /\ found # Absent
  /\ RowFree(x, row)
  /\ desk' = [desk EXCEPT ![x] = [at |-> "locked", row |-> row, found |-> found, action |-> action]]
  /\ UNCHANGED <<advance, disbursement, redemption, executions>>

Working(x, row) == desk[x].at = "locked" /\ desk[x].row = row
Done(x) == desk' = [desk EXCEPT ![x] = Idle]

\* The transition is refused, a statement fails or the connection is lost.
RollBack(x) ==
  /\ desk[x] # Idle
  /\ Done(x)
  /\ UNCHANGED <<advance, disbursement, redemption, executions>>

-----------------------------------------------------------------------------
(* Settlement advances *)

\* getSettlementAdvanceCreditLine: advances in every status count.
Reserved == MapThenSumSet(LAMBDA a : advance[a].amount, {a \in Advances : advance[a] # Absent})
Available == IF CreditLimit > Reserved THEN CreditLimit - Reserved ELSE 0

\* An exhausted line, or none, refuses nothing.
Affordable(amount) == Available > 0 => amount <= Available

\* reserveSettlementAdvance reads the credit line.
ReserveSettlementAdvance(x, a, amount) ==
  /\ desk[x] = Idle
  /\ Affordable(amount)
  /\ desk' = [desk EXCEPT ![x] = [at |-> "insert", advance |-> a, amount |-> amount]]
  /\ UNCHANGED <<advance, disbursement, redemption, executions>>

InsertAdvance(x) ==
  /\ desk[x].at = "insert"
  /\ advance[desk[x].advance] = Absent
  /\ advance' = [advance EXCEPT ![desk[x].advance] = [status |-> "funds_reserved", amount |-> desk[x].amount]]
  /\ Done(x)
  /\ UNCHANGED <<disbursement, redemption, executions>>

\* transitionSettlementAdvance: "requested" or "cancelled".
TransitionSettlementAdvance(x, a) ==
  /\ Working(x, a)
  /\ desk[x].found.status \in {"funds_reserved", "requested"}
  /\ advance' = [advance EXCEPT ![a].status = desk[x].action]
  /\ Done(x)
  /\ UNCHANGED <<disbursement, redemption, executions>>

-----------------------------------------------------------------------------
(* Tenant disbursements *)

CreateTenantDisbursement(d) ==
  /\ disbursement[d] = Absent
  /\ disbursement' = [disbursement EXCEPT ![d] = [status |-> "draft", transfer |-> None]]
  /\ UNCHANGED <<advance, redemption, executions, desk>>

\* transitionTenantDisbursement
ApproveDisbursement(x, d) ==
  /\ Working(x, d)
  /\ desk[x].action = "approve"
  /\ desk[x].found.status \in {"draft", "approved"}
  /\ disbursement' = [disbursement EXCEPT ![d].status = "approved"]
  /\ Done(x)
  /\ UNCHANGED <<advance, redemption, executions>>

\* The id of the transfer is the request's or is made from the row's id, and
\* takes the place of the one before.
SubmitDisbursement(x, d, transfer) ==
  /\ Working(x, d)
  /\ desk[x].action = "submit"
  /\ desk[x].found.status \in {"approved", "submitted"}
  /\ disbursement' = [disbursement EXCEPT ![d] = [status |-> "submitted", transfer |-> transfer]]
  /\ Done(x)
  /\ UNCHANGED <<advance, redemption, executions>>

-----------------------------------------------------------------------------
(* Fiat redemptions *)

CreateFiatRedemption(r) ==
  /\ redemption[r] = Absent
  /\ redemption' = [redemption EXCEPT ![r] = [status |-> "created", withdrawal |-> None]]
  /\ UNCHANGED <<advance, disbursement, executions, desk>>

\* transitionFiatRedemption: refresh-status leads to "complete", any other
\* action to "submitted", whatever the status was.
TransitionFiatRedemption(x, r) ==
  /\ Working(x, r)
  /\ LET next == IF desk[x].action = "refresh-status" THEN "complete" ELSE "submitted"
         withdrawal == IF desk[x].found.withdrawal # None THEN desk[x].found.withdrawal ELSE x
     IN  /\ redemption' = [redemption EXCEPT ![r] =
              [status |-> next, withdrawal |-> IF @.withdrawal # None THEN @.withdrawal ELSE withdrawal]]
         /\ executions' = executions \cup {[redemption |-> r, type |-> next, withdrawal |-> withdrawal]}
  /\ Done(x)
  /\ UNCHANGED <<advance, disbursement>>

Next ==
  \/ \E d \in Disbursements : CreateTenantDisbursement(d)
  \/ \E r \in Redemptions : CreateFiatRedemption(r)
  \/ \E x \in Desks :
       \/ RollBack(x)
       \/ \E a \in Advances :
            \/ \E amount \in 1 .. CreditLimit + 1 : ReserveSettlementAdvance(x, a, amount)
            \/ \E action \in {"requested", "cancelled"} : Lock(x, a, advance[a], action)
            \/ TransitionSettlementAdvance(x, a)
       \/ InsertAdvance(x)
       \/ \E d \in Disbursements :
            \/ \E action \in {"approve", "submit"} : Lock(x, d, disbursement[d], action)
            \/ ApproveDisbursement(x, d)
            \/ \E transfer \in {"given", "simulated"} : SubmitDisbursement(x, d, transfer)
       \/ \E r \in Redemptions :
            \/ \E action \in {"submit", "refresh-status"} : Lock(x, r, redemption[r], action)
            \/ TransitionFiatRedemption(x, r)

Spec == Init /\ [][Next]_vars

-----------------------------------------------------------------------------
(* Properties *)

TypeOK ==
  /\ advance \in [Advances -> {Absent} \cup
       [status : {"funds_reserved", "requested", "cancelled"}, amount : 1 .. CreditLimit + 1]]
  /\ disbursement \in [Disbursements -> {Absent} \cup
       [status : {"draft", "approved", "submitted"}, transfer : {None, "given", "simulated"}]]
  /\ redemption \in [Redemptions -> {Absent} \cup
       [status : {"created", "submitted", "complete"}, withdrawal : Desks \cup {None}]]
  /\ executions \subseteq [redemption : Redemptions, type : {"submitted", "complete"}, withdrawal : Desks]
  /\ \A x \in Desks : desk[x].at \in {"idle", "insert", "locked"}

\* Every event of a redemption names the withdrawal its row names, although
\* transitions of one redemption overlap and each would make up an id of its
\* own.
EventsNameTheWithdrawal ==
  \A e \in executions : redemption[e.redemption].withdrawal = e.withdrawal

\* Transitions that overlap do not undo each other: a disbursement that was
\* submitted is not approved once more, an advance that was cancelled is not
\* requested.
NothingIsUndone ==
  [][/\ \A d \in Disbursements : disbursement[d].status = "submitted" => disbursement'[d].status = "submitted"
     /\ \A a \in Advances : advance[a].status = "cancelled" => advance'[a] = advance[a]]_vars
=============================================================================
