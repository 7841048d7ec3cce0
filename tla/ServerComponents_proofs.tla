----------------------- MODULE ServerComponents_proofs -----------------------
(***************************************************************************)
(* The invariants and the action properties of the server's components,    *)
(* for any number of commands, transactions, keys, accounts and events.    *)
(* Each component has its own inductive invariant; the sum is a run of     *)
(* every one of them, most of which stutters.                              *)
(***************************************************************************)
EXTENDS ServerComponents, FiniteSetTheorems, SequenceTheorems, WellFoundedInduction, TLAPS

-----------------------------------------------------------------------------
(* AccountLifecycle *)

LifecycleActions == {"activate", "restrict", "unrestrict", "freeze", "unfreeze", "close"}

Acts ==
  {Lifecycle!Idle}
    \cup [at : {"insert"}, status : {"internal", "active", "pending_activation"}]
    \cup [at : {"locked"}, action : LifecycleActions, status : Lifecycle!Statuses, client : DOMAIN Lifecycle!businessClientTransitions]
    \cup [at : {"updated"}, status : {"active", "pending_activation", "restricted"}]

\* A command that has locked the rows knows what they hold, is about to take a
\* legal edge, and is alone with them.
LockedIsCurrent ==
  \A x \in Actors :
    act[x].at = "locked" =>
      /\ act[x].status = account /\ act[x].client = client
      /\ Lifecycle!accountNextStatus(act[x].action, account) \in Lifecycle!accountTransitions[account]
      /\ \A y \in Actors \ {x} : act[y].at \notin {"locked", "updated"}

LifecycleInv == Lifecycle!TypeOK /\ act \in [Actors -> Acts] /\ LockedIsCurrent

LEMMA LifecycleInit == Lifecycle!Init => LifecycleInv
BY DEF Lifecycle!Init, LifecycleInv, Lifecycle!TypeOK, Acts, LockedIsCurrent, Lifecycle!Idle,
       Lifecycle!businessClientTransitions

\* What a command is when it is under way.
LEMMA ActTypes ==
  ASSUME LifecycleInv, NEW x \in Actors
  PROVE  /\ act[x].at = "insert" => act[x].status \in {"internal", "active", "pending_activation"}
         /\ act[x].at = "locked" => act[x].action \in LifecycleActions /\ act[x].status \in Lifecycle!Statuses
         /\ act[x].at = "updated" => act[x].status \in {"active", "pending_activation", "restricted"}
         /\ act[x] = Lifecycle!Idle <=> act[x].at = "idle"
BY DEF LifecycleInv, Acts, Lifecycle!Idle

LEMMA StatusesAre == Lifecycle!Statuses = {"draft", "pending_activation", "active", "restricted", "frozen", "closed"}
BY DEF Lifecycle!Statuses, Lifecycle!accountTransitions

LEMMA ClientStatusesAre ==
  DOMAIN Lifecycle!businessClientTransitions = {"draft", "submitted", "approved", "restricted", "closed"}
BY DEF Lifecycle!businessClientTransitions

\* An edge leads to a status.
LEMMA EdgesLead ==
  /\ \A s \in Lifecycle!Statuses : Lifecycle!accountTransitions[s] \subseteq Lifecycle!Statuses
  /\ \A s \in DOMAIN Lifecycle!businessClientTransitions :
       Lifecycle!businessClientTransitions[s] \subseteq DOMAIN Lifecycle!businessClientTransitions
BY StatusesAre, ClientStatusesAre DEF Lifecycle!accountTransitions, Lifecycle!businessClientTransitions

\* The client or the instruments change, or nothing, while nobody has the client locked.
LEMMA ClientMoves ==
  ASSUME LifecycleInv, UNCHANGED <<account, transition, act>>,
         client' \in DOMAIN Lifecycle!businessClientTransitions,
         linked' \in {"none", "unverified", "verified", "circle"},
         client' = client \/ \A x \in Actors : act[x].at # "locked"
  PROVE  LifecycleInv'
<1>1. Lifecycle!TypeOK' /\ act' \in [Actors -> Acts]
  BY DEF LifecycleInv, Lifecycle!TypeOK
<1>2. LockedIsCurrent'
  BY DEF LifecycleInv, LockedIsCurrent
<1> QED BY <1>1, <1>2 DEF LifecycleInv

\* One command moves on.
LEMMA ActMoves ==
  ASSUME LifecycleInv, NEW x \in Actors, NEW v \in Acts, act' = [act EXCEPT ![x] = v],
         UNCHANGED <<client, linked>>, account' \in Lifecycle!Statuses \cup {"none"},
         transition' = transition \/ transition' \in [from : Lifecycle!Statuses, to : Lifecycle!Statuses,
           action : {"create"} \cup LifecycleActions],
         \/ account' = account /\ v.at \notin {"locked", "updated"}
         \/ \A y \in Actors \ {x} : act[y].at # "locked",
         v.at = "locked" =>
           /\ v.status = account' /\ v.client = client
           /\ Lifecycle!accountNextStatus(v.action, account') \in Lifecycle!accountTransitions[account']
           /\ \A y \in Actors \ {x} : act[y].at \notin {"locked", "updated"}
  PROVE  LifecycleInv'
<1>1. act' \in [Actors -> Acts]
  BY DEF LifecycleInv
<1>2. Lifecycle!TypeOK'
  <2>1. transition' \in {Lifecycle!NoTransition} \cup [from : Lifecycle!Statuses, to : Lifecycle!Statuses,
          action : {"create", "activate", "restrict", "unrestrict", "freeze", "unfreeze", "close"}]
    BY DEF LifecycleInv, Lifecycle!TypeOK, LifecycleActions
  <2>2. \A y \in Actors : act'[y].at \in {"idle", "insert", "locked", "updated"}
    BY <1>1 DEF Acts, Lifecycle!Idle
  <2> QED BY <2>1, <2>2 DEF LifecycleInv, Lifecycle!TypeOK
<1>3. LockedIsCurrent'
  <2> SUFFICES ASSUME NEW y \in Actors, act'[y].at = "locked"
               PROVE  /\ act'[y].status = account' /\ act'[y].client = client
                      /\ Lifecycle!accountNextStatus(act'[y].action, account') \in Lifecycle!accountTransitions[account']
                      /\ \A z \in Actors \ {y} : act'[z].at \notin {"locked", "updated"}
    BY DEF LockedIsCurrent
  <2>1. CASE y = x
    BY <2>1 DEF LifecycleInv
  <2>2. CASE y # x
    BY <2>2 DEF LifecycleInv, LockedIsCurrent
  <2> QED BY <2>1, <2>2
<1> QED BY <1>1, <1>2, <1>3 DEF LifecycleInv

LEMMA IdleIsAct == Lifecycle!Idle \in Acts /\ Lifecycle!Idle.at = "idle"
BY DEF Acts, Lifecycle!Idle

\* The business user's part: rows are found, inserted or updated.
LEMMA UserKeeps ==
  ASSUME LifecycleInv, NEW x \in Actors,
         \/ \E status \in {"internal", "active", "pending_activation"} : Lifecycle!FindApprovedClient(x, status)
         \/ Lifecycle!CreateAccount(x) \/ Lifecycle!GiveUp(x) \/ Lifecycle!SelfUpdated(x)
         \/ \E status \in {"active", "pending_activation", "restricted"} : Lifecycle!SelfUpdate(x, status)
  PROVE  LifecycleInv'
<1>0. account \in Lifecycle!Statuses \cup {"none"}
  BY DEF LifecycleInv, Lifecycle!TypeOK
<1>1. ASSUME NEW status \in {"internal", "active", "pending_activation"}, Lifecycle!FindApprovedClient(x, status)
      PROVE  LifecycleInv'
  <2>1. PICK v : v = [at |-> "insert", status |-> status]
    OBVIOUS
  <2>2. v \in Acts /\ v.at = "insert"
    BY <2>1 DEF Acts
  <2> QED BY <1>0, <1>1, <2>1, <2>2, ActMoves DEF Lifecycle!FindApprovedClient
<1>2. CASE Lifecycle!CreateAccount(x)
  <2>1. \A y \in Actors : act[y].at # "locked"
    BY <1>2, ActTypes, StatusesAre DEF Lifecycle!CreateAccount, LifecycleInv, LockedIsCurrent
  <2>2. /\ account' \in Lifecycle!Statuses
        /\ transition' = transition \/ transition' = [from |-> "draft", to |-> "pending_activation", action |-> "create"]
    BY <1>2, ActTypes, StatusesAre DEF Lifecycle!CreateAccount, Lifecycle!Recorded
  <2>3. transition' = transition \/ transition' \in [from : Lifecycle!Statuses, to : Lifecycle!Statuses,
           action : {"create"} \cup LifecycleActions]
    BY <2>2, StatusesAre
  <2> QED BY <1>2, <2>1, <2>2, <2>3, IdleIsAct, ActMoves DEF Lifecycle!CreateAccount
<1>3. CASE Lifecycle!GiveUp(x)
  BY <1>0, <1>3, IdleIsAct, ActMoves DEF Lifecycle!GiveUp
<1>4. ASSUME NEW status \in {"active", "pending_activation", "restricted"}, Lifecycle!SelfUpdate(x, status)
      PROVE  LifecycleInv'
  <2>1. PICK v : v = [at |-> "updated", status |-> status]
    OBVIOUS
  <2>2. v \in Acts /\ v.at = "updated"
    BY <2>1 DEF Acts
  <2>3. \A y \in Actors : act[y].at # "locked"
    BY <1>4 DEF Lifecycle!SelfUpdate, Lifecycle!LocksAccount
  <2> QED BY <1>0, <1>4, <2>1, <2>2, <2>3, ActMoves DEF Lifecycle!SelfUpdate
<1>5. CASE Lifecycle!SelfUpdated(x)
  <2>1. \A y \in Actors : act[y].at # "locked"
    BY <1>5 DEF Lifecycle!SelfUpdated, LifecycleInv, LockedIsCurrent
  <2>2. account' \in Lifecycle!Statuses
    BY <1>5, ActTypes, StatusesAre DEF Lifecycle!SelfUpdated
  <2> QED BY <1>5, <2>1, <2>2, IdleIsAct, ActMoves DEF Lifecycle!SelfUpdated
<1> QED BY <1>1, <1>2, <1>3, <1>4, <1>5

LEMMA LockKeeps ==
  ASSUME LifecycleInv, NEW x \in Actors, NEW action \in LifecycleActions, Lifecycle!Lock(x, action)
  PROVE  LifecycleInv'
<1>0. account \in Lifecycle!Statuses /\ client \in DOMAIN Lifecycle!businessClientTransitions
  BY DEF LifecycleInv, Lifecycle!TypeOK, Lifecycle!Lock
<1>1. PICK v : v = [at |-> "locked", action |-> action, status |-> account, client |-> client]
  OBVIOUS
<1>2. v \in Acts /\ v.at = "locked" /\ v.status = account /\ v.client = client /\ v.action = action
  BY <1>0, <1>1 DEF Acts
<1>3. \A y \in Actors : act[y].at \notin {"locked", "updated"}
  BY DEF Lifecycle!Lock, Lifecycle!Unlocked, Lifecycle!LocksAccount
<1>4. act' = [act EXCEPT ![x] = v]
  BY <1>1 DEF Lifecycle!Lock
<1> QED BY <1>0, <1>2, <1>3, <1>4, ActMoves DEF Lifecycle!Lock

\* A transition is recorded as it happens, for the client as it is.
LEMMA TransitionKeeps ==
  ASSUME LifecycleInv, NEW x \in Actors, Lifecycle!Transition(x)
  PROVE  /\ LifecycleInv'
         /\ transition' = [from |-> account, to |-> account', action |-> act[x].action]
         /\ account' \in Lifecycle!accountTransitions[account]
         /\ act[x].action \in LifecycleActions
         /\ act[x].action = "activate" => client' = "approved"
<1>1. /\ act[x].at = "locked" /\ act[x].status = account /\ act[x].client = client
      /\ \A y \in Actors \ {x} : act[y].at # "locked"
      /\ act[x].action \in LifecycleActions /\ account \in Lifecycle!Statuses
      /\ Lifecycle!accountNextStatus(act[x].action, account) \in Lifecycle!accountTransitions[account]
  BY ActTypes DEF Lifecycle!Transition, LifecycleInv, LockedIsCurrent
<1>2. /\ account' = Lifecycle!accountNextStatus(act[x].action, account)
      /\ transition' = [from |-> account, to |-> account', action |-> act[x].action]
  BY <1>1 DEF Lifecycle!Transition, Lifecycle!Recorded
<1>3. account' \in Lifecycle!accountTransitions[account] /\ account' \in Lifecycle!Statuses
  BY <1>1, <1>2, EdgesLead
<1>4. transition' \in [from : Lifecycle!Statuses, to : Lifecycle!Statuses, action : {"create"} \cup LifecycleActions]
  BY <1>1, <1>2, <1>3
<1>5. LifecycleInv'
  BY <1>1, <1>3, <1>4, IdleIsAct, ActMoves DEF Lifecycle!Transition
<1>6. act[x].action = "activate" => client' = "approved"
  BY <1>1 DEF Lifecycle!Transition, Lifecycle!Gates
<1> QED BY <1>1, <1>2, <1>3, <1>5, <1>6

LEMMA LifecycleKeeps ==
  ASSUME LifecycleInv, [Lifecycle!Next]_lifecycleVars
  PROVE  LifecycleInv'
<1>1. CASE UNCHANGED lifecycleVars
  BY <1>1, ClientMoves DEF lifecycleVars, LifecycleInv, Lifecycle!TypeOK
<1>2. ASSUME NEW next \in DOMAIN Lifecycle!businessClientTransitions, Lifecycle!TransitionBusinessClient(next)
      PROVE  LifecycleInv'
  BY <1>2, ClientMoves DEF Lifecycle!TransitionBusinessClient, Lifecycle!LocksClient, LifecycleInv, Lifecycle!TypeOK
<1>3. ASSUME NEW status \in {"submitted", "approved"}, Lifecycle!Onboard(status) PROVE LifecycleInv'
  BY <1>3, ClientMoves, ClientStatusesAre DEF Lifecycle!Onboard, Lifecycle!LocksClient, LifecycleInv, Lifecycle!TypeOK
<1>4. ASSUME NEW to \in {"unverified", "verified", "circle"}, Lifecycle!LinkInstruments(to) PROVE LifecycleInv'
  BY <1>4, ClientMoves DEF Lifecycle!LinkInstruments, LifecycleInv, Lifecycle!TypeOK
<1>5. ASSUME NEW x \in Actors,
             \/ \E status \in {"internal", "active", "pending_activation"} : Lifecycle!FindApprovedClient(x, status)
             \/ Lifecycle!CreateAccount(x) \/ Lifecycle!GiveUp(x) \/ Lifecycle!SelfUpdated(x)
             \/ \E status \in {"active", "pending_activation", "restricted"} : Lifecycle!SelfUpdate(x, status)
      PROVE  LifecycleInv'
  BY <1>5, UserKeeps
<1>6. ASSUME NEW x \in Actors, NEW action \in LifecycleActions, Lifecycle!Lock(x, action) PROVE LifecycleInv'
  BY <1>6, LockKeeps
<1>7. ASSUME NEW x \in Actors, Lifecycle!Transition(x) PROVE LifecycleInv'
  BY <1>7, TransitionKeeps
<1> QED BY <1>1, <1>2, <1>3, <1>4, <1>5, <1>6, <1>7 DEF Lifecycle!Next, LifecycleActions

\* A transition is recorded when an account is made or by Transition.
LEMMA LifecycleStepsRecord ==
  ASSUME LifecycleInv, [Lifecycle!Next]_lifecycleVars, transition' # transition
  PROVE  /\ transition'.to \in Lifecycle!accountTransitions[transition'.from]
         /\ transition'.from = (IF transition'.action = "create" THEN "draft" ELSE account)
         /\ transition'.to = account'
         /\ transition'.action = "activate" => client' = "approved"
<1>1. PICK x \in Actors : Lifecycle!CreateAccount(x) \/ Lifecycle!Transition(x)
  BY DEF Lifecycle!Next, lifecycleVars, Lifecycle!TransitionBusinessClient, Lifecycle!Onboard, Lifecycle!LinkInstruments,
         Lifecycle!FindApprovedClient, Lifecycle!Lock, Lifecycle!GiveUp, Lifecycle!SelfUpdate, Lifecycle!SelfUpdated
<1>2. CASE Lifecycle!CreateAccount(x)
  <2>1. account' = "pending_activation"
        /\ transition' = [from |-> "draft", to |-> "pending_activation", action |-> "create"]
    BY <1>2 DEF Lifecycle!CreateAccount, Lifecycle!Recorded
  <2> QED BY <2>1 DEF Lifecycle!accountTransitions
<1>3. CASE Lifecycle!Transition(x)
  <2>1. /\ transition' = [from |-> account, to |-> account', action |-> act[x].action]
        /\ account' \in Lifecycle!accountTransitions[account]
        /\ act[x].action \in LifecycleActions
        /\ act[x].action = "activate" => client' = "approved"
    BY <1>3, TransitionKeeps
  <2> QED BY <2>1 DEF LifecycleActions
<1> QED BY <1>1, <1>2, <1>3

-----------------------------------------------------------------------------
(* TreasuryOutflows *)

Amounts == 1 .. CreditLimit + 1
AdvanceRows == {Outflows!Absent} \cup [status : {"funds_reserved", "requested", "cancelled"}, amount : Amounts]
DisbursementRows ==
  {Outflows!Absent} \cup [status : {"draft", "approved", "submitted"}, transfer : {Outflows!None, "given", "simulated"}]
RedemptionRows ==
  {Outflows!Absent} \cup [status : {"created", "submitted", "complete"}, withdrawal : Desks \cup {Outflows!None}]

DeskStates ==
  {Outflows!Idle}
    \cup [at : {"insert"}, advance : Advances, amount : Amounts]
    \cup [at : {"locked"}, row : Advances, found : AdvanceRows, action : {"requested", "cancelled"}]
    \cup [at : {"locked"}, row : Disbursements, found : DisbursementRows, action : {"approve", "submit"}]
    \cup [at : {"locked"}, row : Redemptions, found : RedemptionRows, action : {"submit", "refresh-status"}]

\* A transaction that has locked a row knows what it holds, and is alone with it.
DesksHoldRows ==
  \A x \in Desks :
    desk[x].at = "locked" =>
      /\ desk[x].found # Outflows!Absent
      /\ desk[x].row \in Advances => desk[x].found = advance[desk[x].row]
      /\ desk[x].row \in Disbursements => desk[x].found = disbursement[desk[x].row]
      /\ desk[x].row \in Redemptions => desk[x].found = redemption[desk[x].row]
      /\ \A y \in Desks \ {x} : desk[y].at = "locked" => desk[y].row # desk[x].row

\* A redemption with events is there, and names their withdrawal.
EventsAgree ==
  /\ \A e \in executions : redemption[e.redemption] # Outflows!Absent
  /\ Outflows!EventsNameTheWithdrawal

OutflowsInv ==
  /\ Outflows!TypeOK
  /\ desk \in [Desks -> DeskStates]
  /\ DesksHoldRows
  /\ EventsAgree

\* What is assumed of the constants.
LEMMA OutflowsConstants ==
  /\ CreditLimit \in Nat /\ Outflows!None \notin Desks
  /\ Advances \cap Disbursements = {} /\ Advances \cap Redemptions = {} /\ Disbursements \cap Redemptions = {}
BY OutflowsAssumption DEF Outflows!LimitNat, Outflows!TablesDiffer, Outflows!NoneIsNoDesk, Outflows!None

LEMMA OutflowsTypes ==
  ASSUME OutflowsInv
  PROVE  /\ advance \in [Advances -> AdvanceRows] /\ disbursement \in [Disbursements -> DisbursementRows]
         /\ redemption \in [Redemptions -> RedemptionRows]
         /\ executions \subseteq [redemption : Redemptions, type : {"submitted", "complete"}, withdrawal : Desks]
         /\ desk \in [Desks -> DeskStates]
BY DEF OutflowsInv, Outflows!TypeOK, AdvanceRows, DisbursementRows, RedemptionRows, Amounts

LEMMA OutflowsInit == Outflows!Init => OutflowsInv
<1> SUFFICES ASSUME Outflows!Init PROVE OutflowsInv
  OBVIOUS
<1>1. desk \in [Desks -> DeskStates] /\ DesksHoldRows
  BY DEF Outflows!Init, DeskStates, DesksHoldRows, Outflows!Idle
<1>2. Outflows!TypeOK /\ EventsAgree
  BY DEF Outflows!Init, Outflows!TypeOK, EventsAgree, Outflows!EventsNameTheWithdrawal, Outflows!Idle
<1> QED BY <1>1, <1>2 DEF OutflowsInv

LEMMA RowsAreNotAbsent ==
  /\ \A s, n : [status |-> s, amount |-> n] # Outflows!Absent
  /\ \A s, n : [status |-> s, transfer |-> n] # Outflows!Absent
  /\ \A s, n : [status |-> s, withdrawal |-> n] # Outflows!Absent
BY DEF Outflows!Absent

LEMMA DeskIdle == Outflows!Idle \in DeskStates /\ Outflows!Idle.at = "idle"
BY DEF DeskStates, Outflows!Idle

\* The tables change where nobody but the transaction that ends holds the row.
LEMMA DeskMoves ==
  ASSUME OutflowsInv, NEW x \in Desks, NEW v \in DeskStates, desk' = [desk EXCEPT ![x] = v],
         advance' \in [Advances -> AdvanceRows], disbursement' \in [Disbursements -> DisbursementRows],
         redemption' \in [Redemptions -> RedemptionRows],
         executions' \subseteq [redemption : Redemptions, type : {"submitted", "complete"}, withdrawal : Desks],
         EventsAgree',
         \A y \in Desks \ {x} : desk[y].at = "locked" =>
           /\ desk[y].row \in Advances => advance'[desk[y].row] = advance[desk[y].row]
           /\ desk[y].row \in Disbursements => disbursement'[desk[y].row] = disbursement[desk[y].row]
           /\ desk[y].row \in Redemptions => redemption'[desk[y].row] = redemption[desk[y].row],
         v.at = "locked" =>
           /\ v.found # Outflows!Absent
           /\ v.row \in Advances => v.found = advance'[v.row]
           /\ v.row \in Disbursements => v.found = disbursement'[v.row]
           /\ v.row \in Redemptions => v.found = redemption'[v.row]
           /\ \A y \in Desks \ {x} : desk[y].at = "locked" => desk[y].row # v.row
  PROVE  OutflowsInv'
<1>1. desk' \in [Desks -> DeskStates] /\ desk'[x] = v /\ \A y \in Desks \ {x} : desk'[y] = desk[y]
  BY OutflowsTypes
<1>2. Outflows!TypeOK'
  <2>1. \A y \in Desks : desk'[y].at \in {"idle", "insert", "locked"}
    BY <1>1 DEF DeskStates, Outflows!Idle
  <2> QED BY <2>1 DEF Outflows!TypeOK, AdvanceRows, DisbursementRows, RedemptionRows, Amounts
<1>3. DesksHoldRows'
  <2> SUFFICES ASSUME NEW y \in Desks, desk'[y].at = "locked"
               PROVE  /\ desk'[y].found # Outflows!Absent
                      /\ desk'[y].row \in Advances => desk'[y].found = advance'[desk'[y].row]
                      /\ desk'[y].row \in Disbursements => desk'[y].found = disbursement'[desk'[y].row]
                      /\ desk'[y].row \in Redemptions => desk'[y].found = redemption'[desk'[y].row]
                      /\ \A z \in Desks \ {y} : desk'[z].at = "locked" => desk'[z].row # desk'[y].row
    BY DEF DesksHoldRows
  <2>1. CASE y = x
    BY <1>1, <2>1
  <2>2. CASE y # x
    BY <1>1, <2>2 DEF OutflowsInv, DesksHoldRows
  <2> QED BY <2>1, <2>2
<1> QED BY <1>1, <1>2, <1>3 DEF OutflowsInv

\* A row that is locked is there.
LEMMA LockedIsThere ==
  ASSUME OutflowsInv, NEW x \in Desks, desk[x].at = "locked"
  PROVE  /\ desk[x].row \in Advances => advance[desk[x].row] # Outflows!Absent
         /\ desk[x].row \in Disbursements => disbursement[desk[x].row] # Outflows!Absent
         /\ desk[x].row \in Redemptions => redemption[desk[x].row] # Outflows!Absent
BY DEF OutflowsInv, DesksHoldRows

\* A transaction ends and leaves the tables alone.
LEMMA OutflowRollBackKeeps ==
  ASSUME OutflowsInv, NEW x \in Desks, Outflows!RollBack(x)
  PROVE  OutflowsInv'
<1>1. EventsAgree'
  BY DEF Outflows!RollBack, OutflowsInv, EventsAgree, Outflows!EventsNameTheWithdrawal
<1> QED BY <1>1, OutflowsTypes, DeskIdle, DeskMoves DEF Outflows!RollBack, Outflows!Done

LEMMA OutflowLockKeeps ==
  ASSUME OutflowsInv, NEW x \in Desks, NEW held, NEW found, NEW action, Outflows!Lock(x, held, found, action),
         \/ held \in Advances /\ found = advance[held] /\ action \in {"requested", "cancelled"}
         \/ held \in Disbursements /\ found = disbursement[held] /\ action \in {"approve", "submit"}
         \/ held \in Redemptions /\ found = redemption[held] /\ action \in {"submit", "refresh-status"}
  PROVE  OutflowsInv'
<1>1. PICK v : v = [at |-> "locked", row |-> held, found |-> found, action |-> action]
  OBVIOUS
<1>2. v \in DeskStates
  BY <1>1, OutflowsTypes DEF DeskStates
<1>3. EventsAgree'
  BY DEF Outflows!Lock, OutflowsInv, EventsAgree, Outflows!EventsNameTheWithdrawal
<1>4. /\ v.at = "locked" /\ v.found # Outflows!Absent
      /\ v.row \in Advances => v.found = advance[v.row]
      /\ v.row \in Disbursements => v.found = disbursement[v.row]
      /\ v.row \in Redemptions => v.found = redemption[v.row]
      /\ \A y \in Desks \ {x} : desk[y].at = "locked" => desk[y].row # v.row
  BY <1>1, OutflowsConstants DEF Outflows!Lock, Outflows!RowFree
<1>5. desk' = [desk EXCEPT ![x] = v] /\ UNCHANGED <<advance, disbursement, redemption, executions>>
  BY <1>1 DEF Outflows!Lock
<1> QED BY <1>2, <1>3, <1>4, <1>5, OutflowsTypes, DeskMoves

LEMMA ReserveAdvanceKeeps ==
  ASSUME OutflowsInv, NEW x \in Desks, NEW a \in Advances, NEW amount \in Amounts,
         Outflows!ReserveSettlementAdvance(x, a, amount)
  PROVE  OutflowsInv'
<1>1. PICK v : v = [at |-> "insert", advance |-> a, amount |-> amount]
  OBVIOUS
<1>2. v \in DeskStates /\ v.at = "insert"
  BY <1>1 DEF DeskStates
<1>3. EventsAgree'
  BY DEF Outflows!ReserveSettlementAdvance, OutflowsInv, EventsAgree, Outflows!EventsNameTheWithdrawal
<1> QED BY <1>1, <1>2, <1>3, OutflowsTypes, DeskMoves DEF Outflows!ReserveSettlementAdvance

LEMMA InsertAdvanceKeeps ==
  ASSUME OutflowsInv, NEW x \in Desks, Outflows!InsertAdvance(x)
  PROVE  OutflowsInv'
<1>1. PICK a \in Advances, n \in Amounts : a = desk[x].advance /\ n = desk[x].amount
  BY OutflowsTypes DEF Outflows!InsertAdvance, DeskStates, Outflows!Idle
<1>2. PICK written : written = [status |-> "funds_reserved", amount |-> n]
  OBVIOUS
<1>3. written \in AdvanceRows /\ advance[a] = Outflows!Absent /\ advance' = [advance EXCEPT ![a] = written]
      /\ UNCHANGED <<disbursement, redemption, executions>> /\ desk' = [desk EXCEPT ![x] = Outflows!Idle]
  BY <1>1, <1>2 DEF AdvanceRows, Outflows!InsertAdvance, Outflows!Done
<1>4. \A y \in Desks : desk[y].at = "locked" /\ desk[y].row \in Advances => desk[y].row # a
  BY <1>3, LockedIsThere
<1>5. EventsAgree'
  BY <1>3 DEF OutflowsInv, EventsAgree, Outflows!EventsNameTheWithdrawal
<1>6. /\ advance' \in [Advances -> AdvanceRows]
      /\ \A y \in Desks : desk[y].at = "locked" /\ desk[y].row \in Advances => advance'[desk[y].row] = advance[desk[y].row]
  BY <1>3, <1>4, OutflowsTypes
<1> QED BY <1>3, <1>5, <1>6, OutflowsTypes, DeskIdle, DeskMoves

\* What a transaction that works on a row knows.
LEMMA WorkingOn ==
  ASSUME OutflowsInv, NEW x \in Desks, NEW held, Outflows!Working(x, held)
  PROVE  /\ held \in Advances =>
              desk[x].found = advance[held] /\ advance[held] # Outflows!Absent /\ desk[x].action \in {"requested", "cancelled"}
         /\ held \in Disbursements => desk[x].found = disbursement[held] /\ disbursement[held] # Outflows!Absent
         /\ held \in Redemptions => desk[x].found = redemption[held] /\ redemption[held] # Outflows!Absent
         /\ \A y \in Desks \ {x} : desk[y].at = "locked" => desk[y].row # held
<1>1. desk[x].at = "locked" /\ desk[x].row = held /\ desk[x] \in DeskStates
  BY OutflowsTypes DEF Outflows!Working
<1>2. held \in Advances => desk[x].action \in {"requested", "cancelled"}
  BY <1>1, OutflowsConstants DEF DeskStates, Outflows!Idle
<1> QED BY <1>1, <1>2 DEF OutflowsInv, DesksHoldRows

\* An advance that ends in its transition was not cancelled.
LEMMA TransitionAdvanceKeeps ==
  ASSUME OutflowsInv, NEW x \in Desks, NEW a \in Advances, Outflows!TransitionSettlementAdvance(x, a)
  PROVE  OutflowsInv' /\ advance[a].status # "cancelled"
<1>1. /\ advance[a] \in AdvanceRows \ {Outflows!Absent} /\ desk[x].action \in {"requested", "cancelled"}
      /\ advance[a].status \in {"funds_reserved", "requested"}
      /\ \A y \in Desks \ {x} : desk[y].at = "locked" => desk[y].row # a
  BY WorkingOn, OutflowsTypes DEF Outflows!TransitionSettlementAdvance
<1>2. PICK written : written = [advance[a] EXCEPT !.status = desk[x].action]
  OBVIOUS
<1>3. written \in AdvanceRows
  BY <1>1, <1>2 DEF AdvanceRows
<1>4. advance' = [advance EXCEPT ![a] = written] /\ UNCHANGED <<disbursement, redemption, executions>>
      /\ desk' = [desk EXCEPT ![x] = Outflows!Idle]
  BY <1>2, OutflowsTypes DEF Outflows!TransitionSettlementAdvance, Outflows!Done
<1>5. EventsAgree'
  BY <1>4 DEF OutflowsInv, EventsAgree, Outflows!EventsNameTheWithdrawal
<1>6. /\ advance' \in [Advances -> AdvanceRows]
      /\ \A y \in Desks \ {x} : desk[y].at = "locked" /\ desk[y].row \in Advances =>
           advance'[desk[y].row] = advance[desk[y].row]
  BY <1>1, <1>3, <1>4, OutflowsTypes
<1> QED BY <1>1, <1>4, <1>5, <1>6, OutflowsTypes, DeskIdle, DeskMoves

LEMMA CreateDisbursementKeeps ==
  ASSUME OutflowsInv, NEW d \in Disbursements, Outflows!CreateTenantDisbursement(d)
  PROVE  OutflowsInv'
<1>1. /\ disbursement[d] = Outflows!Absent /\ UNCHANGED <<advance, redemption, executions, desk>>
      /\ disbursement' \in [Disbursements -> DisbursementRows]
      /\ \A f \in Disbursements \ {d} : disbursement'[f] = disbursement[f]
  <2>1. [status |-> "draft", transfer |-> Outflows!None] \in DisbursementRows
    BY DEF DisbursementRows
  <2> QED BY <2>1, OutflowsTypes DEF Outflows!CreateTenantDisbursement
<1>2. \A y \in Desks : desk[y].at = "locked" /\ desk[y].row \in Disbursements => desk[y].row # d
  BY <1>1, LockedIsThere
<1>3. Outflows!TypeOK' /\ desk' \in [Desks -> DeskStates]
  BY <1>1 DEF OutflowsInv, Outflows!TypeOK, DisbursementRows
<1>4. DesksHoldRows' /\ EventsAgree'
  BY <1>1, <1>2 DEF OutflowsInv, DesksHoldRows, EventsAgree, Outflows!EventsNameTheWithdrawal
<1> QED BY <1>3, <1>4 DEF OutflowsInv

\* A disbursement stays submitted once it is.
LEMMA TransitionDisbursementKeeps ==
  ASSUME OutflowsInv, NEW x \in Desks, NEW d \in Disbursements,
         \/ Outflows!ApproveDisbursement(x, d)
         \/ \E transfer \in {"given", "simulated"} : Outflows!SubmitDisbursement(x, d, transfer)
  PROVE  OutflowsInv' /\ (disbursement[d].status = "submitted" => disbursement'[d].status = "submitted")
<1>1. /\ Outflows!Working(x, d)
      /\ UNCHANGED <<advance, redemption, executions>> /\ desk' = [desk EXCEPT ![x] = Outflows!Idle]
  BY DEF Outflows!ApproveDisbursement, Outflows!SubmitDisbursement, Outflows!Done
<1>2. /\ desk[x].found = disbursement[d] /\ disbursement[d] \in DisbursementRows \ {Outflows!Absent}
      /\ \A y \in Desks \ {x} : desk[y].at = "locked" => desk[y].row # d
  BY <1>1, WorkingOn, OutflowsTypes
<1>3. PICK written \in DisbursementRows :
        /\ disbursement' = [disbursement EXCEPT ![d] = written]
        /\ disbursement[d].status = "submitted" => written.status = "submitted"
  <2>1. CASE Outflows!ApproveDisbursement(x, d)
    <3>1. PICK written : written = [disbursement[d] EXCEPT !.status = "approved"]
      OBVIOUS
    <3>2. written \in DisbursementRows
      BY <1>2, <3>1 DEF DisbursementRows
    <3>3. disbursement' = [disbursement EXCEPT ![d] = written] /\ disbursement[d].status # "submitted"
      BY <1>2, <2>1, <3>1, OutflowsTypes DEF Outflows!ApproveDisbursement
    <3> QED BY <3>2, <3>3
  <2>2. ASSUME NEW transfer \in {"given", "simulated"}, Outflows!SubmitDisbursement(x, d, transfer)
        PROVE  \E written \in DisbursementRows :
                 disbursement' = [disbursement EXCEPT ![d] = written] /\ written.status = "submitted"
    <3>1. PICK written : written = [status |-> "submitted", transfer |-> transfer]
      OBVIOUS
    <3>2. written \in DisbursementRows /\ written.status = "submitted"
      BY <3>1 DEF DisbursementRows
    <3> QED BY <2>2, <3>1, <3>2 DEF Outflows!SubmitDisbursement
  <2> QED BY <2>1, <2>2
<1>4. EventsAgree'
  BY <1>1 DEF OutflowsInv, EventsAgree, Outflows!EventsNameTheWithdrawal
<1>5. /\ disbursement' \in [Disbursements -> DisbursementRows] /\ disbursement'[d] = written
      /\ \A y \in Desks \ {x} : desk[y].at = "locked" /\ desk[y].row \in Disbursements =>
           disbursement'[desk[y].row] = disbursement[desk[y].row]
  BY <1>2, <1>3, OutflowsTypes
<1> QED BY <1>1, <1>3, <1>4, <1>5, OutflowsTypes, DeskIdle, DeskMoves

LEMMA CreateRedemptionKeeps ==
  ASSUME OutflowsInv, NEW r \in Redemptions, Outflows!CreateFiatRedemption(r)
  PROVE  OutflowsInv'
<1>1. /\ redemption[r] = Outflows!Absent /\ UNCHANGED <<advance, disbursement, executions, desk>>
      /\ redemption' \in [Redemptions -> RedemptionRows]
      /\ redemption'[r].withdrawal = Outflows!None
      /\ \A q \in Redemptions \ {r} : redemption'[q] = redemption[q]
  <2>1. [status |-> "created", withdrawal |-> Outflows!None] \in RedemptionRows
    BY DEF RedemptionRows
  <2> QED BY <2>1, OutflowsTypes DEF Outflows!CreateFiatRedemption
<1>2. \A y \in Desks : desk[y].at = "locked" /\ desk[y].row \in Redemptions => desk[y].row # r
  BY <1>1, LockedIsThere
<1>3. Outflows!TypeOK' /\ desk' \in [Desks -> DeskStates]
  BY <1>1 DEF OutflowsInv, Outflows!TypeOK, RedemptionRows
<1>4. \A e \in executions : e.redemption # r
  BY <1>1 DEF OutflowsInv, EventsAgree
<1>5. DesksHoldRows' /\ EventsAgree'
  BY <1>1, <1>2, <1>4, OutflowsTypes DEF OutflowsInv, DesksHoldRows, EventsAgree, Outflows!EventsNameTheWithdrawal
<1> QED BY <1>3, <1>5 DEF OutflowsInv

\* A redemption keeps the withdrawal it names; the first transition names one.
LEMMA TransitionRedemptionKeeps ==
  ASSUME OutflowsInv, NEW x \in Desks, NEW r \in Redemptions, Outflows!TransitionFiatRedemption(x, r)
  PROVE  OutflowsInv'
<1>1. /\ desk[x].found = redemption[r] /\ redemption[r] \in RedemptionRows \ {Outflows!Absent}
      /\ \A y \in Desks \ {x} : desk[y].at = "locked" => desk[y].row # r
  BY WorkingOn, OutflowsTypes DEF Outflows!TransitionFiatRedemption
<1>2. PICK next \in {"submitted", "complete"}, withdrawal \in Desks :
        /\ redemption[r].withdrawal # Outflows!None => withdrawal = redemption[r].withdrawal
        /\ redemption' = [redemption EXCEPT ![r] = [status |-> next, withdrawal |-> withdrawal]]
        /\ executions' = executions \cup {[redemption |-> r, type |-> next, withdrawal |-> withdrawal]}
  <2>1. PICK next \in {"submitted", "complete"} :
          next = IF desk[x].action = "refresh-status" THEN "complete" ELSE "submitted"
    OBVIOUS
  <2>2. PICK withdrawal : withdrawal = IF redemption[r].withdrawal # Outflows!None THEN redemption[r].withdrawal ELSE x
    OBVIOUS
  <2>3. withdrawal \in Desks /\ (redemption[r].withdrawal # Outflows!None => withdrawal = redemption[r].withdrawal)
    BY <1>1, <2>2 DEF RedemptionRows
  <2>4. executions' = executions \cup {[redemption |-> r, type |-> next, withdrawal |-> withdrawal]}
    BY <1>1, <2>1, <2>2 DEF Outflows!TransitionFiatRedemption
  <2>5. redemption' = [redemption EXCEPT ![r] = [status |-> next, withdrawal |-> withdrawal]]
    BY <1>1, <2>1, <2>2, <2>3, OutflowsTypes DEF Outflows!TransitionFiatRedemption
  <2> QED BY <2>3, <2>4, <2>5
<1>3. PICK written : written = [status |-> next, withdrawal |-> withdrawal]
  OBVIOUS
<1>4. written \in RedemptionRows /\ written # Outflows!Absent /\ written.withdrawal = withdrawal
  BY <1>3, RowsAreNotAbsent DEF RedemptionRows
<1>5. PICK event : event = [redemption |-> r, type |-> next, withdrawal |-> withdrawal]
  OBVIOUS
<1>6. /\ redemption' \in [Redemptions -> RedemptionRows] /\ redemption'[r] = written
      /\ \A q \in Redemptions \ {r} : redemption'[q] = redemption[q]
      /\ executions' = executions \cup {event} /\ event.redemption = r /\ event.withdrawal = withdrawal
      /\ event \in [redemption : Redemptions, type : {"submitted", "complete"}, withdrawal : Desks]
  BY <1>2, <1>3, <1>4, <1>5, OutflowsTypes
<1>7. EventsAgree'
  <2> SUFFICES ASSUME NEW e \in executions'
               PROVE  redemption'[e.redemption] # Outflows!Absent /\ redemption'[e.redemption].withdrawal = e.withdrawal
    BY DEF EventsAgree, Outflows!EventsNameTheWithdrawal
  <2>1. CASE e = event
    BY <1>4, <1>6, <2>1
  <2>2. CASE e \in executions
    <3>1. redemption[e.redemption] # Outflows!Absent /\ redemption[e.redemption].withdrawal = e.withdrawal
          /\ e.redemption \in Redemptions /\ e.withdrawal \in Desks
      BY <2>2, OutflowsTypes DEF OutflowsInv, EventsAgree, Outflows!EventsNameTheWithdrawal
    <3>2. CASE e.redemption = r
      BY <1>2, <1>4, <1>6, <3>1, <3>2, OutflowsConstants
    <3>3. CASE e.redemption # r
      BY <1>6, <3>1, <3>3
    <3> QED BY <3>2, <3>3
  <2> QED BY <1>6, <2>1, <2>2
<1>8. UNCHANGED <<advance, disbursement>> /\ desk' = [desk EXCEPT ![x] = Outflows!Idle]
  BY DEF Outflows!TransitionFiatRedemption, Outflows!Done
<1>9. \A y \in Desks \ {x} : desk[y].at = "locked" /\ desk[y].row \in Redemptions =>
        redemption'[desk[y].row] = redemption[desk[y].row]
  BY <1>1, <1>6
<1>10. executions' \subseteq [redemption : Redemptions, type : {"submitted", "complete"}, withdrawal : Desks]
  BY <1>6, OutflowsTypes
<1> QED BY <1>6, <1>7, <1>8, <1>9, <1>10, OutflowsTypes, DeskIdle, DeskMoves

\* A step that leaves the tables alone, or ends in one of the transitions.
LEMMA OutflowsKeep ==
  ASSUME OutflowsInv, [Outflows!Next]_outflowVars
  PROVE  OutflowsInv'
<1>1. CASE UNCHANGED outflowVars
  BY <1>1 DEF outflowVars, OutflowsInv, Outflows!TypeOK, DesksHoldRows, EventsAgree, Outflows!EventsNameTheWithdrawal
<1>2. ASSUME NEW d \in Disbursements, Outflows!CreateTenantDisbursement(d) PROVE OutflowsInv'
  BY <1>2, CreateDisbursementKeeps
<1>3. ASSUME NEW r \in Redemptions, Outflows!CreateFiatRedemption(r) PROVE OutflowsInv'
  BY <1>3, CreateRedemptionKeeps
<1>4. ASSUME NEW x \in Desks, Outflows!RollBack(x) \/ Outflows!InsertAdvance(x) PROVE OutflowsInv'
  BY <1>4, OutflowRollBackKeeps, InsertAdvanceKeeps
<1>5. ASSUME NEW x \in Desks, NEW a \in Advances,
             \/ \E amount \in Amounts : Outflows!ReserveSettlementAdvance(x, a, amount)
             \/ \E action \in {"requested", "cancelled"} : Outflows!Lock(x, a, advance[a], action)
             \/ Outflows!TransitionSettlementAdvance(x, a)
      PROVE  OutflowsInv'
  BY <1>5, ReserveAdvanceKeeps, OutflowLockKeeps, TransitionAdvanceKeeps
<1>6. ASSUME NEW x \in Desks, NEW d \in Disbursements,
             \/ \E action \in {"approve", "submit"} : Outflows!Lock(x, d, disbursement[d], action)
             \/ Outflows!ApproveDisbursement(x, d)
             \/ \E transfer \in {"given", "simulated"} : Outflows!SubmitDisbursement(x, d, transfer)
      PROVE  OutflowsInv'
  BY <1>6, OutflowLockKeeps, TransitionDisbursementKeeps
<1>7. ASSUME NEW x \in Desks, NEW r \in Redemptions,
             \/ \E action \in {"submit", "refresh-status"} : Outflows!Lock(x, r, redemption[r], action)
             \/ Outflows!TransitionFiatRedemption(x, r)
      PROVE  OutflowsInv'
  BY <1>7, OutflowLockKeeps, TransitionRedemptionKeeps
<1> QED BY <1>1, <1>2, <1>3, <1>4, <1>5, <1>6, <1>7 DEF Outflows!Next, Amounts

\* What was submitted or cancelled stays so.
LEMMA OutflowStepsUndoNothing ==
  ASSUME OutflowsInv, [Outflows!Next]_outflowVars
  PROVE  /\ \A d \in Disbursements : disbursement[d].status = "submitted" => disbursement'[d].status = "submitted"
         /\ \A a \in Advances : advance[a].status = "cancelled" => advance'[a] = advance[a]
<1>0. Outflows!Absent.status = "absent" /\ disbursement \in [Disbursements -> DisbursementRows]
      /\ advance \in [Advances -> AdvanceRows]
  BY OutflowsTypes DEF Outflows!Absent
<1>1. CASE UNCHANGED <<advance, disbursement>>
  BY <1>1
<1>2. ASSUME NEW d \in Disbursements, Outflows!CreateTenantDisbursement(d)
      PROVE  advance' = advance /\ \A c \in Disbursements : disbursement[c].status = "submitted" => disbursement'[c] = disbursement[c]
  BY <1>0, <1>2 DEF Outflows!CreateTenantDisbursement
<1>3. ASSUME NEW x \in Desks, Outflows!InsertAdvance(x)
      PROVE  disbursement' = disbursement /\ \A a \in Advances : advance[a].status = "cancelled" => advance'[a] = advance[a]
  BY <1>0, <1>3 DEF Outflows!InsertAdvance
<1>4. ASSUME NEW x \in Desks, NEW a \in Advances, Outflows!TransitionSettlementAdvance(x, a)
      PROVE  disbursement' = disbursement /\ \A b \in Advances : advance[b].status = "cancelled" => advance'[b] = advance[b]
  <2>1. advance[a].status # "cancelled"
    BY <1>4, TransitionAdvanceKeeps
  <2> QED BY <1>0, <1>4, <2>1 DEF Outflows!TransitionSettlementAdvance
<1>5. ASSUME NEW x \in Desks, NEW d \in Disbursements,
             \/ Outflows!ApproveDisbursement(x, d)
             \/ \E transfer \in {"given", "simulated"} : Outflows!SubmitDisbursement(x, d, transfer)
      PROVE  advance' = advance /\ \A c \in Disbursements : disbursement[c].status = "submitted" => disbursement'[c].status = "submitted"
  <2>1. disbursement[d].status = "submitted" => disbursement'[d].status = "submitted"
    BY <1>5, TransitionDisbursementKeeps
  <2>2. advance' = advance /\ \A c \in Disbursements \ {d} : disbursement'[c] = disbursement[c]
    BY <1>0, <1>5 DEF Outflows!ApproveDisbursement, Outflows!SubmitDisbursement
  <2> QED BY <2>1, <2>2
<1>6. \/ UNCHANGED <<advance, disbursement>>
      \/ \E d \in Disbursements : Outflows!CreateTenantDisbursement(d)
      \/ \E x \in Desks : Outflows!InsertAdvance(x)
      \/ \E x \in Desks, a \in Advances : Outflows!TransitionSettlementAdvance(x, a)
      \/ \E x \in Desks, d \in Disbursements :
           \/ Outflows!ApproveDisbursement(x, d)
           \/ \E transfer \in {"given", "simulated"} : Outflows!SubmitDisbursement(x, d, transfer)
  BY DEF Outflows!Next, outflowVars, Outflows!CreateFiatRedemption, Outflows!RollBack, Outflows!ReserveSettlementAdvance,
         Outflows!Lock, Outflows!TransitionFiatRedemption
<1> QED BY <1>1, <1>2, <1>3, <1>4, <1>5, <1>6

-----------------------------------------------------------------------------
(* RouteSelection *)

\* The bindings routing may take, and the second leg it plans with one.
Candidates(type, links) == {b \in catalogue : Routes!RouteBindingMatches(b, type, links)}
Choices(type, override, links) ==
  IF override = 0 THEN Routes!First(Candidates(type, links))
  ELSE {c \in Candidates(type, links) : c.route = override}
SecondLeg(b, links) == IF Routes!RequiresMultiLegs(b) THEN Routes!ResolvedSecondLeg(b, links) ELSE {}

\* The row of a decision is what routing the instruction with its override and
\* its links leads to, whenever that is done.
DecidedByRule ==
  decision # Routes!NoDecision =>
    /\ instruction.type # "none"
    /\ \E b \in Choices(instruction.type, decision.override, decision.links) :
         decision = [override |-> decision.override, links |-> decision.links,
                     route |-> b.route, legs |-> SecondLeg(b, decision.links)]
    /\ decision.legs \subseteq decision.links /\ instruction.legs = decision.legs

RoutingInv ==
  /\ catalogue \subseteq Bindings
  /\ destination \subseteq Routes!Links
  /\ instruction \in [type : Routes!Types, legs : SUBSET Routes!Links] \cup {Routes!NoInstruction}
  /\ decision.override \in {0, decision.route} /\ decision.links \subseteq Routes!Links
  /\ DecidedByRule

LEMMA BindingTypes ==
  /\ \A b \in Bindings : b.priority \in Nat /\ b.quality \in Nat /\ b.profile \in Nat /\ b.route \in Nat
  /\ \A a, b \in Bindings : a.route = b.route => a = b
BY BindingsKnown DEF Routes!BindingsAssumption

\* Of two bindings one comes before the other.
LEMMA OrderIsTotal ==
  ASSUME NEW a \in Bindings, NEW b \in Bindings, a # b
  PROVE  Routes!Before(a, b) \/ Routes!Before(b, a)
<1>1. /\ a.priority \in Nat /\ b.priority \in Nat /\ a.quality \in Nat /\ b.quality \in Nat
      /\ a.profile \in Nat /\ b.profile \in Nat /\ a.route \in Nat /\ b.route \in Nat /\ a.route # b.route
  BY BindingTypes
<1>2. Routes!Score(a) \in Nat /\ Routes!Score(b) \in Nat
  BY <1>1 DEF Routes!Score
<1> QED BY <1>1, <1>2 DEF Routes!Before, Routes!UpToProfile

\* At most one binding can be chosen.
LEMMA ChoiceIsOne ==
  ASSUME RoutingInv, NEW type, NEW override, NEW links,
         NEW a \in Choices(type, override, links), NEW b \in Choices(type, override, links)
  PROVE  a = b
<1>1. a \in Bindings /\ b \in Bindings /\ a \in Candidates(type, links) /\ b \in Candidates(type, links)
  BY DEF RoutingInv, Choices, Candidates, Routes!First
<1>2. CASE override = 0
  BY <1>1, <1>2, OrderIsTotal DEF Choices, Routes!First
<1>3. CASE override # 0
  BY <1>1, <1>3, BindingTypes DEF Choices
<1> QED BY <1>2, <1>3

\* A second leg goes to an instrument that is linked.
LEMMA SecondLegIsOfLinks ==
  ASSUME NEW b, NEW links
  PROVE  SecondLeg(b, links) \subseteq links
BY DEF SecondLeg, Routes!ResolvedSecondLeg, Routes!SelectorMatches

LEMMA RoutingInit == Routes!Init => RoutingInv
BY DEF Routes!Init, RoutingInv, DecidedByRule, Routes!NoDecision

\* What routing does.
LEMMA RoutingDecides ==
  ASSUME RoutingInv, NEW override \in {0} \cup {b.route : b \in catalogue}, Routes!RouteInstruction(override)
  PROVE  /\ instruction.type # "none" /\ instruction' = [instruction EXCEPT !.legs = decision'.legs]
         /\ UNCHANGED <<catalogue, destination>>
         /\ \E b \in Choices(instruction.type, override, destination) :
              decision' = [override |-> override, links |-> destination,
                           route |-> b.route, legs |-> SecondLeg(b, destination)]
<1>1. PICK b \in Choices(instruction.type, override, destination) :
        /\ instruction' = [instruction EXCEPT !.legs = SecondLeg(b, destination)]
        /\ decision' = [override |-> override, links |-> destination,
                        route |-> b.route, legs |-> SecondLeg(b, destination)]
  BY DEF Routes!RouteInstruction, Choices, Candidates, SecondLeg
<1>2. instruction.type # "none"
  BY DEF Routes!RouteInstruction, RoutingInv, Routes!Types
<1> QED BY <1>1, <1>2 DEF Routes!RouteInstruction

LEMMA RoutingKeeps ==
  ASSUME RoutingInv, [Routes!Next]_routingVars
  PROVE  RoutingInv'
<1>1. CASE UNCHANGED routingVars
  BY <1>1 DEF routingVars, RoutingInv, DecidedByRule, Choices, Candidates
<1>2. ASSUME NEW type \in Routes!Types, NEW intent \in Routes!Intents, NEW source, Routes!CreateInstruction(type, intent, source)
      PROVE  RoutingInv'
  <2>1. decision = Routes!NoDecision
    BY <1>2 DEF Routes!CreateInstruction, RoutingInv, DecidedByRule, Routes!NoInstruction
  <2>2. instruction' \in [type : Routes!Types, legs : SUBSET Routes!Links]
    BY <1>2 DEF Routes!CreateInstruction, Routes!PlannedSecondLeg, Routes!Intents, Routes!Links
  <2> QED BY <1>2, <2>1, <2>2 DEF Routes!CreateInstruction, RoutingInv, DecidedByRule
<1>3. ASSUME NEW override \in {0} \cup {b.route : b \in catalogue}, Routes!RouteInstruction(override)
      PROVE  RoutingInv'
  <2>1. PICK b \in Choices(instruction.type, override, destination) :
          decision' = [override |-> override, links |-> destination,
                       route |-> b.route, legs |-> SecondLeg(b, destination)]
    BY <1>3, RoutingDecides
  <2>2. /\ instruction.type # "none" /\ instruction' = [instruction EXCEPT !.legs = decision'.legs]
        /\ UNCHANGED <<catalogue, destination>>
    BY <1>3, RoutingDecides
  <2>3. decision'.legs \subseteq destination /\ destination \subseteq Routes!Links
    BY <2>1, SecondLegIsOfLinks DEF RoutingInv
  <2>4. /\ instruction' \in [type : Routes!Types, legs : SUBSET Routes!Links] \cup {Routes!NoInstruction}
        /\ instruction'.type = instruction.type /\ instruction'.legs = decision'.legs
    BY <2>2, <2>3 DEF RoutingInv, Routes!NoInstruction
  <2>5. decision'.override \in {0, decision'.route} /\ decision'.links \subseteq Routes!Links
    BY <2>1 DEF RoutingInv, Choices
  <2>6. DecidedByRule'
    BY <2>1, <2>2, <2>3, <2>4 DEF DecidedByRule, Choices, Candidates
  <2> QED BY <2>2, <2>4, <2>5, <2>6 DEF RoutingInv
<1>4. ASSUME NEW class \in Routes!Links, Routes!Relink(class) PROVE RoutingInv'
  BY <1>4 DEF Routes!Relink, RoutingInv, DecidedByRule, Choices, Candidates
<1> QED BY <1>1, <1>2, <1>3, <1>4 DEF Routes!Next

\* The rule leads to one row, so routing with the same override and the same
\* links leads to the row that is there.
LEMMA RoutingRepeats ==
  ASSUME RoutingInv, [Routes!Next]_routingVars, decision # Routes!NoDecision,
         decision'.override = decision.override, decision'.links = decision.links
  PROVE  decision' = decision
<1>1. CASE UNCHANGED decision
  BY <1>1
<1>2. ASSUME NEW override \in {0} \cup {b.route : b \in catalogue}, Routes!RouteInstruction(override)
      PROVE  decision' = decision
  <2>1. PICK b \in Choices(instruction.type, override, destination) :
          decision' = [override |-> override, links |-> destination,
                       route |-> b.route, legs |-> SecondLeg(b, destination)]
    BY <1>2, RoutingDecides
  <2>2. PICK c \in Choices(instruction.type, decision.override, decision.links) :
          decision = [override |-> decision.override, links |-> decision.links,
                      route |-> c.route, legs |-> SecondLeg(c, decision.links)]
    BY DEF RoutingInv, DecidedByRule
  <2>3. decision.override = override /\ decision.links = destination
    BY <2>1
  <2>4. b = c
    BY <2>1, <2>2, <2>3, ChoiceIsOne
  <2> QED BY <2>1, <2>2, <2>3, <2>4
<1> QED BY <1>1, <1>2 DEF Routes!Next, routingVars, Routes!CreateInstruction, Routes!Relink

-----------------------------------------------------------------------------
(* CircleProvisioning *)

Wallet == [wallet : ProvisionKeys, set : Provisioning!Sets, usable : BOOLEAN]
Mapping == [key : ProvisionKeys, status : {"succeeded", "failed"}, set : Provisioning!Sets,
            wallet : ProvisionKeys \cup {Provisioning!None}, accountRef : Provisioning!Sets]
Attempt == [at : {"set", "wallet", "insert"}, account : Accounts, key : ProvisionKeys, set : Provisioning!Sets,
            wallet : ProvisionKeys \cup {Provisioning!None}, accountRef : Provisioning!Sets]

\* A wallet set a command may record, as the client's set is now.
OfTheClient(set) == set \in NamedSets \/ (set # Provisioning!None /\ set = clientSet)

\* A wallet set is made only for a client without one, and no other command runs
\* until it is the client's.
AttemptsKnow ==
  \A p \in Provisioners : provisioning[p] # Provisioning!Idle =>
    /\ \A q \in Provisioners \ {p} : provisioning[q] = Provisioning!Idle
    /\ provisioning[p].at = "set" => provisioning[p].set = Provisioning!None /\ clientSet = Provisioning!None
    /\ provisioning[p].at # "set" =>
         \/ OfTheClient(provisioning[p].set)
         \/ clientSet = Provisioning!None /\ provisioning[p].set = provisioning[p].key
    /\ provisioning[p].at = "insert" => provisioning[p].wallet = provisioning[p].key

\* WalletsShareTheClientsSet, and a wallet has a set.
WalletsHaveSets ==
  \A a \in Accounts : \A n \in DOMAIN instruments[a] : OfTheClient(instruments[a][n].set)

ProvisioningInv ==
  /\ Provisioning!TypeOK
  /\ AttemptsKnow
  /\ WalletsHaveSets
  /\ Provisioning!SucceededJustWhenLinked

LEMMA SetsAreNew ==
  Provisioning!None \notin NamedSets /\ Provisioning!None \notin ProvisionKeys /\ NamedSets \cap ProvisionKeys = {}
BY ProvisioningAssumption DEF Provisioning!SetsAreNew, Provisioning!None

LEMMA ProvisioningTypes ==
  ASSUME ProvisioningInv
  PROVE  /\ strictSchema \in BOOLEAN /\ clientSet \in ProvisionKeys \cup {Provisioning!None}
         /\ instruments \in [Accounts -> Seq(Wallet)] /\ operations \in [Accounts -> Seq(Mapping)]
         /\ provisioned \subseteq ProvisionKeys /\ provisioning \in [Provisioners -> {Provisioning!Idle} \cup Attempt]
BY DEF ProvisioningInv, Provisioning!TypeOK, Wallet, Mapping, Attempt

LEMMA ProvisioningTyped ==
  ASSUME strictSchema' \in BOOLEAN, clientSet' \in ProvisionKeys \cup {Provisioning!None},
         instruments' \in [Accounts -> Seq(Wallet)], operations' \in [Accounts -> Seq(Mapping)],
         provisioned' \subseteq ProvisionKeys, provisioning' \in [Provisioners -> {Provisioning!Idle} \cup Attempt]
  PROVE  Provisioning!TypeOK'
BY DEF Provisioning!TypeOK, Wallet, Mapping, Attempt

LEMMA AttemptTypes ==
  ASSUME ProvisioningInv, NEW p \in Provisioners, provisioning[p].at # "idle"
  PROVE  provisioning[p] # Provisioning!Idle /\ provisioning[p] \in Attempt
BY ProvisioningTypes DEF Provisioning!Idle

LEMMA AttemptIsBusy == Provisioning!Idle.at = "idle" /\ \A v \in Attempt : v # Provisioning!Idle
BY DEF Provisioning!Idle, Attempt

\* A list grows by one.
LEMMA Appended ==
  ASSUME NEW S, NEW s \in Seq(S), NEW e \in S, NEW t, t = Append(s, e)
  PROVE  /\ t \in Seq(S) /\ \E last : /\ DOMAIN t = DOMAIN s \cup {last} /\ last \notin DOMAIN s /\ t[last] = e
                                      /\ \A n \in DOMAIN s : t[n] = s[n]
<1>1. PICK size \in Nat : size = Len(s) /\ DOMAIN s = 1 .. size
  OBVIOUS
<1>2. t \in Seq(S) /\ DOMAIN t = 1 .. size + 1 /\ t[size + 1] = e /\ \A n \in 1 .. size : t[n] = s[n]
  BY <1>1
<1>3. 1 .. size + 1 = (1 .. size) \cup {size + 1} /\ size + 1 \notin 1 .. size
  BY <1>1
<1> QED BY <1>1, <1>2, <1>3

LEMMA ProvisioningInit == Provisioning!Init => ProvisioningInv
<1> SUFFICES ASSUME Provisioning!Init PROVE ProvisioningInv
  OBVIOUS
<1>1. /\ \A a \in Accounts : instruments[a] = <<>> /\ operations[a] = <<>>
      /\ \A p \in Provisioners : provisioning[p] = Provisioning!Idle
  BY DEF Provisioning!Init
<1>2. Provisioning!TypeOK
  BY DEF Provisioning!Init, Provisioning!TypeOK
<1>3. AttemptsKnow /\ WalletsHaveSets
  BY <1>1 DEF AttemptsKnow, WalletsHaveSets
<1>4. Provisioning!SucceededJustWhenLinked
  BY <1>1 DEF Provisioning!SucceededJustWhenLinked, Provisioning!Succeeded
<1> QED BY <1>2, <1>3, <1>4 DEF ProvisioningInv

\* What holds of the rows alone, while nothing is written.
LEMMA RowsStay ==
  ASSUME ProvisioningInv, UNCHANGED <<clientSet, instruments, operations>>
  PROVE  WalletsHaveSets' /\ Provisioning!SucceededJustWhenLinked'
<1>1. \A set : OfTheClient(set)' <=> OfTheClient(set)
  BY DEF OfTheClient
<1>2. WalletsHaveSets'
  BY <1>1 DEF ProvisioningInv, WalletsHaveSets
<1>3. \A a : Provisioning!Succeeded(a)' = Provisioning!Succeeded(a)
  BY DEF Provisioning!Succeeded
<1>4. SUFFICES ASSUME NEW a \in Accounts
               PROVE  {operations[a][n].wallet : n \in Provisioning!Succeeded(a)}'
                        = {instruments[a][n].wallet : n \in DOMAIN instruments[a]}'
  BY <1>2 DEF Provisioning!SucceededJustWhenLinked
<1>5. {operations[a][n].wallet : n \in Provisioning!Succeeded(a)}
        = {instruments[a][n].wallet : n \in DOMAIN instruments[a]}
  BY DEF ProvisioningInv, Provisioning!SucceededJustWhenLinked
<1> QED BY <1>3, <1>5

\* One command moves on, alone, and writes nothing.
LEMMA AttemptMoves ==
  ASSUME ProvisioningInv, NEW p \in Provisioners, NEW v \in Attempt, provisioning' = [provisioning EXCEPT ![p] = v],
         UNCHANGED <<strictSchema, clientSet, instruments, operations, provisioned>>,
         \A q \in Provisioners \ {p} : provisioning[q] = Provisioning!Idle,
         v.at = "set" => v.set = Provisioning!None /\ clientSet = Provisioning!None,
         v.at # "set" => OfTheClient(v.set) \/ (clientSet = Provisioning!None /\ v.set = v.key),
         v.at = "insert" => v.wallet = v.key
  PROVE  ProvisioningInv'
<1>1. /\ provisioning' \in [Provisioners -> {Provisioning!Idle} \cup Attempt] /\ provisioning'[p] = v
      /\ \A q \in Provisioners \ {p} : provisioning'[q] = Provisioning!Idle
  BY ProvisioningTypes
<1>2. Provisioning!TypeOK'
  BY <1>1, ProvisioningTypes, ProvisioningTyped
<1>3. AttemptsKnow'
  BY <1>1 DEF AttemptsKnow, OfTheClient
<1>4. WalletsHaveSets' /\ Provisioning!SucceededJustWhenLinked'
  BY RowsStay
<1> QED BY <1>2, <1>3, <1>4 DEF ProvisioningInv

\* What is written when no command is under way any more.
LEMMA AttemptEnds ==
  ASSUME ProvisioningInv, UNCHANGED strictSchema, clientSet' \in ProvisionKeys \cup {Provisioning!None},
         instruments' \in [Accounts -> Seq(Wallet)], operations' \in [Accounts -> Seq(Mapping)],
         provisioned' \subseteq ProvisionKeys, WalletsHaveSets', Provisioning!SucceededJustWhenLinked',
         provisioning' \in [Provisioners -> {Provisioning!Idle} \cup Attempt],
         \A q \in Provisioners : provisioning'[q] = Provisioning!Idle
  PROVE  ProvisioningInv'
<1>1. Provisioning!TypeOK'
  BY ProvisioningTypes, ProvisioningTyped
<1>2. AttemptsKnow'
  BY DEF AttemptsKnow
<1> QED BY <1>1, <1>2 DEF ProvisioningInv

\* The transaction ends and keeps nothing.
LEMMA LoseKeeps ==
  ASSUME ProvisioningInv, NEW p \in Provisioners, provisioning[p] # Provisioning!Idle,
         provisioning' = [provisioning EXCEPT ![p] = Provisioning!Idle],
         UNCHANGED <<strictSchema, clientSet, instruments, operations, provisioned>>
  PROVE  ProvisioningInv'
<1>1. \A q \in Provisioners : provisioning'[q] = Provisioning!Idle
  BY ProvisioningTypes DEF ProvisioningInv, AttemptsKnow
<1>2. provisioning' \in [Provisioners -> {Provisioning!Idle} \cup Attempt]
  BY ProvisioningTypes
<1>3. WalletsHaveSets' /\ Provisioning!SucceededJustWhenLinked'
  BY RowsStay
<1> QED BY <1>1, <1>2, <1>3, ProvisioningTypes, AttemptEnds

\* The wallets of an account when a list grows.
LEMMA LinkedGrows ==
  ASSUME ProvisioningInv, NEW a \in Accounts, NEW i \in Wallet, instruments' = [instruments EXCEPT ![a] = Append(@, i)]
  PROVE  /\ instruments' \in [Accounts -> Seq(Wallet)]
         /\ \A b \in Accounts \ {a} : instruments'[b] = instruments[b]
         /\ {instruments'[a][n].wallet : n \in DOMAIN instruments'[a]}
              = {instruments[a][n].wallet : n \in DOMAIN instruments[a]} \cup {i.wallet}
         /\ \A n \in DOMAIN instruments'[a] : instruments'[a][n] = i \/ \E m \in DOMAIN instruments[a] : instruments'[a][n] = instruments[a][m]
<1>1. instruments[a] \in Seq(Wallet) /\ instruments'[a] = Append(instruments[a], i)
      /\ \A b \in Accounts \ {a} : instruments'[b] = instruments[b]
  BY ProvisioningTypes
<1>2. PICK last : /\ DOMAIN instruments'[a] = DOMAIN instruments[a] \cup {last} /\ last \notin DOMAIN instruments[a]
                  /\ instruments'[a][last] = i /\ \A n \in DOMAIN instruments[a] : instruments'[a][n] = instruments[a][n]
  BY <1>1, Appended
<1>3. instruments'[a] \in Seq(Wallet)
  BY <1>1, Appended
<1>4. instruments' \in [Accounts -> Seq(Wallet)]
  BY <1>1, <1>3, ProvisioningTypes
<1>5. {instruments'[a][n].wallet : n \in DOMAIN instruments'[a]}
              = {instruments[a][n].wallet : n \in DOMAIN instruments[a]} \cup {i.wallet}
  BY <1>2
<1>6. \A n \in DOMAIN instruments'[a] : instruments'[a][n] = i \/ \E m \in DOMAIN instruments[a] : instruments'[a][n] = instruments[a][m]
  BY <1>2
<1> QED BY <1>1, <1>4, <1>5, <1>6

LEMMA OperationsGrow ==
  ASSUME ProvisioningInv, NEW a \in Accounts, NEW o \in Mapping, operations' = [operations EXCEPT ![a] = Append(@, o)]
  PROVE  /\ operations' \in [Accounts -> Seq(Mapping)]
         /\ \A b \in Accounts \ {a} : operations'[b] = operations[b]
         /\ {operations'[a][n].wallet : n \in Provisioning!Succeeded(a)'}
              = {operations[a][n].wallet : n \in Provisioning!Succeeded(a)}
                \cup (IF o.status = "succeeded" THEN {o.wallet} ELSE {})
<1>1. operations[a] \in Seq(Mapping) /\ operations'[a] = Append(operations[a], o)
      /\ \A b \in Accounts \ {a} : operations'[b] = operations[b]
  BY ProvisioningTypes
<1>2. PICK last : /\ DOMAIN operations'[a] = DOMAIN operations[a] \cup {last} /\ last \notin DOMAIN operations[a]
                  /\ operations'[a][last] = o /\ \A n \in DOMAIN operations[a] : operations'[a][n] = operations[a][n]
  BY <1>1, Appended
<1>3. operations'[a] \in Seq(Mapping)
  BY <1>1, Appended
<1>4. operations' \in [Accounts -> Seq(Mapping)]
  BY <1>1, <1>3, ProvisioningTypes
<1>5. Provisioning!Succeeded(a)' = Provisioning!Succeeded(a) \cup (IF o.status = "succeeded" THEN {last} ELSE {})
  BY <1>2 DEF Provisioning!Succeeded
<1>6. Provisioning!Succeeded(a) \subseteq DOMAIN operations[a]
  BY DEF Provisioning!Succeeded
<1>7. {operations'[a][n].wallet : n \in Provisioning!Succeeded(a)'}
              = {operations[a][n].wallet : n \in Provisioning!Succeeded(a)}
                \cup (IF o.status = "succeeded" THEN {o.wallet} ELSE {})
  BY <1>2, <1>5, <1>6
<1> QED BY <1>1, <1>4, <1>7

LEMMA WalletsLinked ==
  ASSUME ProvisioningInv, NEW a \in Accounts
  PROVE  /\ {operations[a][n].wallet : n \in Provisioning!Succeeded(a)}
              = {instruments[a][n].wallet : n \in DOMAIN instruments[a]}
         /\ {instruments[a][n].wallet : n \in DOMAIN instruments[a]} \subseteq ProvisionKeys
<1>1. {operations[a][n].wallet : n \in Provisioning!Succeeded(a)}
        = {instruments[a][n].wallet : n \in DOMAIN instruments[a]}
  BY DEF ProvisioningInv, Provisioning!SucceededJustWhenLinked
<1>2. instruments[a] \in Seq(Wallet)
  BY ProvisioningTypes
<1>3. \A n \in DOMAIN instruments[a] : instruments[a][n] \in Wallet
  BY <1>2
<1>4. \A i \in Wallet : i.wallet \in ProvisionKeys
  BY DEF Wallet
<1> QED BY <1>1, <1>3, <1>4

\* A wallet that is linked is of the client's set or a named one.
LEMMA LinkedHasSet ==
  ASSUME ProvisioningInv, NEW a \in Accounts, NEW i \in Wallet, instruments' = [instruments EXCEPT ![a] = Append(@, i)],
         OfTheClient(i.set)', clientSet' = clientSet \/ clientSet = Provisioning!None
  PROVE  WalletsHaveSets'
<1>1. SUFFICES ASSUME NEW b \in Accounts, NEW n \in DOMAIN instruments'[b]
               PROVE  OfTheClient(instruments[b][n].set)'
  BY DEF WalletsHaveSets
<1>2. \A set : OfTheClient(set) => OfTheClient(set)'
  BY DEF OfTheClient
<1>3. instruments'[b][n] = i \/ \E m \in DOMAIN instruments[b] : instruments'[b][n] = instruments[b][m]
  BY LinkedGrows
<1>4. CASE instruments'[b][n] = i
  BY <1>4
<1>5. CASE \E m \in DOMAIN instruments[b] : instruments'[b][n] = instruments[b][m]
  <2>1. PICK m \in DOMAIN instruments[b] : instruments'[b][n] = instruments[b][m]
    BY <1>5
  <2>2. OfTheClient(instruments[b][m].set)
    BY DEF ProvisioningInv, WalletsHaveSets
  <2> QED BY <1>2, <2>1, <2>2
<1> QED BY <1>3, <1>4, <1>5

LEMMA StartKeeps ==
  ASSUME ProvisioningInv, NEW p \in Provisioners, NEW a \in Accounts, NEW k \in ProvisionKeys,
         NEW named \in NamedSets \cup {Provisioning!None}, Provisioning!Start(p, a, k, named)
  PROVE  ProvisioningInv'
<1> DEFINE wanted == IF named # Provisioning!None THEN named ELSE clientSet
<1>1. /\ provisioning[p] = Provisioning!Idle /\ \A q \in Provisioners \ {p} : provisioning[q] = Provisioning!Idle
      /\ UNCHANGED <<strictSchema, clientSet, operations>>
  BY DEF Provisioning!Start, Provisioning!RowsFree
<1>2. wanted \in Provisioning!Sets /\ (wanted # Provisioning!None => OfTheClient(wanted))
      /\ (wanted = Provisioning!None => clientSet = Provisioning!None)
  BY ProvisioningTypes DEF Provisioning!Sets, OfTheClient
<1>3. CASE /\ provisioned' \in SUBSET ProvisionKeys /\ UNCHANGED <<instruments, provisioning>>
  <2>1. WalletsHaveSets' /\ Provisioning!SucceededJustWhenLinked'
    BY <1>1, <1>3, RowsStay
  <2> QED BY <1>1, <1>3, <2>1, ProvisioningTypes, AttemptEnds
<1>4. CASE \E o \in Provisioning!SuccessfulOperation(a, wanted) :
             /\ instruments' = [instruments EXCEPT ![a] = Append(@,
                  Provisioning!Instrument(o.wallet, IF clientSet # Provisioning!None THEN clientSet ELSE o.accountRef))]
             /\ provisioned' = provisioned \cup {k}
             /\ UNCHANGED provisioning
  <2>1. PICK o \in Provisioning!SuccessfulOperation(a, wanted) :
             /\ instruments' = [instruments EXCEPT ![a] = Append(@,
                  Provisioning!Instrument(o.wallet, IF clientSet # Provisioning!None THEN clientSet ELSE o.accountRef))]
             /\ provisioned' = provisioned \cup {k}
             /\ UNCHANGED provisioning
    BY <1>4
  <2>s. PICK set : set = IF clientSet # Provisioning!None THEN clientSet ELSE o.accountRef
    OBVIOUS
  <2>i. PICK i : i = Provisioning!Instrument(o.wallet, set)
    OBVIOUS
  <2>2. /\ o.accountRef = wanted /\ wanted # Provisioning!None
        /\ \E n \in Provisioning!Succeeded(a) : o = operations[a][n]
    BY DEF Provisioning!SuccessfulOperation, Provisioning!Newest
  <2>3. o.wallet \in {operations[a][n].wallet : n \in Provisioning!Succeeded(a)}
    BY <2>2
  <2>4. o.wallet \in {instruments[a][n].wallet : n \in DOMAIN instruments[a]} /\ o.wallet \in ProvisionKeys
    BY <2>3, WalletsLinked
  <2>5. OfTheClient(set)' /\ set \in Provisioning!Sets
    BY <1>1, <1>2, <2>2, <2>s, ProvisioningTypes DEF OfTheClient, Provisioning!Sets
  <2>6. i \in Wallet /\ i.set = set /\ i.wallet = o.wallet
    BY <2>4, <2>5, <2>i DEF Provisioning!Instrument, Wallet
  <2>7. instruments' = [instruments EXCEPT ![a] = Append(@, i)]
    BY <2>1, <2>i, <2>s
  <2>8. WalletsHaveSets'
    BY <1>1, <2>5, <2>6, <2>7, LinkedHasSet
  <2>9. /\ instruments' \in [Accounts -> Seq(Wallet)] /\ \A b \in Accounts \ {a} : instruments'[b] = instruments[b]
        /\ {instruments'[a][n].wallet : n \in DOMAIN instruments'[a]}
              = {instruments[a][n].wallet : n \in DOMAIN instruments[a]} \cup {i.wallet}
    BY <2>6, <2>7, LinkedGrows
  <2>10. Provisioning!SucceededJustWhenLinked'
    <3>1. SUFFICES ASSUME NEW b \in Accounts
                   PROVE  {operations[b][n].wallet : n \in Provisioning!Succeeded(b)}'
                            = {instruments[b][n].wallet : n \in DOMAIN instruments[b]}'
      BY DEF Provisioning!SucceededJustWhenLinked
    <3>2. Provisioning!Succeeded(b)' = Provisioning!Succeeded(b)
      BY <1>1 DEF Provisioning!Succeeded
    <3>3. {operations[b][n].wallet : n \in Provisioning!Succeeded(b)}
            = {instruments[b][n].wallet : n \in DOMAIN instruments[b]}
      BY WalletsLinked
    <3>4. {operations[b][n].wallet : n \in Provisioning!Succeeded(b)}'
            = {operations[b][n].wallet : n \in Provisioning!Succeeded(b)}
      BY <1>1, <3>2
    <3>5. {instruments[b][n].wallet : n \in DOMAIN instruments[b]}'
            = {instruments[b][n].wallet : n \in DOMAIN instruments[b]}
      <4>1. CASE b = a
        <5>1. {instruments'[a][n].wallet : n \in DOMAIN instruments'[a]}
                = {instruments[a][n].wallet : n \in DOMAIN instruments[a]}
          BY <2>4, <2>6, <2>9
        <5> QED BY <4>1, <5>1
      <4>2. CASE b # a
        BY <2>9, <4>2
      <4> QED BY <4>1, <4>2
    <3> QED BY <3>3, <3>4, <3>5
  <2>11. /\ \A q \in Provisioners : provisioning'[q] = Provisioning!Idle
         /\ provisioning' \in [Provisioners -> {Provisioning!Idle} \cup Attempt]
         /\ provisioned' \subseteq ProvisionKeys /\ clientSet' \in ProvisionKeys \cup {Provisioning!None}
         /\ operations' \in [Accounts -> Seq(Mapping)] /\ UNCHANGED strictSchema
    BY <1>1, <2>1, ProvisioningTypes
  <2> QED BY <2>8, <2>9, <2>10, <2>11, AttemptEnds
<1>5. CASE /\ Provisioning!Call(p, a, k, wanted, IF wanted = Provisioning!None THEN "set" ELSE "wallet")
           /\ UNCHANGED <<instruments, provisioned>>
  <2> DEFINE at == IF wanted = Provisioning!None THEN "set" ELSE "wallet"
  <2>1. PICK v : v = [at |-> at, account |-> a, key |-> k, set |-> wanted, wallet |-> Provisioning!None,
                      accountRef |-> Provisioning!None]
    OBVIOUS
  <2>2. v.at = at /\ v.set = wanted /\ v.key = k
    BY <2>1
  <2>3. v \in Attempt
    BY <1>2, <2>1 DEF Attempt, Provisioning!Sets
  <2>4. provisioning' = [provisioning EXCEPT ![p] = v]
    BY <1>5, <2>1 DEF Provisioning!Call
  <2> HIDE DEF wanted
  <2> QED BY <1>1, <1>2, <1>5, <2>2, <2>3, <2>4, AttemptMoves
<1>6. \/ provisioned' \in SUBSET ProvisionKeys /\ UNCHANGED <<instruments, provisioning>>
      \/ \E o \in Provisioning!SuccessfulOperation(a, wanted) :
             /\ instruments' = [instruments EXCEPT ![a] = Append(@,
                  Provisioning!Instrument(o.wallet, IF clientSet # Provisioning!None THEN clientSet ELSE o.accountRef))]
             /\ provisioned' = provisioned \cup {k}
             /\ UNCHANGED provisioning
      \/ /\ Provisioning!Call(p, a, k, wanted, IF wanted = Provisioning!None THEN "set" ELSE "wallet")
         /\ UNCHANGED <<instruments, provisioned>>
  <2>1. provisioned \subseteq ProvisionKeys /\ provisioned \cup {k} \subseteq ProvisionKeys
    BY ProvisioningTypes
  <2> QED BY <2>1 DEF Provisioning!Start
<1> QED BY <1>3, <1>4, <1>5, <1>6

LEMMA MakeWalletSetKeeps ==
  ASSUME ProvisioningInv, NEW p \in Provisioners, Provisioning!MakeWalletSet(p)
  PROVE  ProvisioningInv'
<1>1. /\ provisioning[p] # Provisioning!Idle /\ provisioning[p] \in Attempt /\ provisioning[p].at = "set"
      /\ UNCHANGED <<strictSchema, clientSet, instruments, operations, provisioned>>
      /\ provisioning' = [provisioning EXCEPT ![p].at = "wallet", ![p].set = provisioning[p].key]
  BY AttemptTypes DEF Provisioning!MakeWalletSet, Provisioning!rows
<1>2. clientSet = Provisioning!None /\ \A q \in Provisioners \ {p} : provisioning[q] = Provisioning!Idle
  BY <1>1 DEF ProvisioningInv, AttemptsKnow
<1>3. PICK v : v = [provisioning[p] EXCEPT !.at = "wallet", !.set = provisioning[p].key]
  OBVIOUS
<1>4. v \in Attempt /\ v.at = "wallet" /\ v.set = v.key
  BY <1>1, <1>3 DEF Attempt, Provisioning!Sets
<1>5. provisioning' = [provisioning EXCEPT ![p] = v]
  BY <1>1, <1>3, ProvisioningTypes
<1> QED BY <1>1, <1>2, <1>4, <1>5, AttemptMoves

LEMMA MakeWalletKeeps ==
  ASSUME ProvisioningInv, NEW p \in Provisioners, Provisioning!MakeWallet(p)
  PROVE  ProvisioningInv'
<1>1. PICK ref \in {provisioning[p].key, provisioning[p].set} :
        provisioning' = [provisioning EXCEPT ![p] = [provisioning[p] EXCEPT
          !.at = "insert", !.wallet = provisioning[p].key, !.accountRef = ref]]
  BY ProvisioningTypes DEF Provisioning!MakeWallet
<1>2. /\ provisioning[p] # Provisioning!Idle /\ provisioning[p] \in Attempt /\ provisioning[p].at = "wallet"
      /\ UNCHANGED <<strictSchema, clientSet, instruments, operations, provisioned>>
  BY AttemptTypes DEF Provisioning!MakeWallet, Provisioning!rows
<1>3. /\ \A q \in Provisioners \ {p} : provisioning[q] = Provisioning!Idle
      /\ OfTheClient(provisioning[p].set) \/ (clientSet = Provisioning!None /\ provisioning[p].set = provisioning[p].key)
  BY <1>2 DEF ProvisioningInv, AttemptsKnow
<1>4. PICK v : v = [provisioning[p] EXCEPT !.at = "insert", !.wallet = provisioning[p].key, !.accountRef = ref]
  OBVIOUS
<1>5. v \in Attempt /\ v.at = "insert" /\ v.set = provisioning[p].set /\ v.wallet = v.key /\ v.key = provisioning[p].key
  BY <1>1, <1>2, <1>4 DEF Attempt, Provisioning!Sets
<1>6. provisioning' = [provisioning EXCEPT ![p] = v]
  BY <1>1, <1>4
<1> QED BY <1>2, <1>3, <1>5, <1>6, AttemptMoves

\* A transaction that records its operation: what it knows, and what it leaves.
LEMMA RecordWrites ==
  ASSUME ProvisioningInv, NEW p \in Provisioners, provisioning[p] # Provisioning!Idle,
         NEW status \in {"succeeded", "failed"}, Provisioning!Record(p, status)
  PROVE  /\ provisioning[p] \in Attempt
         /\ clientSet' \in ProvisionKeys \cup {Provisioning!None}
         /\ clientSet' = clientSet \/ clientSet = Provisioning!None
         /\ \A set : provisioning[p].at # "set" /\ set = provisioning[p].set => OfTheClient(set)'
         /\ \E o \in Mapping : /\ o.status = status /\ o.wallet = provisioning[p].wallet
                               /\ operations' = [operations EXCEPT ![provisioning[p].account] = Append(@, o)]
         /\ provisioning' \in [Provisioners -> {Provisioning!Idle} \cup Attempt]
         /\ \A q \in Provisioners : provisioning'[q] = Provisioning!Idle
<1> DEFINE t == provisioning[p]
<1>1. t \in Attempt
  BY ProvisioningTypes
<1>2. /\ operations' = [operations EXCEPT ![t.account] = Append(@, Provisioning!Operation(t, status))]
      /\ clientSet' = IF t.set = t.key THEN t.set ELSE clientSet
      /\ provisioning' = [provisioning EXCEPT ![p] = Provisioning!Idle]
  BY DEF Provisioning!Record
<1>3. /\ \A q \in Provisioners \ {p} : provisioning[q] = Provisioning!Idle
      /\ t.at = "set" => t.set = Provisioning!None /\ clientSet = Provisioning!None
      /\ t.at # "set" => OfTheClient(t.set) \/ (clientSet = Provisioning!None /\ t.set = t.key)
  BY DEF ProvisioningInv, AttemptsKnow
<1>4. t.key \in ProvisionKeys
  BY <1>1 DEF Attempt
<1>5. /\ clientSet' \in ProvisionKeys \cup {Provisioning!None}
      /\ clientSet' = clientSet \/ clientSet = Provisioning!None
      /\ \A set : t.at # "set" /\ set = t.set => OfTheClient(set)'
  BY <1>2, <1>3, <1>4, SetsAreNew, ProvisioningTypes DEF OfTheClient
<1>6. PICK o : o = Provisioning!Operation(t, status)
  OBVIOUS
<1>7. o \in Mapping /\ o.status = status /\ o.wallet = t.wallet
  BY <1>1, <1>6 DEF Provisioning!Operation, Mapping, Attempt
<1>8. provisioning' \in [Provisioners -> {Provisioning!Idle} \cup Attempt]
      /\ \A q \in Provisioners : provisioning'[q] = Provisioning!Idle
  BY <1>2, <1>3, ProvisioningTypes
<1> QED BY <1>1, <1>2, <1>5, <1>6, <1>7, <1>8

LEMMA ProviderFailsKeeps ==
  ASSUME ProvisioningInv, NEW p \in Provisioners, Provisioning!ProviderFails(p)
  PROVE  ProvisioningInv'
<1>1. /\ Provisioning!Record(p, "failed") /\ UNCHANGED <<strictSchema, instruments, provisioned>>
      /\ provisioning[p] # Provisioning!Idle
  BY AttemptTypes DEF Provisioning!ProviderFails
<1>2. /\ provisioning[p] \in Attempt
      /\ clientSet' \in ProvisionKeys \cup {Provisioning!None} /\ (clientSet' = clientSet \/ clientSet = Provisioning!None)
      /\ provisioning' \in [Provisioners -> {Provisioning!Idle} \cup Attempt]
      /\ \A q \in Provisioners : provisioning'[q] = Provisioning!Idle
  BY <1>1, RecordWrites
<1>3. PICK o \in Mapping : /\ o.status = "failed"
                           /\ operations' = [operations EXCEPT ![provisioning[p].account] = Append(@, o)]
  BY <1>1, RecordWrites
<1>4. PICK a \in Accounts : a = provisioning[p].account
  BY <1>2 DEF Attempt
<1>5. /\ operations' \in [Accounts -> Seq(Mapping)] /\ \A b \in Accounts \ {a} : operations'[b] = operations[b]
      /\ {operations'[a][n].wallet : n \in Provisioning!Succeeded(a)'}
              = {operations[a][n].wallet : n \in Provisioning!Succeeded(a)}
  BY <1>3, <1>4, OperationsGrow
<1>6. WalletsHaveSets'
  <2>1. \A set : OfTheClient(set) => OfTheClient(set)'
    BY <1>2 DEF OfTheClient
  <2> QED BY <1>1, <2>1 DEF ProvisioningInv, WalletsHaveSets
<1>7. Provisioning!SucceededJustWhenLinked'
  <2>1. SUFFICES ASSUME NEW b \in Accounts
                 PROVE  {operations[b][n].wallet : n \in Provisioning!Succeeded(b)}'
                          = {instruments[b][n].wallet : n \in DOMAIN instruments[b]}'
    BY DEF Provisioning!SucceededJustWhenLinked
  <2>2. {operations[b][n].wallet : n \in Provisioning!Succeeded(b)}
          = {instruments[b][n].wallet : n \in DOMAIN instruments[b]}
    BY WalletsLinked
  <2>3. CASE b = a
    <3>1. {operations'[a][n].wallet : n \in Provisioning!Succeeded(a)'} = {instruments'[a][n].wallet : n \in DOMAIN instruments'[a]}
      BY <1>1, <1>5, WalletsLinked
    <3> QED BY <2>3, <3>1
  <2>4. CASE b # a
    <3>1. operations'[b] = operations[b]
      BY <1>5, <2>4
    <3>2. Provisioning!Succeeded(b)' = Provisioning!Succeeded(b)
      BY <3>1 DEF Provisioning!Succeeded
    <3> QED BY <1>1, <2>2, <3>1, <3>2
  <2> QED BY <2>3, <2>4
<1>8. instruments' \in [Accounts -> Seq(Wallet)] /\ provisioned' \subseteq ProvisionKeys /\ UNCHANGED strictSchema
  BY <1>1, ProvisioningTypes
<1> QED BY <1>2, <1>5, <1>6, <1>7, <1>8, AttemptEnds

LEMMA InsertInstrumentKeeps ==
  ASSUME ProvisioningInv, NEW p \in Provisioners, Provisioning!InsertInstrument(p)
  PROVE  ProvisioningInv'
<1>1. /\ provisioning[p] # Provisioning!Idle /\ provisioning[p] \in Attempt /\ provisioning[p].at = "insert"
      /\ UNCHANGED strictSchema
  BY AttemptTypes DEF Provisioning!InsertInstrument
<1>2. CASE Provisioning!RolledBack(p) /\ UNCHANGED <<instruments, provisioned>>
  BY <1>1, <1>2, LoseKeeps DEF Provisioning!RolledBack
<1>3. CASE /\ Provisioning!Record(p, "succeeded")
           /\ instruments' = [instruments EXCEPT ![provisioning[p].account] =
                Append(@, Provisioning!Instrument(provisioning[p].wallet, provisioning[p].set))]
           /\ provisioned' = provisioned \cup {provisioning[p].key}
  <2>1. /\ clientSet' \in ProvisionKeys \cup {Provisioning!None} /\ (clientSet' = clientSet \/ clientSet = Provisioning!None)
        /\ \A set : set = provisioning[p].set => OfTheClient(set)'
        /\ provisioning' \in [Provisioners -> {Provisioning!Idle} \cup Attempt]
        /\ \A q \in Provisioners : provisioning'[q] = Provisioning!Idle
    BY <1>1, <1>3, RecordWrites
  <2>2. PICK o \in Mapping : /\ o.status = "succeeded" /\ o.wallet = provisioning[p].wallet
                             /\ operations' = [operations EXCEPT ![provisioning[p].account] = Append(@, o)]
    BY <1>1, <1>3, RecordWrites
  <2>3. PICK a \in Accounts : a = provisioning[p].account
    BY <1>1 DEF Attempt
  <2>4. provisioning[p].wallet = provisioning[p].key
    BY <1>1 DEF ProvisioningInv, AttemptsKnow
  <2>5. PICK set \in Provisioning!Sets : set = provisioning[p].set
    BY <1>1 DEF Attempt
  <2>6. OfTheClient(set)'
    BY <2>1, <2>5
  <2>7. PICK i : i = Provisioning!Instrument(o.wallet, set)
    OBVIOUS
  <2>8. i \in Wallet /\ i.set = set /\ i.wallet = o.wallet
    BY <1>1, <2>2, <2>4, <2>7 DEF Wallet, Attempt, Provisioning!Instrument
  <2>9. instruments' = [instruments EXCEPT ![a] = Append(@, i)] /\ operations' = [operations EXCEPT ![a] = Append(@, o)]
    BY <1>3, <2>2, <2>3, <2>5, <2>7
  <2>10. WalletsHaveSets'
    BY <2>1, <2>6, <2>8, <2>9, LinkedHasSet
  <2>11. /\ instruments' \in [Accounts -> Seq(Wallet)] /\ \A b \in Accounts \ {a} : instruments'[b] = instruments[b]
         /\ {instruments'[a][n].wallet : n \in DOMAIN instruments'[a]}
              = {instruments[a][n].wallet : n \in DOMAIN instruments[a]} \cup {i.wallet}
    BY <2>8, <2>9, LinkedGrows
  <2>12. /\ operations' \in [Accounts -> Seq(Mapping)] /\ \A b \in Accounts \ {a} : operations'[b] = operations[b]
         /\ {operations'[a][n].wallet : n \in Provisioning!Succeeded(a)'}
              = {operations[a][n].wallet : n \in Provisioning!Succeeded(a)} \cup {o.wallet}
    BY <2>2, <2>9, OperationsGrow
  <2>13. Provisioning!SucceededJustWhenLinked'
    <3>1. SUFFICES ASSUME NEW b \in Accounts
                   PROVE  {operations[b][n].wallet : n \in Provisioning!Succeeded(b)}'
                            = {instruments[b][n].wallet : n \in DOMAIN instruments[b]}'
      BY DEF Provisioning!SucceededJustWhenLinked
    <3>2. {operations[b][n].wallet : n \in Provisioning!Succeeded(b)}
            = {instruments[b][n].wallet : n \in DOMAIN instruments[b]}
      BY WalletsLinked
    <3>3. CASE b = a
      <4>1. {operations'[a][n].wallet : n \in Provisioning!Succeeded(a)'} = {instruments'[a][n].wallet : n \in DOMAIN instruments'[a]}
        BY <2>8, <2>11, <2>12, WalletsLinked
      <4> QED BY <3>3, <4>1
    <3>4. CASE b # a
      <4>1. operations'[b] = operations[b] /\ instruments'[b] = instruments[b]
        BY <2>11, <2>12, <3>4
      <4>2. Provisioning!Succeeded(b)' = Provisioning!Succeeded(b)
        BY <4>1 DEF Provisioning!Succeeded
      <4> QED BY <3>2, <4>1, <4>2
    <3> QED BY <3>3, <3>4
  <2>14. provisioned' \subseteq ProvisionKeys
    BY <1>1, <1>3, ProvisioningTypes DEF Attempt
  <2> QED BY <1>1, <2>1, <2>10, <2>11, <2>12, <2>13, <2>14, AttemptEnds
<1> QED BY <1>2, <1>3 DEF Provisioning!InsertInstrument

LEMMA DisableKeeps ==
  ASSUME ProvisioningInv, NEW a \in Accounts, NEW n \in DOMAIN instruments[a], Provisioning!Disable(a, n)
  PROVE  ProvisioningInv'
<1>1. /\ instruments' = [instruments EXCEPT ![a][n].usable = FALSE]
      /\ UNCHANGED <<strictSchema, clientSet, operations, provisioned, provisioning>>
  BY DEF Provisioning!Disable
<1>2. PICK size \in Nat : size = Len(instruments[a]) /\ DOMAIN instruments[a] = 1 .. size
  BY ProvisioningTypes
<1>3. instruments[a] \in Seq(Wallet) /\ \A m \in DOMAIN instruments[a] : instruments[a][m] \in Wallet
  BY ProvisioningTypes
<1>4. PICK i : i = [instruments[a][n] EXCEPT !.usable = FALSE]
  OBVIOUS
<1>5. i \in Wallet /\ i.wallet = instruments[a][n].wallet /\ i.set = instruments[a][n].set
  BY <1>3, <1>4 DEF Wallet
<1>6. PICK list : list = [instruments[a] EXCEPT ![n] = i]
  OBVIOUS
<1>7. /\ list \in Seq(Wallet) /\ DOMAIN list = DOMAIN instruments[a]
      /\ \A m \in DOMAIN instruments[a] : list[m] = IF m = n THEN i ELSE instruments[a][m]
  BY <1>3, <1>5, <1>6
<1>8. instruments' = [instruments EXCEPT ![a] = list]
  BY <1>1, <1>4, <1>6, ProvisioningTypes
<1>9. /\ instruments' \in [Accounts -> Seq(Wallet)]
      /\ \A b \in Accounts : /\ DOMAIN instruments'[b] = DOMAIN instruments[b]
                             /\ \A m \in DOMAIN instruments[b] : /\ instruments'[b][m].wallet = instruments[b][m].wallet
                                                                 /\ instruments'[b][m].set = instruments[b][m].set
  <2>1. \A b \in Accounts : instruments'[b] = IF b = a THEN list ELSE instruments[b]
    BY <1>8, ProvisioningTypes
  <2>2. instruments' \in [Accounts -> Seq(Wallet)]
    BY <1>7, <1>8, ProvisioningTypes
  <2> QED BY <1>5, <1>7, <2>1, <2>2
<1>10. WalletsHaveSets'
  <2>1. SUFFICES ASSUME NEW b \in Accounts, NEW m \in DOMAIN instruments'[b]
                 PROVE  OfTheClient(instruments[b][m].set)'
    BY DEF WalletsHaveSets
  <2>2. m \in DOMAIN instruments[b] /\ instruments'[b][m].set = instruments[b][m].set
    BY <1>9
  <2>3. OfTheClient(instruments[b][m].set)
    BY <2>2 DEF ProvisioningInv, WalletsHaveSets
  <2> QED BY <1>1, <2>2, <2>3 DEF OfTheClient
<1>11. Provisioning!SucceededJustWhenLinked'
  <2>1. SUFFICES ASSUME NEW b \in Accounts
                 PROVE  {operations[b][m].wallet : m \in Provisioning!Succeeded(b)}'
                          = {instruments[b][m].wallet : m \in DOMAIN instruments[b]}'
    BY DEF Provisioning!SucceededJustWhenLinked
  <2>2. {operations[b][m].wallet : m \in Provisioning!Succeeded(b)}
          = {instruments[b][m].wallet : m \in DOMAIN instruments[b]}
    BY WalletsLinked
  <2>3. Provisioning!Succeeded(b)' = Provisioning!Succeeded(b)
    BY <1>1 DEF Provisioning!Succeeded
  <2>4. {instruments'[b][m].wallet : m \in DOMAIN instruments'[b]} = {instruments[b][m].wallet : m \in DOMAIN instruments[b]}
    <3>1. /\ DOMAIN instruments'[b] = DOMAIN instruments[b]
          /\ \A m \in DOMAIN instruments[b] : instruments'[b][m].wallet = instruments[b][m].wallet
      BY <1>9
    <3> QED BY <3>1
  <2> QED BY <1>1, <2>2, <2>3, <2>4
<1>12. Provisioning!TypeOK'
  BY <1>1, <1>9, ProvisioningTypes, ProvisioningTyped
<1>13. AttemptsKnow'
  BY <1>1 DEF ProvisioningInv, AttemptsKnow, OfTheClient
<1> QED BY <1>10, <1>11, <1>12, <1>13 DEF ProvisioningInv

LEMMA ProvisioningKeeps ==
  ASSUME ProvisioningInv, [Provisioning!Next]_provisioningVars PROVE ProvisioningInv'
<1>1. ASSUME NEW p \in Provisioners, NEW a \in Accounts, NEW k \in ProvisionKeys,
             NEW named \in NamedSets \cup {Provisioning!None}, Provisioning!Start(p, a, k, named)
      PROVE  ProvisioningInv'
  BY <1>1, StartKeeps
<1>2. ASSUME NEW p \in Provisioners, Provisioning!MakeWalletSet(p) PROVE ProvisioningInv'
  BY <1>2, MakeWalletSetKeeps
<1>3. ASSUME NEW p \in Provisioners, Provisioning!MakeWallet(p) PROVE ProvisioningInv'
  BY <1>3, MakeWalletKeeps
<1>4. ASSUME NEW p \in Provisioners, Provisioning!ProviderFails(p) PROVE ProvisioningInv'
  BY <1>4, ProviderFailsKeeps
<1>5. ASSUME NEW p \in Provisioners, Provisioning!InsertInstrument(p) PROVE ProvisioningInv'
  BY <1>5, InsertInstrumentKeeps
<1>6. ASSUME NEW p \in Provisioners, Provisioning!Lose(p) PROVE ProvisioningInv'
  BY <1>6, LoseKeeps DEF Provisioning!Lose, Provisioning!rows
<1>7. ASSUME NEW a \in Accounts, NEW n \in DOMAIN instruments[a], Provisioning!Disable(a, n) PROVE ProvisioningInv'
  BY <1>7, DisableKeeps
<1>8. CASE UNCHANGED provisioningVars
  <2>1. UNCHANGED <<strictSchema, clientSet, instruments, operations, provisioned, provisioning>>
    BY <1>8 DEF provisioningVars
  <2>2. WalletsHaveSets' /\ Provisioning!SucceededJustWhenLinked'
    BY <2>1, RowsStay
  <2>3. Provisioning!TypeOK'
    BY <2>1, ProvisioningTypes, ProvisioningTyped
  <2>4. AttemptsKnow'
    BY <2>1 DEF ProvisioningInv, AttemptsKnow, OfTheClient
  <2> QED BY <2>2, <2>3, <2>4 DEF ProvisioningInv
<1> QED BY <1>1, <1>2, <1>3, <1>4, <1>5, <1>6, <1>7, <1>8 DEF Provisioning!Next

LEMMA WalletsAreShared ==
  ASSUME ProvisioningInv PROVE Provisioning!WalletsShareTheClientsSet /\ Provisioning!SucceededJustWhenLinked
BY DEF ProvisioningInv, WalletsHaveSets, OfTheClient, Provisioning!WalletsShareTheClientsSet

-----------------------------------------------------------------------------
(* TenantActivation *)

Wallets == (ActivationKeys \cup {Activation!None}) \X Activation!Sets
IntegrationRows == [set : Activation!Sets, wallet : Wallets]
Searching == [at : {"set", "wallet"}, key : ActivationKeys, set : Activation!Sets, found : IntegrationRows]
Writing == [at : {"upsert", "find"}, set : Activation!Sets, wallet : Wallets]
Committing == [at : {"commit"}, set : Activation!Sets, wallet : Wallets, client : Nat, makesAccount : BOOLEAN]
Activations == {Activation!Idle} \cup Searching \cup Writing \cup Committing

IsTreasury(number) == \E n \in DOMAIN treasuryClients : treasuryClients[n].number = number
NoneByActivation == \A n \in DOMAIN treasuryClients : treasuryClients[n].by # "activation"

\* The wallet an activation has found, or goes on with, is in its wallet set.
WalletsInSets ==
  /\ Activation!WalletIsInTheSet
  /\ \A x \in Activators :
       /\ activation[x] \in Searching => activation[x].found.wallet[2] = activation[x].found.set
       /\ activation[x] \in Writing \cup Committing => activation[x].wallet[2] = activation[x].set

\* One activation at a time is past its upsert, and what it has found still holds.
OneCommits ==
  \A x \in Activators : activation[x].at \in {"find", "commit"} =>
    /\ \A y \in Activators \ {x} : activation[y].at \notin {"find", "commit"}
    /\ activation[x].at = "commit" =>
         /\ IF activation[x].client = 0 THEN NoneByActivation ELSE IsTreasury(activation[x].client)
         /\ activation[x].makesAccount <=> Len(centralAccounts) = 0

\* OneTreasury without its cardinality.
OneClientOneAccount ==
  /\ \A m, n \in DOMAIN treasuryClients :
       treasuryClients[m].by = "activation" /\ treasuryClients[n].by = "activation" => m = n
  /\ Len(centralAccounts) <= 1
  /\ integration # Activation!NoIntegration => Len(centralAccounts) = 1 /\ IsTreasury(centralAccounts[1])

ActivationInv ==
  /\ Activation!TypeOK
  /\ activation \in [Activators -> Activations]
  /\ WalletsInSets
  /\ OneCommits
  /\ OneClientOneAccount

LEMMA ActivationFiniteSets ==
  ASSUME NEW S
  PROVE  Activation!Cardinality(S) = Cardinality(S)
BY DEF Activation!Cardinality, Cardinality

LEMMA ActivationPlaces ==
  /\ Activation!Idle \in Activations /\ Activation!Idle.at = "idle"
  /\ \A v \in Searching : v.at \in {"set", "wallet"} /\ v.set \in Activation!Sets /\ v.found \in IntegrationRows /\ v.key \in ActivationKeys
  /\ \A v \in Writing : v.at \in {"upsert", "find"} /\ v.set \in Activation!Sets /\ v.wallet \in Wallets
  /\ \A v \in Committing : v.at = "commit" /\ v.set \in Activation!Sets /\ v.wallet \in Wallets /\ v.client \in Nat
  /\ \A v \in Activations :
       /\ v.at \in {"set", "wallet"} <=> v \in Searching
       /\ v.at \in {"upsert", "find"} <=> v \in Writing
       /\ v.at = "commit" <=> v \in Committing
       /\ v.at = "idle" <=> v = Activation!Idle
       /\ v.at \in {"idle", "set", "wallet", "upsert", "find", "commit"}
<1>1. Activation!Idle \in Activations /\ Activation!Idle.at = "idle"
  BY DEF Activations, Activation!Idle
<1>2. \A v \in Searching : v.at \in {"set", "wallet"} /\ v.set \in Activation!Sets /\ v.found \in IntegrationRows /\ v.key \in ActivationKeys
  BY DEF Searching
<1>3. \A v \in Writing : v.at \in {"upsert", "find"} /\ v.set \in Activation!Sets /\ v.wallet \in Wallets
  BY DEF Writing
<1>4. \A v \in Committing : v.at = "commit" /\ v.set \in Activation!Sets /\ v.wallet \in Wallets /\ v.client \in Nat
  BY DEF Committing
<1> QED BY <1>1, <1>2, <1>3, <1>4 DEF Activations

\* The clients' rows.
Clients(count) == [number : 1 .. count, status : {"approved", "restricted"}, by : {"activation", "wire"}]

LEMMA TreasuryTypes ==
  ASSUME ActivationInv
  PROVE  /\ treasuryClients \in Seq(Clients(Len(treasuryClients))) /\ Len(treasuryClients) \in Nat
         /\ centralAccounts \in Seq(0 .. Len(treasuryClients)) /\ Len(centralAccounts) \in Nat
         /\ \A n \in DOMAIN treasuryClients :
              /\ treasuryClients[n].number \in 1 .. Len(treasuryClients)
              /\ treasuryClients[n].by \in {"activation", "wire"}
<1>1. treasuryClients \in Seq(Clients(Len(treasuryClients))) /\ centralAccounts \in Seq(0 .. Len(treasuryClients))
  BY DEF ActivationInv, Activation!TypeOK, Clients
<1>2. \A n \in DOMAIN treasuryClients : treasuryClients[n] \in Clients(Len(treasuryClients))
  BY <1>1
<1> QED BY <1>1, <1>2 DEF Clients

LEMMA ActivationInit == Activation!Init => ActivationInv
<1> SUFFICES ASSUME Activation!Init PROVE ActivationInv
  OBVIOUS
<1>1. integration = Activation!NoIntegration /\ treasuryClients = <<>> /\ centralAccounts \in {<<>>, <<0>>}
      /\ clerk = [w \in WireClerks |-> "idle"] /\ \A x \in Activators : activation[x] = Activation!Idle
  BY DEF Activation!Init
<1>2. Activation!TypeOK
  <2>1. integration \in [set : Activation!Sets, wallet : (ActivationKeys \cup {Activation!None}) \X Activation!Sets]
    BY <1>1 DEF Activation!NoIntegration, Activation!Sets
  <2>2. \A x \in Activators : activation[x].at = "idle"
    BY <1>1 DEF Activation!Idle
  <2>3. Len(treasuryClients) = 0 /\ centralAccounts \in Seq(0 .. 0)
    <3>1. Len(treasuryClients) = 0
      BY <1>1
    <3>2. CASE centralAccounts = <<>>
      BY <3>1, <3>2
    <3>3. CASE centralAccounts = <<0>>
      BY <3>1, <3>3
    <3> QED BY <1>1, <3>1, <3>2, <3>3
  <2>4. treasuryClients \in Seq([number : 1 .. Len(treasuryClients), status : {"approved", "restricted"},
                                by : {"activation", "wire"}])
    BY <1>1
  <2> QED BY <1>1, <2>1, <2>2, <2>3, <2>4 DEF Activation!TypeOK
<1>3. activation \in [Activators -> Activations]
  BY DEF Activation!Init, Activations
<1>4. WalletsInSets /\ OneCommits
  BY <1>1, ActivationPlaces DEF WalletsInSets, OneCommits, Activation!WalletIsInTheSet, Activation!NoIntegration,
       Searching, Writing, Committing
<1>5. OneClientOneAccount
  <2>1. Len(centralAccounts) <= 1
    <3>1. CASE centralAccounts = <<>>
      BY <3>1
    <3>2. CASE centralAccounts = <<0>>
      BY <3>2
    <3> QED BY <1>1, <3>1, <3>2
  <2>2. DOMAIN treasuryClients = {}
    BY <1>1
  <2> QED BY <1>1, <2>1, <2>2 DEF OneClientOneAccount
<1> QED BY <1>2, <1>3, <1>4, <1>5 DEF ActivationInv

\* One activation moves on and writes nothing.
LEMMA ActivationMoves ==
  ASSUME ActivationInv, NEW x \in Activators, NEW v \in Activations, activation' = [activation EXCEPT ![x] = v],
         UNCHANGED <<integration, treasuryClients, centralAccounts, clerk>>,
         v \in Searching => v.found.wallet[2] = v.found.set,
         v \in Writing \cup Committing => v.wallet[2] = v.set,
         v.at \in {"find", "commit"} => \A y \in Activators \ {x} : activation[y].at \notin {"find", "commit"},
         v.at = "commit" =>
           /\ IF v.client = 0 THEN NoneByActivation ELSE IsTreasury(v.client)
           /\ v.makesAccount <=> Len(centralAccounts) = 0
  PROVE  ActivationInv'
<1>1. activation' \in [Activators -> Activations] /\ activation'[x] = v /\ \A y \in Activators \ {x} : activation'[y] = activation[y]
  BY DEF ActivationInv
<1>2. Activation!TypeOK'
  <2>1. \A y \in Activators : activation'[y].at \in {"idle", "set", "wallet", "upsert", "find", "commit"}
    BY <1>1, ActivationPlaces
  <2> QED BY <2>1 DEF ActivationInv, Activation!TypeOK
<1>3. WalletsInSets'
  BY <1>1 DEF ActivationInv, WalletsInSets, Activation!WalletIsInTheSet
<1>4. NoneByActivation' <=> NoneByActivation
  BY DEF NoneByActivation
<1>5. \A number : IsTreasury(number)' <=> IsTreasury(number)
  BY DEF IsTreasury
<1>6. OneCommits'
  <2> SUFFICES ASSUME NEW y \in Activators, activation'[y].at \in {"find", "commit"}
               PROVE  /\ \A z \in Activators \ {y} : activation'[z].at \notin {"find", "commit"}
                      /\ activation'[y].at = "commit" =>
                           /\ IF activation'[y].client = 0 THEN NoneByActivation ELSE IsTreasury(activation'[y].client)
                           /\ activation'[y].makesAccount <=> Len(centralAccounts) = 0
    BY <1>4, <1>5 DEF OneCommits, IsTreasury
  <2>1. CASE y = x
    BY <1>1, <2>1
  <2>2. CASE y # x
    BY <1>1, <2>2 DEF ActivationInv, OneCommits
  <2> QED BY <2>1, <2>2
<1>7. OneClientOneAccount'
  BY DEF ActivationInv, OneClientOneAccount, IsTreasury
<1> QED BY <1>1, <1>2, <1>3, <1>6, <1>7 DEF ActivationInv

\* A client is inserted into the list.
LEMMA Inserted ==
  ASSUME NEW S, NEW s \in Seq(S), NEW n \in 1 .. Len(s) + 1, NEW e \in S, NEW t, t = Activation!InsertAt(s, n, e)
  PROVE  /\ t \in Seq(S) /\ Len(t) = Len(s) + 1
         /\ \A i \in 1 .. Len(s) + 1 : t[i] = IF i < n THEN s[i] ELSE IF i = n THEN e ELSE s[i - 1]
<1>1. PICK a, b, c : a = SubSeq(s, 1, n - 1) /\ b = <<e>> /\ c = SubSeq(s, n, Len(s))
  OBVIOUS
<1>2. a \in Seq(S) /\ Len(a) = n - 1 /\ \A i \in 1 .. n - 1 : a[i] = s[i]
  BY <1>1
<1>3. c \in Seq(S) /\ Len(c) = Len(s) - n + 1 /\ \A i \in 1 .. Len(s) - n + 1 : c[i] = s[n + i - 1]
  BY <1>1
<1>4. PICK d : d = a \o b
  OBVIOUS
<1>5. d \in Seq(S) /\ Len(d) = n /\ (\A i \in 1 .. n - 1 : d[i] = s[i]) /\ d[n] = e
  BY <1>1, <1>2, <1>4
<1>6. t = d \o c
  BY <1>1, <1>4 DEF Activation!InsertAt
<1>7. t \in Seq(S) /\ Len(t) = Len(s) + 1
  <2>1. d \o c \in Seq(S) /\ Len(d \o c) = Len(d) + Len(c)
    BY <1>3, <1>5, ConcatProperties
  <2> QED BY <1>3, <1>5, <1>6, <2>1
<1>8. ASSUME NEW i \in 1 .. Len(s) + 1 PROVE t[i] = IF i < n THEN s[i] ELSE IF i = n THEN e ELSE s[i - 1]
  <2>1. CASE i <= n
    <3>1. t[i] = d[i]
      BY <1>3, <1>5, <1>6, <2>1
    <3> QED BY <1>5, <2>1, <3>1
  <2>2. CASE i > n
    <3>1. i - n \in 1 .. Len(s) - n + 1 /\ t[i] = c[i - n]
      BY <1>3, <1>5, <1>6, <2>2
    <3> QED BY <1>3, <2>2, <3>1
  <2> QED BY <2>1, <2>2
<1> QED BY <1>7, <1>8

\* A client is made: the others stay, and nothing else appears.
LEMMA ClientIsMade ==
  ASSUME ActivationInv, NEW maker \in {"activation", "wire"}, treasuryClients' \in Activation!MadeBy(maker)
  PROVE  /\ treasuryClients' \in Seq(Clients(Len(treasuryClients'))) /\ Len(treasuryClients') = Len(treasuryClients) + 1
         /\ \E number \in Nat : number = Len(treasuryClients) + 1 /\ IsTreasury(number)'
         /\ \A number : IsTreasury(number) => IsTreasury(number)'
         /\ NoneByActivation /\ maker = "wire" => NoneByActivation'
         /\ NoneByActivation \/ maker = "wire" =>
              \A j, k \in DOMAIN treasuryClients' :
                treasuryClients'[j].by = "activation" /\ treasuryClients'[k].by = "activation" => j = k
<1>1. PICK new : new = [number |-> Len(treasuryClients) + 1, status |-> "approved", by |-> maker]
  OBVIOUS
<1>2. PICK n \in 1 .. Len(treasuryClients) + 1 : treasuryClients' = Activation!InsertAt(treasuryClients, n, new)
  BY <1>1 DEF Activation!MadeBy
<1>3. PICK size \in Nat : size = Len(treasuryClients)
  BY TreasuryTypes
<1>4. treasuryClients \in Seq(Clients(size + 1)) /\ new \in Clients(size + 1)
  <2>1. Clients(size) \subseteq Clients(size + 1)
    BY DEF Clients
  <2>2. new \in Clients(size + 1)
    BY <1>1, <1>3 DEF Clients
  <2> QED BY <1>3, <2>1, <2>2, TreasuryTypes
<1>5. /\ treasuryClients' \in Seq(Clients(size + 1)) /\ Len(treasuryClients') = size + 1
      /\ \A i \in 1 .. size + 1 : treasuryClients'[i] =
           IF i < n THEN treasuryClients[i] ELSE IF i = n THEN new ELSE treasuryClients[i - 1]
  BY <1>2, <1>3, <1>4, Inserted
<1>6. DOMAIN treasuryClients = 1 .. size /\ DOMAIN treasuryClients' = 1 .. size + 1 /\ n \in 1 .. size + 1
  BY <1>3, <1>4, <1>5
<1>7. new.number = size + 1 /\ new.by = maker
  BY <1>1, <1>3
<1>8. IsTreasury(size + 1)'
  BY <1>3, <1>5, <1>6, <1>7 DEF IsTreasury
<1>9. ASSUME NEW number, IsTreasury(number) PROVE IsTreasury(number)'
  <2>1. PICK i \in 1 .. size : treasuryClients[i].number = number
    BY <1>6, <1>9 DEF IsTreasury
  <2>2. PICK j \in 1 .. size + 1 : treasuryClients'[j] = treasuryClients[i]
    <3>1. CASE i < n
      BY <1>5, <3>1
    <3>2. CASE i >= n
      <4>1. i + 1 \in 1 .. size + 1 /\ treasuryClients'[i + 1] = treasuryClients[i]
        BY <1>5, <1>6, <3>2
      <4> QED BY <4>1
    <3> QED BY <1>6, <3>1, <3>2
  <2> QED BY <1>6, <2>1, <2>2 DEF IsTreasury
<1>10. ASSUME NEW j \in 1 .. size + 1, treasuryClients'[j].by = "activation"
       PROVE  \/ j = n /\ maker = "activation"
              \/ j < n /\ j \in DOMAIN treasuryClients /\ treasuryClients[j].by = "activation"
              \/ j > n /\ j - 1 \in DOMAIN treasuryClients /\ treasuryClients[j - 1].by = "activation"
  BY <1>5, <1>6, <1>7, <1>10
<1>11. NoneByActivation /\ maker = "wire" => NoneByActivation'
  BY <1>6, <1>10 DEF NoneByActivation
<1>12. ASSUME NoneByActivation \/ maker = "wire", NEW j \in DOMAIN treasuryClients', NEW k \in DOMAIN treasuryClients',
              treasuryClients'[j].by = "activation", treasuryClients'[k].by = "activation"
       PROVE  j = k
  <2>1. CASE NoneByActivation
    BY <1>6, <1>10, <1>12, <2>1 DEF NoneByActivation
  <2>2. CASE maker = "wire"
    <3>1. PICK p \in DOMAIN treasuryClients : treasuryClients[p].by = "activation" /\ p = IF j < n THEN j ELSE j - 1
      BY <1>6, <1>10, <1>12, <2>2
    <3>2. PICK q \in DOMAIN treasuryClients : treasuryClients[q].by = "activation" /\ q = IF k < n THEN k ELSE k - 1
      BY <1>6, <1>10, <1>12, <2>2
    <3>3. p = q /\ j # n /\ k # n
      BY <1>6, <1>10, <1>12, <2>2, <3>1, <3>2 DEF ActivationInv, OneClientOneAccount
    <3> QED BY <1>6, <3>1, <3>2, <3>3
  <2> QED BY <1>12, <2>1, <2>2
<1> QED BY <1>3, <1>5, <1>8, <1>9, <1>11, <1>12

\* A client changes its status.
LEMMA ClientKeepsNumber ==
  ASSUME ActivationInv, UNCHANGED <<integration, centralAccounts, activation>>, clerk' \in [WireClerks -> {"idle", "create", "done"}],
         treasuryClients' \in Seq(Clients(Len(treasuryClients))), Len(treasuryClients') = Len(treasuryClients),
         \A n \in DOMAIN treasuryClients :
           treasuryClients'[n].number = treasuryClients[n].number /\ treasuryClients'[n].by = treasuryClients[n].by
  PROVE  ActivationInv'
<1>1. DOMAIN treasuryClients' = DOMAIN treasuryClients
  BY TreasuryTypes
<1>2. (NoneByActivation <=> NoneByActivation') /\ \A number : IsTreasury(number) <=> IsTreasury(number)'
  BY <1>1 DEF NoneByActivation, IsTreasury
<1>3. Activation!TypeOK'
  BY DEF ActivationInv, Activation!TypeOK, Clients
<1>4. WalletsInSets'
  BY DEF ActivationInv, WalletsInSets, Activation!WalletIsInTheSet
<1>5. OneCommits'
  BY <1>2 DEF ActivationInv, OneCommits
<1>6. OneClientOneAccount'
  BY <1>1, <1>2 DEF ActivationInv, OneClientOneAccount
<1> QED BY <1>3, <1>4, <1>5, <1>6 DEF ActivationInv

LEMMA ApprovedIsClient ==
  ASSUME ActivationInv, NEW number
  PROVE  /\ Activation!Approved(number) \in Seq(Clients(Len(treasuryClients)))
         /\ Len(Activation!Approved(number)) = Len(treasuryClients)
         /\ \A n \in DOMAIN treasuryClients :
              /\ Activation!Approved(number)[n].number = treasuryClients[n].number
              /\ Activation!Approved(number)[n].by = treasuryClients[n].by
<1>1. PICK size \in Nat : size = Len(treasuryClients) /\ treasuryClients \in Seq(Clients(size)) /\ DOMAIN treasuryClients = 1 .. size
  BY TreasuryTypes
<1>2. PICK list : list = Activation!Approved(number)
  OBVIOUS
<1>3. \A n \in 1 .. size : list[n] = IF treasuryClients[n].number = number
                                   THEN [treasuryClients[n] EXCEPT !.status = "approved"] ELSE treasuryClients[n]
  BY <1>1, <1>2 DEF Activation!Approved
<1>4. \A n \in 1 .. size : treasuryClients[n] \in Clients(size)
  BY <1>1
<1>5. ASSUME NEW n \in 1 .. size
      PROVE  list[n] \in Clients(size) /\ list[n].number = treasuryClients[n].number /\ list[n].by = treasuryClients[n].by
  <2>1. PICK old \in Clients(size) : old = treasuryClients[n]
    BY <1>4
  <2>2. PICK new : new = [old EXCEPT !.status = "approved"]
    OBVIOUS
  <2>3. new \in Clients(size) /\ new.number = old.number /\ new.by = old.by
    BY <2>1, <2>2 DEF Clients
  <2> QED BY <1>3, <2>1, <2>2, <2>3
<1>6. list = [n \in 1 .. size |-> list[n]]
  BY <1>1, <1>2 DEF Activation!Approved
<1>7. list \in [1 .. size -> Clients(size)]
  BY <1>5, <1>6
<1>8. list \in Seq(Clients(size)) /\ Len(list) = size
  BY <1>7
<1> QED BY <1>1, <1>2, <1>5, <1>8

\* Somebody who holds nothing makes a client.
LEMMA ClerkKeeps ==
  ASSUME ActivationInv, NEW w \in WireClerks, Activation!ClerkFinds(w) \/ Activation!ClerkCreates(w)
  PROVE  ActivationInv'
<1>0. clerk' \in [WireClerks -> {"idle", "create", "done"}] /\ UNCHANGED <<integration, centralAccounts, activation>>
  BY DEF ActivationInv, Activation!TypeOK, Activation!ClerkFinds, Activation!ClerkCreates
<1>1. CASE UNCHANGED treasuryClients
  <2>1. treasuryClients' \in Seq(Clients(Len(treasuryClients)))
    BY <1>1, TreasuryTypes
  <2> QED BY <1>0, <1>1, <2>1, ClientKeepsNumber
<1>2. CASE treasuryClients' = Activation!Approved(Activation!Oldest)
  <2>1. PICK number : number = Activation!Oldest
    OBVIOUS
  <2> QED BY <1>0, <1>2, <2>1, ApprovedIsClient, ClientKeepsNumber
<1>3. CASE treasuryClients' \in Activation!MadeBy("wire")
  <2>1. /\ treasuryClients' \in Seq(Clients(Len(treasuryClients'))) /\ Len(treasuryClients') = Len(treasuryClients) + 1
        /\ \A number : IsTreasury(number) => IsTreasury(number)'
        /\ NoneByActivation => NoneByActivation'
        /\ \A j, k \in DOMAIN treasuryClients' :
             treasuryClients'[j].by = "activation" /\ treasuryClients'[k].by = "activation" => j = k
    BY <1>3, ClientIsMade
  <2>2. Activation!TypeOK'
    <3>1. PICK size \in Nat : size = Len(treasuryClients)
      BY TreasuryTypes
    <3>2. 0 .. size \subseteq 0 .. size + 1
      BY <3>1
    <3>3. centralAccounts' \in Seq(0 .. Len(treasuryClients'))
      BY <1>0, <2>1, <3>1, <3>2, TreasuryTypes
    <3> QED BY <1>0, <2>1, <3>3 DEF ActivationInv, Activation!TypeOK, Clients
  <2>3. WalletsInSets'
    BY <1>0 DEF ActivationInv, WalletsInSets, Activation!WalletIsInTheSet
  <2>4. OneCommits'
    BY <1>0, <2>1 DEF ActivationInv, OneCommits
  <2>5. OneClientOneAccount'
    BY <1>0, <2>1 DEF ActivationInv, OneClientOneAccount
  <2> QED BY <1>0, <2>2, <2>3, <2>4, <2>5 DEF ActivationInv
<1> QED BY <1>1, <1>2, <1>3 DEF Activation!ClerkFinds, Activation!ClerkCreates

LEMMA RestrictKeeps ==
  ASSUME ActivationInv, Activation!RestrictClient
  PROVE  ActivationInv'
<1>1. PICK size \in Nat : size = Len(treasuryClients) /\ treasuryClients \in Seq(Clients(size)) /\ DOMAIN treasuryClients = 1 .. size
  BY TreasuryTypes
<1>2. size > 0
  BY <1>1 DEF Activation!RestrictClient
<1>3. PICK old \in Clients(size) : old = treasuryClients[1]
  BY <1>1, <1>2
<1>4. PICK new : new = [old EXCEPT !.status = "restricted"]
  OBVIOUS
<1>5. new \in Clients(size) /\ new.number = old.number /\ new.by = old.by
  BY <1>3, <1>4 DEF Clients
<1>6. treasuryClients' = [treasuryClients EXCEPT ![1] = new]
  BY <1>3, <1>4 DEF Activation!RestrictClient
<1>7. treasuryClients' \in Seq(Clients(size)) /\ Len(treasuryClients') = size
  BY <1>1, <1>2, <1>5, <1>6
<1>8. \A n \in 1 .. size : treasuryClients'[n].number = treasuryClients[n].number /\ treasuryClients'[n].by = treasuryClients[n].by
  BY <1>1, <1>2, <1>3, <1>5, <1>6
<1>9. UNCHANGED <<integration, centralAccounts, activation>> /\ clerk' \in [WireClerks -> {"idle", "create", "done"}]
  BY DEF Activation!RestrictClient, ActivationInv, Activation!TypeOK
<1> QED BY <1>1, <1>7, <1>8, <1>9, ClientKeepsNumber

\* An activation starts, calls the provider, fails, or writes and reads.
LEMMA ActivationStepKeeps ==
  ASSUME ActivationInv, NEW x \in Activators,
         \/ \E k \in ActivationKeys, named \in OwnSets \cup {Activation!None} : Activation!Start(x, k, named)
         \/ Activation!MakeWalletSet(x) \/ Activation!MakeWallet(x) \/ Activation!Fail(x)
         \/ Activation!Upsert(x) \/ Activation!Find(x)
  PROVE  ActivationInv'
<1>0. UNCHANGED <<integration, treasuryClients, centralAccounts, clerk>>
  BY DEF Activation!Start, Activation!MakeWalletSet, Activation!MakeWallet, Activation!Fail, Activation!Upsert,
         Activation!Find, Activation!rows
<1>1. integration \in IntegrationRows /\ integration.wallet[2] = integration.set
  BY DEF ActivationInv, Activation!TypeOK, IntegrationRows, Wallets, WalletsInSets, Activation!WalletIsInTheSet
<1>2. PICK t \in Activations : t = activation[x]
  BY DEF ActivationInv
<1>3. /\ t \in Searching => t.found.wallet[2] = t.found.set
      /\ t \in Writing \cup Committing => t.wallet[2] = t.set
  BY <1>2 DEF ActivationInv, WalletsInSets
<1>4. ASSUME NEW k \in ActivationKeys, NEW named \in OwnSets \cup {Activation!None}, Activation!Start(x, k, named)
      PROVE  ActivationInv'
  <2>1. PICK set \in Activation!Sets : set = IF named # Activation!None THEN named ELSE integration.set
    BY <1>1 DEF Activation!Sets, IntegrationRows
  <2>2. PICK v : v = [at |-> IF set = Activation!None THEN "set" ELSE "wallet", key |-> k, set |-> set, found |-> integration]
    OBVIOUS
  <2>3. v \in Searching /\ v.found = integration
    BY <1>1, <2>1, <2>2 DEF Searching
  <2>4. activation' = [activation EXCEPT ![x] = v]
    BY <1>4, <2>1, <2>2 DEF Activation!Start
  <2>5. v \in Activations /\ v \notin Writing \cup Committing /\ v.at \notin {"find", "commit"}
    BY <2>3, ActivationPlaces DEF Activations
  <2> QED BY <1>0, <1>1, <2>3, <2>4, <2>5, ActivationMoves
<1>5. CASE Activation!MakeWalletSet(x)
  <2>1. t \in Searching
    BY <1>2, <1>5, ActivationPlaces DEF Activation!MakeWalletSet
  <2>2. PICK v : v = [t EXCEPT !.at = "wallet", !.set = t.key]
    OBVIOUS
  <2>3. v \in Searching /\ v.found = t.found
    BY <2>1, <2>2 DEF Searching, Activation!Sets
  <2>4. activation' = [activation EXCEPT ![x] = v]
    BY <1>2, <1>5, <2>1, <2>2 DEF Activation!MakeWalletSet, ActivationInv, Searching
  <2>5. v \in Activations /\ v \notin Writing \cup Committing /\ v.at \notin {"find", "commit"}
    BY <2>3, ActivationPlaces DEF Activations
  <2> QED BY <1>0, <1>3, <2>1, <2>3, <2>4, <2>5, ActivationMoves
<1>6. CASE Activation!MakeWallet(x)
  <2>1. t \in Searching
    BY <1>2, <1>6, ActivationPlaces DEF Activation!MakeWallet
  <2>2. PICK wallet : wallet = IF Activation!KeepsWallet(t) THEN t.found.wallet ELSE <<t.key, t.set>>
    OBVIOUS
  <2>3. wallet \in Wallets /\ wallet[2] = t.set
    BY <1>3, <2>1, <2>2, ActivationPlaces DEF Wallets, Activation!KeepsWallet, IntegrationRows
  <2>4. PICK v : v = [at |-> "upsert", set |-> t.set, wallet |-> wallet]
    OBVIOUS
  <2>5. v \in Writing /\ v.wallet[2] = v.set /\ v.at = "upsert"
    BY <2>1, <2>3, <2>4, ActivationPlaces DEF Writing
  <2>6. activation' = [activation EXCEPT ![x] = v]
    BY <1>2, <1>6, <2>2, <2>4 DEF Activation!MakeWallet
  <2>7. v \in Activations /\ v \notin Searching
    BY <2>5, ActivationPlaces DEF Activations
  <2> QED BY <1>0, <2>5, <2>6, <2>7, ActivationMoves
<1>7. CASE Activation!Fail(x)
  <2>1. Activation!Idle \notin Searching /\ Activation!Idle \notin Writing \cup Committing
    BY ActivationPlaces
  <2> QED BY <1>0, <1>7, <2>1, ActivationPlaces, ActivationMoves DEF Activation!Fail
<1>8. CASE Activation!Upsert(x)
  <2>1. t \in Writing
    BY <1>2, <1>8, ActivationPlaces DEF Activation!Upsert
  <2>2. PICK v : v = [t EXCEPT !.at = "find"]
    OBVIOUS
  <2>3. v \in Writing /\ v.wallet = t.wallet /\ v.set = t.set /\ v.at = "find"
    BY <2>1, <2>2 DEF Writing
  <2>4. activation' = [activation EXCEPT ![x] = v]
    BY <1>2, <1>8, <2>2 DEF Activation!Upsert, Activation!Continue
  <2>5. v \in Activations /\ v \notin Searching
    BY <2>3, ActivationPlaces DEF Activations
  <2>6. \A y \in Activators \ {x} : activation[y].at \notin {"find", "commit"}
    BY <1>8 DEF Activation!Upsert, Activation!RowFree
  <2> QED BY <1>0, <1>3, <2>1, <2>3, <2>4, <2>5, <2>6, ActivationMoves
<1>9. CASE Activation!Find(x)
  <2>1. t \in Writing /\ t.at = "find"
    BY <1>2, <1>9, ActivationPlaces DEF Activation!Find
  <2>2. Activation!Oldest \in Nat /\ IF Activation!Oldest = 0 THEN NoneByActivation ELSE IsTreasury(Activation!Oldest)
    <3>1. CASE treasuryClients = <<>>
      BY <3>1 DEF Activation!Oldest, NoneByActivation
    <3>2. CASE treasuryClients # <<>>
      <4>1. 1 \in DOMAIN treasuryClients
        BY <3>2, TreasuryTypes
      <4> QED BY <3>2, <4>1, TreasuryTypes DEF Activation!Oldest, IsTreasury
    <3> QED BY <3>1, <3>2
  <2>3. (centralAccounts = <<>>) <=> Len(centralAccounts) = 0
    BY TreasuryTypes
  <2>4. PICK v : v = [at |-> "commit", set |-> t.set, wallet |-> t.wallet,
                     client |-> Activation!Oldest, makesAccount |-> centralAccounts = <<>>]
    OBVIOUS
  <2>5. v \in Committing /\ v.wallet[2] = v.set /\ v.client = Activation!Oldest /\ (v.makesAccount <=> centralAccounts = <<>>)
    BY <1>3, <2>1, <2>2, <2>4, ActivationPlaces DEF Committing
  <2>6. activation' = [activation EXCEPT ![x] = v]
    BY <1>2, <1>9, <2>4 DEF Activation!Find
  <2>7. v \in Activations /\ v \notin Searching
    BY <2>5, ActivationPlaces DEF Activations
  <2>8. \A y \in Activators \ {x} : activation[y].at \notin {"find", "commit"}
    BY <1>2, <2>1 DEF ActivationInv, OneCommits
  <2> QED BY <1>0, <2>2, <2>3, <2>5, <2>6, <2>7, <2>8, ActivationMoves
<1> QED BY <1>4, <1>5, <1>6, <1>7, <1>8, <1>9

\* The transaction ends: nobody else is past an upsert.
LEMMA CommitKeeps ==
  ASSUME ActivationInv, NEW x \in Activators, Activation!Commit(x)
  PROVE  ActivationInv'
<1>1. PICK t \in Committing : t = activation[x] /\ t.wallet[2] = t.set /\ t.set \in Activation!Sets /\ t.wallet \in Wallets
  BY ActivationPlaces DEF Activation!Commit, ActivationInv, WalletsInSets
<1>2. /\ \A y \in Activators \ {x} : activation[y].at \notin {"find", "commit"}
      /\ IF t.client = 0 THEN NoneByActivation ELSE IsTreasury(t.client)
      /\ t.makesAccount <=> Len(centralAccounts) = 0
  BY <1>1, ActivationPlaces DEF ActivationInv, OneCommits
<1>3. /\ activation' = [activation EXCEPT ![x] = Activation!Idle] /\ integration' = [set |-> t.set, wallet |-> t.wallet]
      /\ clerk' = clerk
  BY <1>1 DEF Activation!Commit
<1>4. /\ activation' \in [Activators -> Activations] /\ activation'[x] = Activation!Idle
      /\ \A y \in Activators \ {x} : activation'[y] = activation[y]
  BY <1>3, ActivationPlaces DEF ActivationInv
<1>5. PICK mine \in Nat :
        /\ mine = IF t.client = 0 THEN Len(treasuryClients) + 1 ELSE t.client
        /\ treasuryClients' \in Seq(Clients(Len(treasuryClients'))) /\ Len(treasuryClients') \in Nat
        /\ mine \in 0 .. Len(treasuryClients')
        /\ IsTreasury(mine)'
        /\ \A j, k \in DOMAIN treasuryClients' :
             treasuryClients'[j].by = "activation" /\ treasuryClients'[k].by = "activation" => j = k
  <2>1. CASE t.client = 0
    <3>1. treasuryClients' \in Activation!MadeBy("activation")
      BY <1>1, <2>1 DEF Activation!Commit
    <3>2. /\ treasuryClients' \in Seq(Clients(Len(treasuryClients'))) /\ Len(treasuryClients') = Len(treasuryClients) + 1
          /\ \E number \in Nat : number = Len(treasuryClients) + 1 /\ IsTreasury(number)'
          /\ \A j, k \in DOMAIN treasuryClients' :
               treasuryClients'[j].by = "activation" /\ treasuryClients'[k].by = "activation" => j = k
      BY <1>2, <2>1, <3>1, ClientIsMade
    <3>3. PICK number \in Nat : number = Len(treasuryClients) + 1 /\ IsTreasury(number)'
      BY <3>2
    <3> QED BY <2>1, <3>2, <3>3, TreasuryTypes
  <2>2. CASE t.client # 0
    <3>1. treasuryClients' = Activation!Approved(t.client)
      BY <1>1, <2>2 DEF Activation!Commit
    <3>2. PICK number : number = t.client
      OBVIOUS
    <3>3. /\ treasuryClients' \in Seq(Clients(Len(treasuryClients))) /\ Len(treasuryClients') = Len(treasuryClients)
          /\ \A n \in DOMAIN treasuryClients :
               treasuryClients'[n].number = treasuryClients[n].number /\ treasuryClients'[n].by = treasuryClients[n].by
      BY <3>1, <3>2, ApprovedIsClient
    <3>4. DOMAIN treasuryClients' = DOMAIN treasuryClients
      BY <3>3, TreasuryTypes
    <3>5. IsTreasury(number)' /\ number \in 1 .. Len(treasuryClients)
      BY <1>2, <2>2, <3>2, <3>3, <3>4, TreasuryTypes DEF IsTreasury
    <3> QED BY <2>2, <3>2, <3>3, <3>4, <3>5, TreasuryTypes DEF ActivationInv, OneClientOneAccount
  <2> QED BY <2>1, <2>2
<1>6. /\ centralAccounts' \in Seq(0 .. Len(treasuryClients')) /\ Len(centralAccounts') = 1 /\ centralAccounts'[1] = mine
  <2>1. CASE t.makesAccount
    <3>1. centralAccounts' = Append(centralAccounts, mine) /\ centralAccounts = <<>>
      BY <1>1, <1>2, <1>5, <2>1, TreasuryTypes DEF Activation!Commit
    <3>2. centralAccounts' = <<mine>>
      BY <3>1
    <3> QED BY <1>5, <3>2
  <2>2. CASE ~t.makesAccount
    <3>1. centralAccounts' = [centralAccounts EXCEPT ![1] = mine]
      BY <1>1, <1>5, <2>2 DEF Activation!Commit
    <3>2. Len(centralAccounts) = 1
      <4>1. Len(centralAccounts) \in Nat /\ Len(centralAccounts) <= 1
        BY TreasuryTypes DEF ActivationInv, OneClientOneAccount
      <4>2. Len(centralAccounts) # 0
        BY <1>2, <2>2, Zenon
      <4> QED BY <4>1, <4>2
    <3>3. centralAccounts' = <<mine>>
      BY <3>1, <3>2, TreasuryTypes
    <3> QED BY <1>5, <3>3
  <2> QED BY <2>1, <2>2
<1>7. Activation!TypeOK'
  <2>1. integration' \in [set : Activation!Sets, wallet : (ActivationKeys \cup {Activation!None}) \X Activation!Sets]
    BY <1>1, <1>3 DEF Wallets
  <2>2. \A y \in Activators : activation'[y].at \in {"idle", "set", "wallet", "upsert", "find", "commit"}
    BY <1>4, ActivationPlaces
  <2> QED BY <1>3, <1>5, <1>6, <2>1, <2>2 DEF ActivationInv, Activation!TypeOK, Clients
<1>8. WalletsInSets'
  <2>1. Activation!Idle \notin Searching /\ Activation!Idle \notin Writing \cup Committing
    BY ActivationPlaces
  <2>2. Activation!WalletIsInTheSet'
    BY <1>1, <1>3 DEF Activation!WalletIsInTheSet
  <2> QED BY <1>4, <2>1, <2>2 DEF ActivationInv, WalletsInSets
<1>9. OneCommits'
  BY <1>2, <1>4, ActivationPlaces DEF OneCommits
<1>10. OneClientOneAccount'
  BY <1>5, <1>6 DEF OneClientOneAccount
<1> QED BY <1>4, <1>7, <1>8, <1>9, <1>10 DEF ActivationInv

LEMMA ActivationKeeps ==
  ASSUME ActivationInv, [Activation!Next]_activationVars
  PROVE  ActivationInv'
<1>1. CASE UNCHANGED activationVars
  BY <1>1 DEF activationVars, ActivationInv, Activation!TypeOK, WalletsInSets, Activation!WalletIsInTheSet, OneCommits,
     OneClientOneAccount, NoneByActivation, IsTreasury
<1>2. ASSUME NEW x \in Activators,
             \/ \E k \in ActivationKeys, named \in OwnSets \cup {Activation!None} : Activation!Start(x, k, named)
             \/ Activation!MakeWalletSet(x) \/ Activation!MakeWallet(x) \/ Activation!Fail(x)
             \/ Activation!Upsert(x) \/ Activation!Find(x)
      PROVE  ActivationInv'
  BY <1>2, ActivationStepKeeps
<1>3. ASSUME NEW x \in Activators, Activation!Commit(x) PROVE ActivationInv'
  BY <1>3, CommitKeeps
<1>4. ASSUME NEW w \in WireClerks, Activation!ClerkFinds(w) \/ Activation!ClerkCreates(w) PROVE ActivationInv'
  BY <1>4, ClerkKeeps
<1>5. CASE Activation!RestrictClient
  BY <1>5, RestrictKeeps
<1> QED BY <1>1, <1>2, <1>3, <1>4, <1>5 DEF Activation!Next

LEMMA TreasuryIsOne ==
  ASSUME ActivationInv
  PROVE  Activation!WalletIsInTheSet /\ Activation!OneTreasury
<1>1. Cardinality({n \in DOMAIN treasuryClients : treasuryClients[n].by = "activation"}) <= 1
  <2>1. PICK made : made = {n \in DOMAIN treasuryClients : treasuryClients[n].by = "activation"}
    OBVIOUS
  <2>2. \A m, n \in made : m = n
    BY <2>1 DEF ActivationInv, OneClientOneAccount
  <2>3. Cardinality(made) <= 1
    <3>1. CASE made = {}
      BY <3>1, FS_EmptySet
    <3>2. ASSUME NEW n \in made PROVE Cardinality(made) = 1
      <4>1. made = {n}
        BY <2>2
      <4> QED BY <4>1, FS_Singleton
    <3> QED BY <3>1, <3>2
  <2> QED BY <2>1, <2>3
<1>2. integration # Activation!NoIntegration => centralAccounts[1] \in {treasuryClients[n].number : n \in DOMAIN treasuryClients}
  BY DEF ActivationInv, OneClientOneAccount, IsTreasury
<1> QED BY <1>1, <1>2, ActivationFiniteSets DEF Activation!OneTreasury, ActivationInv, OneClientOneAccount, WalletsInSets

-----------------------------------------------------------------------------
(* CircleGateway *)

CallRecords ==
  [at : {"list", "post", "instructions"}, kind : Gateway!Kinds, key : CallKeys \cup OtherKeys \cup {Gateway!None},
   number : Nat, attempt : 1 .. MaxAttempts, blind : BOOLEAN]
CallsInProgress == {Gateway!Idle} \cup {v \in CallRecords : v.at = "list" => v.kind = "wire" /\ v.blind = FALSE}

\* The key of an object a call that is under way is to make.
KeyOf(c) == Gateway!PayloadKey(caller[c].kind, caller[c].key, caller[c].number, caller[c].attempt)

\* What a call under way has made has the kind and the key of its payload.
ObjectsOfCalls ==
  /\ \A o \in objects : o.by \in 1 .. asked
  /\ \A c \in Callers : caller[c] # Gateway!Idle =>
    /\ caller[c].number \in 1 .. asked
    /\ \A d \in Callers \ {c} : caller[d] # Gateway!Idle => caller[d].number # caller[c].number
    /\ \A o \in objects : o.by = caller[c].number /\ caller[c].kind # "transfer" =>
         caller[c].at # "list" /\ o.kind = caller[c].kind /\ o.key = KeyOf(c)

\* No two objects of one kind have one key, or, transfers apart, come of one call.
ObjectsDiffer ==
  \A o, p \in objects :
    \/ o = p
    \/ (o.kind # p.kind \/ o.key # p.key) /\ (o.by # p.by \/ o.kind = "transfer" \/ p.kind = "transfer")

\* Calls that have seen no wire account and have yet to make theirs.
Registered == {o \in Gateway!WireAccounts : ~o.blind}
Registering ==
  {c \in Callers : /\ caller[c].at = "post" /\ caller[c].kind = "wire" /\ ~caller[c].blind
                   /\ \A o \in Gateway!WireAccounts : o.key # KeyOf(c)}

\* Each wire account made so takes the place of a call that has yet to make one.
CallersRegister == Cardinality(Registered) + Cardinality(Registering) <= Cardinality(Callers)

GatewayInv ==
  /\ Gateway!TypeOK
  /\ caller \in [Callers -> CallsInProgress]
  /\ IsFiniteSet(objects)
  /\ ObjectsOfCalls
  /\ ObjectsDiffer
  /\ CallersRegister

LEMMA GatewayFiniteSets ==
  ASSUME NEW S
  PROVE  (Gateway!IsFiniteSet(S) <=> IsFiniteSet(S)) /\ Gateway!Cardinality(S) = Cardinality(S)
<1>1. Gateway!IsFiniteSet(S) <=> IsFiniteSet(S)
  BY DEF Gateway!IsFiniteSet, IsFiniteSet
<1>2. Gateway!Cardinality(S) = Cardinality(S)
  BY DEF Gateway!Cardinality, Cardinality
<1> QED BY <1>1, <1>2

LEMMA GatewayConstants == MaxAttempts \in Nat \ {0} /\ 1 \in 1 .. MaxAttempts /\ MaxAsked \in Nat /\ IsFiniteSet(Callers)
BY GatewayBounds, GatewayFiniteSets DEF Gateway!GatewayAssumption

LEMMA CallIsIdleOrRecord ==
  /\ Gateway!Idle \in CallsInProgress /\ Gateway!Idle.at = "idle"
  /\ \A v \in CallsInProgress :
       /\ v.at = "idle" <=> v = Gateway!Idle
       /\ v # Gateway!Idle => v \in CallRecords /\ (v.at = "list" => v.kind = "wire" /\ v.blind = FALSE)
  /\ \A v \in CallRecords : v.at # "list" => v \in CallsInProgress
<1>1. Gateway!Idle.at = "idle"
  BY DEF Gateway!Idle
<1>2. \A v \in CallRecords : v.at # "idle"
  BY DEF CallRecords
<1> QED BY <1>1, <1>2 DEF CallsInProgress

LEMMA CallTypes ==
  ASSUME GatewayInv, NEW c \in Callers, caller[c].at # "idle"
  PROVE  /\ caller[c] # Gateway!Idle /\ caller[c] \in CallRecords
         /\ caller[c].kind \in Gateway!Kinds /\ caller[c].key \in CallKeys \cup OtherKeys \cup {Gateway!None}
         /\ caller[c].number \in 1 .. asked /\ caller[c].attempt \in 1 .. MaxAttempts /\ caller[c].blind \in BOOLEAN
         /\ caller[c].at = "list" => caller[c].kind = "wire" /\ caller[c].blind = FALSE
<1>1. /\ caller[c] # Gateway!Idle /\ caller[c] \in CallRecords
      /\ caller[c].at = "list" => caller[c].kind = "wire" /\ caller[c].blind = FALSE
  BY CallIsIdleOrRecord DEF GatewayInv
<1>2. caller[c].number \in 1 .. asked
  BY <1>1 DEF GatewayInv, ObjectsOfCalls
<1> QED BY <1>1, <1>2 DEF CallRecords

LEMMA CallPlaces ==
  ASSUME NEW w \in CallsInProgress
  PROVE  w.at \in {"idle", "list", "post", "instructions"}
BY CallIsIdleOrRecord DEF CallRecords

LEMMA RegisterFinite ==
  ASSUME GatewayInv
  PROVE  /\ IsFiniteSet(Registered) /\ IsFiniteSet(Registering) /\ IsFiniteSet(Gateway!WireAccounts)
         /\ Cardinality(Registered) \in Nat /\ Cardinality(Registering) \in Nat /\ Cardinality(Callers) \in Nat
<1>1. Registered \subseteq objects /\ Gateway!WireAccounts \subseteq objects /\ Registering \subseteq Callers
  BY DEF Registered, Registering, Gateway!WireAccounts
<1> QED BY <1>1, FS_Subset, FS_CardinalityType, GatewayConstants DEF GatewayInv

LEMMA GatewayInit == Gateway!Init => GatewayInv
<1> SUFFICES ASSUME Gateway!Init PROVE GatewayInv
  OBVIOUS
<1>1. objects = {} /\ asked = 0 /\ \A c \in Callers : caller[c] = Gateway!Idle
  BY DEF Gateway!Init
<1>2. Gateway!TypeOK /\ caller \in [Callers -> CallsInProgress]
  BY <1>1, GatewayConstants DEF Gateway!Init, Gateway!TypeOK, CallsInProgress, Gateway!Idle
<1>3. ObjectsOfCalls /\ ObjectsDiffer /\ IsFiniteSet(objects)
  BY <1>1, FS_EmptySet DEF ObjectsOfCalls, ObjectsDiffer
<1>4. Registered = {} /\ Registering = {}
  BY <1>1 DEF Registered, Registering, Gateway!WireAccounts, Gateway!Idle
<1>5. CallersRegister
  BY <1>4, FS_EmptySet, FS_CardinalityType, GatewayConstants DEF CallersRegister
<1> QED BY <1>2, <1>3, <1>5 DEF GatewayInv

\* The calls that have yet to make an account, when one moves and the objects stay.
LEMMA CallersRegisterStill ==
  ASSUME GatewayInv, Registered' \subseteq Registered, Registering' \subseteq Registering
  PROVE  CallersRegister'
<1>1. Cardinality(Registered') <= Cardinality(Registered) /\ Cardinality(Registering') <= Cardinality(Registering)
      /\ Cardinality(Registered') \in Nat /\ Cardinality(Registering') \in Nat
  BY RegisterFinite, FS_Subset, FS_CardinalityType
<1> QED BY <1>1, RegisterFinite DEF GatewayInv, CallersRegister

\* One call moves on and makes nothing.
LEMMA CallMoves ==
  ASSUME GatewayInv, NEW c \in Callers, NEW v \in CallsInProgress, caller' = [caller EXCEPT ![c] = v],
         UNCHANGED objects, asked' \in asked .. MaxAsked,
         v # Gateway!Idle =>
           /\ v.number \in 1 .. asked'
           /\ \/ v.number > asked /\ (v.at = "list" \/ v.kind # "wire")
              \/ /\ caller[c].at # "idle" /\ v.number = caller[c].number /\ v.kind = caller[c].kind /\ v.key = caller[c].key
                 /\ v.at = "list" => caller[c].at = "list",
         v.at = "post" /\ v.kind = "wire" /\ ~v.blind =>
           Gateway!WireAccounts = {} \/ (caller[c].at = "post" /\ caller[c].kind = "wire" /\ ~caller[c].blind)
  PROVE  GatewayInv'
<1>1. caller' \in [Callers -> CallsInProgress] /\ caller'[c] = v /\ \A d \in Callers \ {c} : caller'[d] = caller[d]
  BY DEF GatewayInv
<1>2. asked \in Nat /\ asked' \in Nat /\ asked <= asked' /\ asked' <= MaxAsked
  BY GatewayConstants DEF GatewayInv, Gateway!TypeOK
<1>3. Gateway!TypeOK'
  <2>1. \A d \in Callers : caller'[d].at \in {"idle", "list", "post", "instructions"}
    BY <1>1, CallPlaces
  <2> QED BY <1>2, <2>1 DEF GatewayInv, Gateway!TypeOK
<1>4. v # Gateway!Idle /\ v.number <= asked => KeyOf(c)' = KeyOf(c) \/ v.kind = "transfer"
  BY <1>1, <1>2 DEF KeyOf, Gateway!PayloadKey
<1>5. \A d \in Callers \ {c} : KeyOf(d)' = KeyOf(d)
  BY <1>1 DEF KeyOf
<1>6. \A d \in Callers : caller[d] # Gateway!Idle => caller[d].number \in 1 .. asked
  BY DEF GatewayInv, ObjectsOfCalls
<1>7. \A o \in objects : o.by \in 1 .. asked
  BY DEF GatewayInv, ObjectsOfCalls
<1>8. ObjectsOfCalls'
  <2>1. \A o \in objects' : o.by \in 1 .. asked'
    BY <1>2, <1>7
  <2> SUFFICES ASSUME NEW d \in Callers, caller'[d] # Gateway!Idle
               PROVE  /\ caller'[d].number \in 1 .. asked'
                      /\ \A e \in Callers \ {d} : caller'[e] # Gateway!Idle => caller'[e].number # caller'[d].number
                      /\ \A o \in objects : o.by = caller'[d].number /\ caller'[d].kind # "transfer" =>
                           caller'[d].at # "list" /\ o.kind = caller'[d].kind /\ o.key = KeyOf(d)'
    BY <2>1 DEF ObjectsOfCalls
  <2>2. v # Gateway!Idle => \A e \in Callers \ {c} : caller[e] # Gateway!Idle => caller[e].number # v.number
    <3>1. CASE v # Gateway!Idle /\ v.number > asked
      BY <1>2, <1>6, <3>1
    <3>2. CASE caller[c].at # "idle" /\ v.number = caller[c].number
      BY <3>2 DEF GatewayInv, ObjectsOfCalls, Gateway!Idle
    <3> QED BY <3>1, <3>2
  <2>3. CASE d # c
    <3>1. caller'[d].number \in 1 .. asked'
      BY <1>1, <1>2, <1>6, <2>3
    <3>2. \A e \in Callers \ {d} : caller'[e] # Gateway!Idle => caller'[e].number # caller'[d].number
      BY <1>1, <2>2, <2>3 DEF GatewayInv, ObjectsOfCalls
    <3> QED BY <1>1, <1>5, <2>3, <3>1, <3>2 DEF GatewayInv, ObjectsOfCalls
  <2>4. CASE d = c
    <3>1. v # Gateway!Idle /\ v.number \in 1 .. asked'
      BY <1>1, <2>4
    <3>2. ASSUME NEW o \in objects, o.by = v.number, v.kind # "transfer"
          PROVE  v.at # "list" /\ o.kind = v.kind /\ o.key = KeyOf(c)'
      <4>1. v.number <= asked /\ caller[c].at # "idle" /\ v.number = caller[c].number /\ v.kind = caller[c].kind
            /\ (v.at = "list" => caller[c].at = "list")
        BY <1>2, <1>7, <3>1, <3>2
      <4>2. caller[c] # Gateway!Idle
        BY <4>1 DEF Gateway!Idle
      <4> QED BY <1>4, <3>1, <3>2, <4>1, <4>2 DEF GatewayInv, ObjectsOfCalls
    <3> QED BY <1>1, <2>2, <2>4, <3>1, <3>2
  <2> QED BY <2>3, <2>4
<1>9. CallersRegister'
  <2>1. CASE v.at = "post" /\ v.kind = "wire" /\ ~v.blind /\ Gateway!WireAccounts = {}
    <3>1. Registered' = {} /\ Registering' \subseteq Callers
      BY <2>1 DEF Registered, Registering, Gateway!WireAccounts
    <3> QED BY <3>1, FS_EmptySet, FS_Subset, FS_CardinalityType, GatewayConstants DEF CallersRegister
  <2>2. CASE ~(v.at = "post" /\ v.kind = "wire" /\ ~v.blind /\ Gateway!WireAccounts = {})
    <3>1. Registered' = Registered /\ Gateway!WireAccounts' = Gateway!WireAccounts
      BY DEF Registered, Gateway!WireAccounts
    <3>2. ASSUME NEW d \in Registering' PROVE d \in Registering
      <4>1. CASE d # c
        BY <1>1, <1>5, <3>1, <3>2, <4>1 DEF Registering
      <4>2. CASE d = c
        <5>1. v.at = "post" /\ v.kind = "wire" /\ ~v.blind /\ \A o \in Gateway!WireAccounts : o.key # KeyOf(c)'
          BY <1>1, <3>1, <3>2, <4>2 DEF Registering
        <5>2. caller[c].at = "post" /\ caller[c].kind = "wire" /\ ~caller[c].blind
          BY <2>2, <5>1
        <5>3. v # Gateway!Idle
          BY <5>1 DEF Gateway!Idle
        <5>4. CASE v.number <= asked
          BY <1>4, <4>2, <5>1, <5>2, <5>3, <5>4 DEF Registering
        <5>5. CASE v.number > asked /\ (v.at = "list" \/ v.kind # "wire")
          BY <5>1, <5>5
        <5>6. v.number \in 1 .. asked' /\ (v.number <= asked \/ (v.number > asked /\ (v.at = "list" \/ v.kind # "wire")))
          BY <1>2, <1>6, <5>2, <5>3 DEF Gateway!Idle
        <5> QED BY <5>4, <5>5, <5>6
      <4> QED BY <4>1, <4>2
    <3> QED BY <3>1, <3>2, CallersRegisterStill
  <2> QED BY <2>1, <2>2
<1> QED BY <1>1, <1>3, <1>8, <1>9 DEF GatewayInv, ObjectsDiffer

\* The provider makes what a call asks for, unless that is there.
LEMMA RequestKeeps ==
  ASSUME GatewayInv, NEW c \in Callers, caller[c].at = "post", objects' = Gateway!Requested(c), UNCHANGED asked,
         NEW v \in CallsInProgress, caller' = [caller EXCEPT ![c] = v],
         v # Gateway!Idle =>
           /\ v.number = caller[c].number /\ v.kind = caller[c].kind /\ v.key = caller[c].key /\ v.blind = caller[c].blind
           /\ v.at # "list"
  PROVE  GatewayInv'
<1>1. caller' \in [Callers -> CallsInProgress] /\ caller'[c] = v /\ \A d \in Callers \ {c} : caller'[d] = caller[d]
  BY DEF GatewayInv
<1>2. asked \in Nat /\ asked' = asked /\ asked <= MaxAsked /\ MaxAsked \in Nat
  BY GatewayConstants DEF GatewayInv, Gateway!TypeOK
<1>3. /\ caller[c] # Gateway!Idle /\ caller[c].kind \in Gateway!Kinds /\ caller[c].blind \in BOOLEAN
      /\ caller[c].key \in CallKeys \cup OtherKeys \cup {Gateway!None}
      /\ caller[c].number \in 1 .. asked /\ caller[c].attempt \in 1 .. MaxAttempts
  BY CallTypes
<1>4. PICK new : new = [kind |-> caller[c].kind, key |-> KeyOf(c), by |-> caller[c].number, blind |-> caller[c].blind]
  OBVIOUS
<1>5. /\ objects \subseteq objects' /\ objects' \subseteq objects \cup {new}
      /\ objects' = objects \/ ~ \E o \in objects : o.kind = new.kind /\ o.key = new.key
      /\ \E o \in objects' : o.kind = new.kind /\ o.key = new.key
  BY <1>4 DEF Gateway!Requested, Gateway!Made, KeyOf
<1>6. new.kind = caller[c].kind /\ new.key = KeyOf(c) /\ new.by = caller[c].number /\ new.blind = caller[c].blind
  BY <1>4
<1>7. Gateway!TypeOK'
  <2>1. KeyOf(c) \in (Gateway!Numbers \cup CallKeys \cup OtherKeys) \X (0 .. MaxAttempts)
    BY <1>2, <1>3, GatewayConstants DEF KeyOf, Gateway!PayloadKey, Gateway!Numbers
  <2>2. new \in [kind : Gateway!Kinds, key : (Gateway!Numbers \cup CallKeys \cup OtherKeys) \X (0 .. MaxAttempts),
                 by : Gateway!Numbers, blind : BOOLEAN]
    BY <1>2, <1>3, <1>4, <2>1 DEF Gateway!Numbers
  <2>3. \A d \in Callers : caller'[d].at \in {"idle", "list", "post", "instructions"}
    BY <1>1, CallPlaces
  <2> QED BY <1>2, <1>5, <2>2, <2>3 DEF GatewayInv, Gateway!TypeOK
<1>8. v # Gateway!Idle => KeyOf(c)' = KeyOf(c) \/ v.kind = "transfer"
  BY <1>1 DEF KeyOf, Gateway!PayloadKey
<1>9. \A d \in Callers \ {c} : KeyOf(d)' = KeyOf(d)
  BY <1>1 DEF KeyOf
<1>10. ObjectsOfCalls'
  <2>1. \A o \in objects' : o.by \in 1 .. asked'
    BY <1>2, <1>3, <1>5, <1>6 DEF GatewayInv, ObjectsOfCalls
  <2> SUFFICES ASSUME NEW d \in Callers, caller'[d] # Gateway!Idle
               PROVE  /\ caller'[d].number \in 1 .. asked'
                      /\ \A e \in Callers \ {d} : caller'[e] # Gateway!Idle => caller'[e].number # caller'[d].number
                      /\ \A o \in objects' : o.by = caller'[d].number /\ caller'[d].kind # "transfer" =>
                           caller'[d].at # "list" /\ o.kind = caller'[d].kind /\ o.key = KeyOf(d)'
    BY <2>1 DEF ObjectsOfCalls
  <2>2. caller[d] # Gateway!Idle /\ caller'[d].number = caller[d].number /\ caller'[d].kind = caller[d].kind
    BY <1>1, <1>3
  <2>3. \A e \in Callers \ {d} : caller'[e] # Gateway!Idle => caller'[e].number # caller'[d].number
    BY <1>1, <1>3, <2>2 DEF GatewayInv, ObjectsOfCalls
  <2>4. ASSUME NEW o \in objects', o.by = caller'[d].number, caller'[d].kind # "transfer"
        PROVE  caller'[d].at # "list" /\ o.kind = caller'[d].kind /\ o.key = KeyOf(d)'
    <3>1. CASE o \in objects
      <4>1. caller[d].at # "list" /\ o.kind = caller[d].kind /\ o.key = KeyOf(d)
        BY <2>2, <2>4, <3>1 DEF GatewayInv, ObjectsOfCalls
      <4> QED BY <1>1, <1>8, <1>9, <2>2, <2>4, <4>1
    <3>2. CASE o = new
      <4>1. d = c
        BY <1>3, <1>6, <2>2, <2>4, <3>2 DEF GatewayInv, ObjectsOfCalls
      <4> QED BY <1>1, <1>6, <1>8, <2>4, <3>2, <4>1
    <3> QED BY <1>5, <3>1, <3>2
  <2> QED BY <1>2, <2>2, <2>3, <2>4 DEF GatewayInv, ObjectsOfCalls
<1>11. ObjectsDiffer'
  <2>1. ASSUME NEW o \in objects, objects' # objects
        PROVE  (o.kind # new.kind \/ o.key # new.key) /\ (o.by # new.by \/ new.kind = "transfer")
    BY <1>3, <1>5, <1>6, <2>1 DEF GatewayInv, ObjectsOfCalls
  <2> SUFFICES ASSUME NEW o \in objects', NEW p \in objects', o # p
               PROVE  (o.kind # p.kind \/ o.key # p.key) /\ (o.by # p.by \/ o.kind = "transfer" \/ p.kind = "transfer")
    BY DEF ObjectsDiffer
  <2>2. CASE o \in objects /\ p \in objects
    BY <2>2 DEF GatewayInv, ObjectsDiffer
  <2>3. CASE o \notin objects \/ p \notin objects
    BY <1>5, <2>1, <2>3
  <2> QED BY <2>2, <2>3
<1>12. IsFiniteSet(objects')
  <2>1. objects' = objects \/ objects' = objects \cup {new}
    BY <1>5
  <2> QED BY <2>1, FS_AddElement DEF GatewayInv
<1>13. CallersRegister'
  <2>1. Registered' \subseteq Registered \cup {new} /\ Gateway!WireAccounts \subseteq Gateway!WireAccounts'
    BY <1>5 DEF Registered, Gateway!WireAccounts
  <2>2. Registering' \subseteq Registering
    <3> SUFFICES ASSUME NEW d \in Registering' PROVE d \in Registering
      OBVIOUS
    <3>1. CASE d # c
      BY <1>1, <1>9, <2>1, <3>1 DEF Registering
    <3>2. CASE d = c
      <4>1. v.at = "post" /\ v.kind = "wire" /\ ~v.blind /\ \A o \in Gateway!WireAccounts' : o.key # KeyOf(c)'
        BY <1>1, <3>2 DEF Registering
      <4>2. v # Gateway!Idle
        BY <4>1 DEF Gateway!Idle
      <4> QED BY <1>8, <2>1, <3>2, <4>1, <4>2 DEF Registering
    <3> QED BY <3>1, <3>2
  <2>3. CASE Registered' \subseteq Registered
    BY <2>2, <2>3, CallersRegisterStill
  <2>4. CASE ~(Registered' \subseteq Registered)
    <3>1. new \in Registered' /\ new \notin objects /\ new \in objects'
      BY <1>5, <2>1, <2>4 DEF Registered, Gateway!WireAccounts
    <3>2. caller[c].kind = "wire" /\ ~caller[c].blind /\ \A o \in Gateway!WireAccounts : o.key # KeyOf(c)
      BY <1>5, <1>6, <3>1 DEF Registered, Gateway!WireAccounts
    <3>3. c \in Registering
      BY <3>2 DEF Registering
    <3>4. c \notin Registering'
      <4> SUFFICES ASSUME c \in Registering' PROVE FALSE
        OBVIOUS
      <4>1. v.at = "post" /\ v.kind = "wire" /\ ~v.blind /\ \A o \in Gateway!WireAccounts' : o.key # KeyOf(c)'
        BY <1>1 DEF Registering
      <4>2. v # Gateway!Idle
        BY <4>1 DEF Gateway!Idle
      <4>3. new \in Gateway!WireAccounts' /\ new.key = KeyOf(c)'
        BY <1>6, <1>8, <3>1, <4>1, <4>2 DEF Registered
      <4> QED BY <4>1, <4>3
    <3>5. Registering' \subseteq Registering \ {c}
      BY <2>2, <3>4
    <3>6. /\ IsFiniteSet(Registering \ {c}) /\ Cardinality(Registering \ {c}) = Cardinality(Registering) - 1
      BY <3>3, RegisterFinite, FS_RemoveElement
    <3>7. IsFiniteSet(Registering') /\ Cardinality(Registering') <= Cardinality(Registering) - 1 /\ Cardinality(Registering') \in Nat
      BY <3>5, <3>6, FS_Subset, FS_CardinalityType
    <3>8. IsFiniteSet(Registered \cup {new}) /\ Cardinality(Registered \cup {new}) <= Cardinality(Registered) + 1
          /\ Cardinality(Registered \cup {new}) \in Nat
      <4>1. IsFiniteSet(Registered \cup {new})
        BY RegisterFinite, FS_AddElement
      <4>2. Cardinality(Registered \cup {new}) = Cardinality(Registered) + 1
        <5>1. new \notin Registered
          BY <3>1 DEF Registered, Gateway!WireAccounts
        <5> QED BY <5>1, RegisterFinite, FS_AddElement
      <4> QED BY <4>1, <4>2, RegisterFinite
    <3>9. Cardinality(Registered') <= Cardinality(Registered) + 1 /\ Cardinality(Registered') \in Nat
      BY <2>1, <3>8, FS_Subset, FS_CardinalityType
    <3> QED BY <3>7, <3>9, RegisterFinite DEF GatewayInv, CallersRegister
  <2> QED BY <2>3, <2>4
<1> QED BY <1>1, <1>7, <1>10, <1>11, <1>12, <1>13 DEF GatewayInv

LEMMA AgainIsCall ==
  ASSUME GatewayInv, NEW c \in Callers, caller[c].at \in {"post", "instructions"},
         Gateway!End(c) \/ Gateway!Again(c) \/ Gateway!Fetch(c)
  PROVE  \E v \in CallsInProgress :
           /\ caller' = [caller EXCEPT ![c] = v]
           /\ v # Gateway!Idle =>
                /\ v.number = caller[c].number /\ v.kind = caller[c].kind /\ v.key = caller[c].key /\ v.blind = caller[c].blind
                /\ v.at \in {caller[c].at, "instructions"}
<1>1. PICK x \in CallRecords : x = caller[c] /\ x.at # "list"
  BY CallTypes
<1>2. CASE Gateway!End(c)
  BY <1>2, CallIsIdleOrRecord DEF Gateway!End
<1>3. CASE Gateway!Fetch(c)
  <2>1. PICK v : v = [x EXCEPT !.at = "instructions", !.attempt = 1]
    OBVIOUS
  <2>2. /\ v.at = "instructions" /\ v.number = x.number /\ v.kind = x.kind /\ v.key = x.key /\ v.blind = x.blind
    BY <2>1 DEF CallRecords
  <2>4. v \in CallRecords
    BY <1>1, <2>1, GatewayConstants DEF CallRecords
  <2>3. caller' = [caller EXCEPT ![c] = v]
    BY <1>1, <1>3, <2>1, CallTypes DEF Gateway!Fetch, GatewayInv, CallRecords
  <2> QED BY <1>1, <2>2, <2>3, <2>4, CallIsIdleOrRecord
<1>4. CASE Gateway!Again(c) /\ x.attempt < MaxAttempts
  <2>1. PICK v : v = [x EXCEPT !.attempt = x.attempt + 1]
    OBVIOUS
  <2>2. /\ v.at = x.at /\ v.number = x.number /\ v.kind = x.kind /\ v.key = x.key /\ v.blind = x.blind
        /\ v \in CallRecords
    BY <1>4, <2>1, GatewayConstants DEF CallRecords
  <2>3. caller' = [caller EXCEPT ![c] = v]
    BY <1>1, <1>4, <2>1 DEF Gateway!Again, GatewayInv
  <2> QED BY <1>1, <2>2, <2>3, CallIsIdleOrRecord
<1>5. CASE Gateway!Again(c) /\ ~(x.attempt < MaxAttempts)
  <2>1. caller' = [caller EXCEPT ![c] = Gateway!Idle]
    BY <1>1, <1>5 DEF Gateway!Again, GatewayInv
  <2> QED BY <2>1, CallIsIdleOrRecord
<1> QED BY <1>2, <1>3, <1>4, <1>5

\* A call is made.
LEMMA CallKeeps ==
  ASSUME GatewayInv, NEW c \in Callers, NEW kind \in Gateway!Kinds, NEW key \in Gateway!Keys(kind), Gateway!Call(c, kind, key)
  PROVE  GatewayInv'
<1>1. asked \in Nat /\ asked' = asked + 1 /\ asked < MaxAsked /\ MaxAsked \in Nat /\ MaxAttempts \in Nat \ {0}
  BY GatewayConstants DEF Gateway!Call, GatewayInv, Gateway!TypeOK
<1>2. PICK v : v = [at |-> IF kind = "wire" THEN "list" ELSE "post", kind |-> kind, key |-> key,
                   number |-> asked', attempt |-> IF kind = "wallet" THEN MaxAttempts ELSE 1, blind |-> FALSE]
  OBVIOUS
<1>3. key \in CallKeys \cup OtherKeys \cup {Gateway!None}
  BY DEF Gateway!Keys, Gateway!Kinds
<1>4. v \in CallsInProgress
  <2>1. v \in CallRecords
    BY <1>1, <1>2, <1>3 DEF CallRecords
  <2>2. v.at = "list" => v.kind = "wire" /\ v.blind = FALSE
    BY <1>2
  <2> QED BY <2>1, <2>2 DEF CallsInProgress
<1>5. v.number = asked' /\ v.kind = kind /\ (IF kind = "wire" THEN v.at = "list" ELSE v.at = "post")
  BY <1>2
<1>6. caller' = [caller EXCEPT ![c] = v] /\ UNCHANGED objects
  BY <1>2 DEF Gateway!Call
<1>7. asked' \in asked .. MaxAsked /\ v.number \in 1 .. asked' /\ v.number > asked
  BY <1>1, <1>5
<1> QED BY <1>4, <1>5, <1>6, <1>7, CallMoves

\* The wire accounts are listed, or cannot be.
LEMMA ListKeeps ==
  ASSUME GatewayInv, NEW c \in Callers, Gateway!Listed(c) \/ Gateway!NotListed(c)
  PROVE  GatewayInv'
<1>1. PICK x \in CallRecords : x = caller[c] /\ x.at = "list" /\ x.kind = "wire"
  BY CallTypes DEF Gateway!Listed, Gateway!NotListed
<1>2. x.number \in 1 .. asked /\ asked \in asked .. MaxAsked
  <2>1. x.number \in 1 .. asked
    BY <1>1, CallTypes
  <2>2. asked \in asked .. MaxAsked
    BY GatewayConstants DEF GatewayInv, Gateway!TypeOK
  <2> QED BY <2>1, <2>2
<1>3. PICK v \in CallsInProgress :
        /\ caller' = [caller EXCEPT ![c] = v]
        /\ v # Gateway!Idle => v.number = x.number /\ v.kind = x.kind /\ v.key = x.key /\ v.at # "list"
        /\ v.at = "post" /\ ~v.blind => Gateway!WireAccounts = {}
  <2>1. CASE Gateway!NotListed(c)
    <3>1. PICK v : v = [x EXCEPT !.at = "post", !.blind = TRUE]
      OBVIOUS
    <3>2. v \in CallsInProgress /\ v.at = "post" /\ v.blind = TRUE /\ v.number = x.number /\ v.kind = x.kind /\ v.key = x.key
      BY <1>1, <3>1, CallIsIdleOrRecord DEF CallRecords
    <3>3. caller' = [caller EXCEPT ![c] = v]
      BY <1>1, <2>1, <3>1 DEF Gateway!NotListed
    <3> QED BY <3>2, <3>3
  <2>2. CASE Gateway!Listed(c) /\ Gateway!Fetch(c)
    <3>1. PICK v : v = [x EXCEPT !.at = "instructions", !.attempt = 1]
      OBVIOUS
    <3>2. v \in CallRecords
      BY <3>1, GatewayConstants DEF CallRecords
    <3>4. v \in CallsInProgress /\ v.at = "instructions" /\ v.number = x.number /\ v.kind = x.kind /\ v.key = x.key
      BY <3>1, <3>2, CallIsIdleOrRecord DEF CallRecords
    <3>3. caller' = [caller EXCEPT ![c] = v]
      BY <1>1, <2>2, <3>1, CallTypes DEF Gateway!Fetch, GatewayInv, CallRecords
    <3> QED BY <3>3, <3>4
  <2>3. CASE Gateway!Listed(c) /\ Gateway!End(c)
    BY <2>3, CallIsIdleOrRecord DEF Gateway!End
  <2>4. CASE /\ Gateway!Listed(c) /\ caller' = [caller EXCEPT ![c].at = "post"]
             /\ ~Gateway!Reusable(Gateway!WireAccounts) /\ ~(Gateway!Cardinality(Gateway!WireAccounts) > 1)
    <3>1. PICK v : v = [x EXCEPT !.at = "post"]
      OBVIOUS
    <3>2. v \in CallsInProgress /\ v.at = "post" /\ v.number = x.number /\ v.kind = x.kind /\ v.key = x.key
      BY <1>1, <3>1, CallIsIdleOrRecord DEF CallRecords
    <3>3. caller' = [caller EXCEPT ![c] = v]
      BY <1>1, <2>4, <3>1
    <3>4. Cardinality(Gateway!WireAccounts) = 0
      BY <2>4, RegisterFinite, FS_CardinalityType, GatewayFiniteSets DEF Gateway!Reusable
    <3>5. Gateway!WireAccounts = {}
      BY <3>4, RegisterFinite, FS_EmptySet
    <3> QED BY <3>2, <3>3, <3>5
  <2> QED BY <2>1, <2>2, <2>3, <2>4 DEF Gateway!Listed
<1>4. UNCHANGED <<objects, asked>>
  BY DEF Gateway!Listed, Gateway!NotListed
<1>5. caller[c].at # "idle" /\ (v.at = "post" => v # Gateway!Idle)
  BY <1>1, CallIsIdleOrRecord
<1> QED BY <1>1, <1>2, <1>3, <1>4, <1>5, CallMoves

LEMMA GatewayKeeps ==
  ASSUME GatewayInv, [Gateway!Next]_gatewayVars
  PROVE  GatewayInv'
<1>0. asked \in asked .. MaxAsked
  BY GatewayConstants DEF GatewayInv, Gateway!TypeOK
<1>1. CASE UNCHANGED gatewayVars
  <2>1. UNCHANGED <<objects, asked, caller>>
    BY <1>1 DEF gatewayVars
  <2>2. UNCHANGED <<Registered, Registering>>
    BY <2>1 DEF Registered, Registering, KeyOf, Gateway!WireAccounts
  <2>3. CallersRegister'
    BY <2>2, CallersRegisterStill
  <2> QED BY <2>1, <2>3 DEF GatewayInv, Gateway!TypeOK, ObjectsOfCalls, ObjectsDiffer, KeyOf
<1>2. ASSUME NEW c \in Callers, NEW kind \in Gateway!Kinds, NEW key \in Gateway!Keys(kind), Gateway!Call(c, kind, key)
      PROVE  GatewayInv'
  BY <1>2, CallKeeps
<1>3. ASSUME NEW c \in Callers, Gateway!Answered(c) \/ Gateway!AnswerLost(c) PROVE GatewayInv'
  <2>1. caller[c].at = "post" /\ objects' = Gateway!Requested(c) /\ UNCHANGED asked
        /\ (Gateway!End(c) \/ Gateway!Again(c) \/ Gateway!Fetch(c))
    BY <1>3 DEF Gateway!Answered, Gateway!AnswerLost
  <2>2. PICK v \in CallsInProgress :
          /\ caller' = [caller EXCEPT ![c] = v]
          /\ v # Gateway!Idle =>
               /\ v.number = caller[c].number /\ v.kind = caller[c].kind /\ v.key = caller[c].key /\ v.blind = caller[c].blind
               /\ v.at \in {caller[c].at, "instructions"}
    BY <2>1, AgainIsCall
  <2> QED BY <2>1, <2>2, RequestKeeps
<1>4. ASSUME NEW c \in Callers, Gateway!RequestLost(c) \/ Gateway!Refused(c) \/ Gateway!Instructions(c) PROVE GatewayInv'
  <2>1. caller[c].at \in {"post", "instructions"} /\ UNCHANGED <<objects, asked>>
        /\ (Gateway!End(c) \/ Gateway!Again(c) \/ Gateway!Fetch(c))
    BY <1>4 DEF Gateway!RequestLost, Gateway!Refused, Gateway!Instructions
  <2>2. PICK v \in CallsInProgress :
          /\ caller' = [caller EXCEPT ![c] = v]
          /\ v # Gateway!Idle =>
               /\ v.number = caller[c].number /\ v.kind = caller[c].kind /\ v.key = caller[c].key /\ v.blind = caller[c].blind
               /\ v.at \in {caller[c].at, "instructions"}
    BY <2>1, AgainIsCall
  <2>3. v # Gateway!Idle => v.number \in 1 .. asked
    BY <2>1, <2>2, CallTypes
  <2>4. v.at # "idle" <=> v # Gateway!Idle
    BY CallIsIdleOrRecord
  <2> QED BY <1>0, <2>1, <2>2, <2>3, <2>4, CallMoves DEF Gateway!Idle
<1>5. ASSUME NEW c \in Callers, Gateway!Listed(c) \/ Gateway!NotListed(c) PROVE GatewayInv'
  BY <1>5, ListKeeps
<1> QED BY <1>1, <1>2, <1>3, <1>4, <1>5 DEF Gateway!Next

\* Objects that differ are not of one call, and so are few.
LEMMA ObjectsOfGateway ==
  ASSUME GatewayInv
  PROVE  Gateway!OneObjectPerCall /\ Gateway!RegisteredAgainInOverlapOnly
<1>1. Gateway!OneObjectPerCall
  <2> SUFFICES ASSUME NEW n \in Gateway!Numbers
               PROVE  Cardinality({o \in objects : o.by = n /\ o.kind # "transfer"}) <= 1
    BY GatewayFiniteSets DEF Gateway!OneObjectPerCall
  <2>1. PICK made : made = {o \in objects : o.by = n /\ o.kind # "transfer"}
    OBVIOUS
  <2>2. made = {} \/ \E o : made = {o}
    BY <2>1 DEF GatewayInv, ObjectsDiffer
  <2>3. Cardinality(made) <= 1
    <3>1. CASE made = {}
      BY <3>1, FS_EmptySet
    <3>2. ASSUME NEW o, made = {o} PROVE Cardinality(made) = 1
      BY <3>2, FS_Singleton
    <3> QED BY <2>2, <3>1, <3>2
  <2> QED BY <2>1, <2>3
<1>2. Gateway!RegisteredAgainInOverlapOnly
  <2>1. Cardinality(Registered) <= Cardinality(Callers)
    BY RegisterFinite DEF GatewayInv, CallersRegister
  <2> QED BY <2>1, GatewayFiniteSets DEF Registered, Gateway!RegisteredAgainInOverlapOnly
<1> QED BY <1>1, <1>2

-----------------------------------------------------------------------------
(* ApiRuntimeState *)

RequestRows ==
  [at : {"work", "commit", "save", "saving"}, command : Commands,
   outcome : {"none", "ok", "refused", "unavailable"}, copy : Runtime!Copy]
JobRows == [at : {"loaded"}, copy : Runtime!Copy]

\* What EffectsMatchRecords says of each copy.
Sound(copy) == \A c \in Commands : copy.done[c] = IF copy.record[c] = "ok" THEN 1 ELSE 0
SoundCopies == {copy \in Runtime!Copy : Sound(copy)}

\* A handler works on a copy that has no record of its command.
RuntimeInv ==
  /\ memory \in SoundCopies /\ snapshot \in SoundCopies
  /\ request \in [Handlers -> {Runtime!Idle} \cup RequestRows]
  /\ \A h \in Handlers : request[h] # Runtime!Idle =>
       /\ request[h].copy \in SoundCopies
       /\ request[h].at = "work" => request[h].copy.record[request[h].command] = "none"
  /\ job \in {Runtime!Idle} \cup JobRows
  /\ job # Runtime!Idle => job.copy \in SoundCopies

LEMMA RequestIsBusy == Runtime!Idle.at = "idle" /\ \A v \in RequestRows : v # Runtime!Idle
BY DEF Runtime!Idle, RequestRows

LEMMA InitialIsSound == Runtime!Initial \in SoundCopies
BY RuntimeAssumption DEF Runtime!Initial, SoundCopies, Sound, Runtime!Copy, Runtime!MaxRunsNat

LEMMA RuntimeInit == Runtime!Init => RuntimeInv
BY InitialIsSound DEF Runtime!Init, RuntimeInv

LEMMA LoadedIsSound ==
  ASSUME NEW row0 \in SoundCopies, NEW loaded \in Runtime!Loaded(row0) PROVE loaded \in SoundCopies
BY InitialIsSound DEF Runtime!Loaded

\* The effect of a command comes with its record.
LEMMA AppliedIsSound ==
  ASSUME NEW copy \in SoundCopies, NEW c \in Commands, copy.record[c] = "none", copy.done[c] < MaxRuns,
         NEW outcome \in {"ok", "refused", "unavailable"}
  PROVE  Runtime!Applied(copy, c, outcome) \in SoundCopies
<1>1. PICK s : s = Runtime!Applied(copy, c, outcome)
  OBVIOUS
<1>2. /\ copy \in [done : [Commands -> 0 .. MaxRuns], record : [Commands -> {"none", "ok", "refused"}]]
      /\ copy.done[c] = 0 /\ MaxRuns \in Nat /\ Sound(copy)
  BY RuntimeAssumption DEF SoundCopies, Runtime!Copy, Sound, Runtime!MaxRunsNat
<1>3. copy.done \in [Commands -> 0 .. MaxRuns] /\ copy.record \in [Commands -> {"none", "ok", "refused"}]
  BY <1>2
<1>4. PICK done, record :
        /\ done = [copy.done EXCEPT ![c] = IF outcome = "ok" THEN @ + 1 ELSE @]
        /\ record = [copy.record EXCEPT ![c] = IF outcome \in {"ok", "refused"} THEN outcome ELSE @]
        /\ s = [done |-> done, record |-> record]
  BY <1>1 DEF Runtime!Applied
<1>5. done \in [Commands -> 0 .. MaxRuns] /\ record \in [Commands -> {"none", "ok", "refused"}]
  BY <1>2, <1>3, <1>4
<1>6. \A b \in Commands : done[b] = IF record[b] = "ok" THEN 1 ELSE 0
  BY <1>2, <1>3, <1>4 DEF Sound
<1>7. s \in Runtime!Copy /\ Sound(s)
  BY <1>4, <1>5, <1>6 DEF Runtime!Copy, Sound
<1> QED BY <1>1, <1>7 DEF SoundCopies

\* One request moves on.
LEMMA RequestMoves ==
  ASSUME RuntimeInv, NEW h \in Handlers, NEW v \in {Runtime!Idle} \cup RequestRows, request' = [request EXCEPT ![h] = v],
         v # Runtime!Idle => v.copy \in SoundCopies /\ (v.at = "work" => v.copy.record[v.command] = "none"),
         memory' \in SoundCopies, snapshot' \in SoundCopies, UNCHANGED job
  PROVE  RuntimeInv'
<1>1. /\ request' \in [Handlers -> {Runtime!Idle} \cup RequestRows] /\ request'[h] = v
      /\ \A g \in Handlers \ {h} : request'[g] = request[g]
  BY DEF RuntimeInv
<1>2. \A g \in Handlers : request'[g] # Runtime!Idle =>
       /\ request'[g].copy \in SoundCopies
       /\ request'[g].at = "work" => request'[g].copy.record[request'[g].command] = "none"
  BY <1>1 DEF RuntimeInv
<1> QED BY <1>1, <1>2 DEF RuntimeInv

LEMMA RequestTypes ==
  ASSUME RuntimeInv, NEW h \in Handlers, request[h].at # "idle"
  PROVE  /\ request[h] \in RequestRows /\ request[h].copy \in SoundCopies
         /\ request[h].at = "work" => request[h].copy.record[request[h].command] = "none"
BY RequestIsBusy DEF RuntimeInv

LEMMA RuntimeKeeps ==
  ASSUME RuntimeInv, [Runtime!Next]_runtimeVars PROVE RuntimeInv'
<1>1. CASE UNCHANGED runtimeVars
  BY <1>1 DEF runtimeVars, RuntimeInv
<1>2. ASSUME NEW h \in Handlers, NEW c \in Commands, Runtime!Begin(h, c) PROVE RuntimeInv'
  <2>1. PICK v : v = [at |-> "work", command |-> c, outcome |-> "none", copy |-> memory]
    OBVIOUS
  <2>2. v \in RequestRows /\ v.copy \in SoundCopies /\ v.copy.record[v.command] = "none"
    BY <1>2, <2>1 DEF Runtime!Begin, Runtime!NoRecord, RuntimeInv, RequestRows, SoundCopies
  <2>3. request' = [request EXCEPT ![h] = v] /\ UNCHANGED <<memory, snapshot, job>>
    BY <1>2, <2>1 DEF Runtime!Begin
  <2> QED BY <2>2, <2>3, RequestMoves DEF RuntimeInv
<1>3. ASSUME NEW h \in Handlers, NEW outcome \in {"ok", "refused", "unavailable"}, Runtime!Work(h, outcome)
      PROVE  RuntimeInv'
  <2>1. /\ request[h] \in RequestRows /\ request[h].copy \in SoundCopies /\ request[h].at = "work"
        /\ request[h].copy.record[request[h].command] = "none" /\ UNCHANGED <<memory, snapshot, job>>
        /\ request[h].copy.done[request[h].command] < MaxRuns
    BY <1>3, RequestTypes DEF Runtime!Work
  <2>2. PICK s \in SoundCopies : s = Runtime!Applied(request[h].copy, request[h].command, outcome)
    BY <2>1, AppliedIsSound DEF RequestRows
  <2>3. PICK v : v = [request[h] EXCEPT !.at = "commit", !.outcome = outcome, !.copy = s]
    OBVIOUS
  <2>4. v \in RequestRows /\ v.copy = s /\ v.at = "commit"
    BY <2>1, <2>2, <2>3 DEF RequestRows, SoundCopies
  <2>5. request' = [request EXCEPT ![h] = v]
    BY <1>3, <2>2, <2>3 DEF Runtime!Work, RuntimeInv
  <2> QED BY <2>1, <2>4, <2>5, RequestMoves DEF RuntimeInv
<1>4. ASSUME NEW h \in Handlers, Runtime!Abort(h) PROVE RuntimeInv'
  BY <1>4, RequestMoves DEF Runtime!Abort, RuntimeInv
<1>5. ASSUME NEW h \in Handlers, Runtime!Replace(h) PROVE RuntimeInv'
  <2>1. /\ request[h] \in RequestRows /\ request[h].copy \in SoundCopies
        /\ memory' = request[h].copy /\ UNCHANGED <<snapshot, job>>
    BY <1>5, RequestTypes DEF Runtime!Replace
  <2>2. PICK v : v = [request[h] EXCEPT !.at = "save"]
    OBVIOUS
  <2>3. v \in RequestRows /\ v.copy = request[h].copy /\ v.at = "save"
    BY <2>1, <2>2 DEF RequestRows
  <2>4. request' = [request EXCEPT ![h] = v]
    BY <1>5, <2>2 DEF Runtime!Replace, RuntimeInv
  <2> QED BY <2>1, <2>3, <2>4, RequestMoves DEF RuntimeInv
<1>6. ASSUME NEW h \in Handlers, Runtime!StartSave(h) PROVE RuntimeInv'
  <2>1. request[h] \in RequestRows /\ UNCHANGED <<memory, snapshot, job>>
    BY <1>6, RequestTypes DEF Runtime!StartSave
  <2>2. PICK v : v = [request[h] EXCEPT !.at = "saving", !.copy = memory]
    OBVIOUS
  <2>3. v \in RequestRows /\ v.copy \in SoundCopies /\ v.at = "saving"
    BY <2>1, <2>2 DEF RequestRows, RuntimeInv, SoundCopies
  <2>4. request' = [request EXCEPT ![h] = v]
    BY <1>6, <2>2 DEF Runtime!StartSave, RuntimeInv
  <2> QED BY <2>1, <2>3, <2>4, RequestMoves DEF RuntimeInv
<1>7. ASSUME NEW h \in Handlers, NEW saved \in BOOLEAN, Runtime!FinishSave(h, saved) PROVE RuntimeInv'
  <2>1. request[h].copy \in SoundCopies /\ snapshot' = IF saved THEN request[h].copy ELSE snapshot
    BY <1>7, RequestTypes DEF Runtime!FinishSave
  <2>2. snapshot' \in SoundCopies
    BY <2>1 DEF RuntimeInv
  <2> QED BY <1>7, <2>2, RequestMoves DEF Runtime!FinishSave, RuntimeInv
<1>8. CASE Runtime!Restart
  <2>1. snapshot' \in SoundCopies
    BY <1>8, RequestTypes DEF Runtime!Restart, RuntimeInv
  <2>2. memory' \in SoundCopies
    BY <1>8, <2>1, LoadedIsSound DEF Runtime!Restart
  <2> QED BY <1>8, <2>1, <2>2 DEF Runtime!Restart, RuntimeInv
<1>9. CASE Runtime!JobLoad
  <2>1. PICK copy \in Runtime!Loaded(snapshot) : job' = [at |-> "loaded", copy |-> copy]
    BY <1>9 DEF Runtime!JobLoad
  <2>2. copy \in SoundCopies
    BY <2>1, LoadedIsSound DEF RuntimeInv
  <2>3. job' \in JobRows /\ job'.copy = copy
    BY <2>1, <2>2 DEF JobRows, SoundCopies
  <2> QED BY <1>9, <2>2, <2>3 DEF Runtime!JobLoad, RuntimeInv
<1>10. CASE Runtime!JobSave
  BY <1>10 DEF Runtime!JobSave, RuntimeInv
<1> QED BY <1>1, <1>2, <1>3, <1>4, <1>5, <1>6, <1>7, <1>8, <1>9, <1>10 DEF Runtime!Next

LEMMA EffectsOfCommands ==
  ASSUME RuntimeInv
  PROVE  Runtime!TypeOK /\ Runtime!EffectsMatchRecords
<1>1. Runtime!TypeOK
  BY DEF RuntimeInv, Runtime!TypeOK, SoundCopies, RequestRows, JobRows
<1>2. Runtime!Copies \subseteq SoundCopies
  BY DEF RuntimeInv, Runtime!Copies
<1> QED BY <1>1, <1>2 DEF Runtime!EffectsMatchRecords, SoundCopies, Sound

-----------------------------------------------------------------------------
(* WebhookInbox *)

Inserting == [at : {"insert"}, event : Events]
Ingesting ==
  [at : {"process", "commit"}, event : Events, status : {"received", "processed", "failed"},
   letters : 0 .. 1, writes : 0 .. Writes, break : {"none", "open"}]
DeliveryStates == {Webhooks!Idle} \cup Inserting \cup Ingesting

\* What a delivery is about to commit is the whole of the event or a dead letter.
Whole(t) ==
  /\ t.at = "process" => t.letters = 0 /\ (t.break = "open" => t.writes = Writes)
  /\ t.at = "commit" =>
       \/ t.status = "processed" /\ t.letters = 0 /\ t.writes = Writes
       \/ t.status = "failed" /\ t.letters = 1 /\ t.writes = 0 /\ t.break = "none"

\* One delivery at a time is past the insert of an event, and the event is not on
\* record meanwhile.
IngestedAlone ==
  \A d \in Deliveries : delivery[d] \in Ingesting =>
    /\ Whole(delivery[d])
    /\ inbox[delivery[d].event] = Webhooks!None
    /\ \A x \in Deliveries \ {d} : delivery[x] \in Ingesting => delivery[x].event # delivery[d].event

\* An event has no effect before it is on record.
EffectsOnRecord ==
  \A e \in Events :
    \/ inbox[e] = Webhooks!None /\ effects[e] = 0 /\ deadLetters[e] = 0 /\ breaks[e] = "none"
    \/ inbox[e] # Webhooks!None /\ effects[e] = Writes /\ deadLetters[e] = 0
    \/ inbox[e] # Webhooks!None /\ effects[e] = 0 /\ deadLetters[e] = 1 /\ breaks[e] = "none"

WebhooksInv ==
  /\ inbox \in [Events -> {Webhooks!None} \cup [status : {"processed", "failed"}, retries : 0 .. MaxReprocess]]
  /\ deadLetters \in [Events -> 0 .. 1] /\ effects \in [Events -> 0 .. Writes]
  /\ breaks \in [Events -> {"none", "open", "resolved"}]
  /\ delivery \in [Deliveries -> DeliveryStates]
  /\ IngestedAlone
  /\ EffectsOnRecord

LEMMA WritesAre == Writes \in Nat \ {0} /\ MaxReprocess \in Nat
BY WebhooksAssumption DEF Webhooks!WritesPositive, Webhooks!MaxReprocessNat

LEMMA DeliveryPlaces ==
  /\ Webhooks!Idle \in DeliveryStates /\ Webhooks!Idle \notin Ingesting
  /\ \A v \in Inserting : v.at = "insert" /\ v.event \in Events /\ v \notin Ingesting
  /\ \A v \in Ingesting : v.at \in {"process", "commit"} /\ v.event \in Events
  /\ \A v \in DeliveryStates : /\ v.at = "insert" => v \in Inserting
                               /\ v.at \in {"process", "commit"} => v \in Ingesting
<1>1. Webhooks!Idle.at = "idle"
  BY DEF Webhooks!Idle
<1>2. \A v \in Inserting : v.at = "insert" /\ v.event \in Events
  BY DEF Inserting
<1>3. \A v \in Ingesting : v.at \in {"process", "commit"} /\ v.event \in Events
  BY DEF Ingesting
<1> QED BY <1>1, <1>2, <1>3 DEF DeliveryStates

LEMMA WebhooksInit == Webhooks!Init => WebhooksInv
<1> SUFFICES ASSUME Webhooks!Init PROVE WebhooksInv
  OBVIOUS
<1>1. \A d \in Deliveries : delivery[d] \notin Ingesting
  BY DeliveryPlaces DEF Webhooks!Init
<1>2. delivery \in [Deliveries -> DeliveryStates]
  BY DeliveryPlaces DEF Webhooks!Init
<1>3. EffectsOnRecord
  BY DEF Webhooks!Init, EffectsOnRecord
<1>4. /\ inbox \in [Events -> {Webhooks!None} \cup [status : {"processed", "failed"}, retries : 0 .. MaxReprocess]]
      /\ deadLetters \in [Events -> 0 .. 1] /\ effects \in [Events -> 0 .. Writes]
      /\ breaks \in [Events -> {"none", "open", "resolved"}]
  BY WritesAre DEF Webhooks!Init
<1> QED BY <1>1, <1>2, <1>3, <1>4 DEF WebhooksInv, IngestedAlone

\* One delivery moves on and commits nothing.
LEMMA DeliveryMoves ==
  ASSUME WebhooksInv, NEW d \in Deliveries, NEW v \in DeliveryStates, delivery' = [delivery EXCEPT ![d] = v],
         UNCHANGED <<inbox, deadLetters, effects, breaks>>,
         v \in Ingesting =>
           /\ Whole(v)
           /\ inbox[v.event] = Webhooks!None
           /\ \A x \in Deliveries \ {d} : delivery[x] \in Ingesting => delivery[x].event # v.event
  PROVE  WebhooksInv'
<1>1. /\ delivery' \in [Deliveries -> DeliveryStates] /\ delivery'[d] = v
      /\ \A x \in Deliveries \ {d} : delivery'[x] = delivery[x]
  BY DEF WebhooksInv
<1>2. IngestedAlone'
  <2>1. SUFFICES ASSUME NEW x \in Deliveries, delivery'[x] \in Ingesting
                 PROVE  /\ Whole(delivery'[x]) /\ inbox[delivery'[x].event] = Webhooks!None
                        /\ \A y \in Deliveries \ {x} : delivery'[y] \in Ingesting => delivery'[y].event # delivery'[x].event
    BY DEF IngestedAlone, Whole, Ingesting
  <2>2. CASE x = d
    BY <1>1, <2>1, <2>2
  <2>3. CASE x # d
    BY <1>1, <2>1, <2>3 DEF WebhooksInv, IngestedAlone
  <2> QED BY <2>2, <2>3
<1>3. EffectsOnRecord'
  BY DEF WebhooksInv, EffectsOnRecord
<1> QED BY <1>1, <1>2, <1>3 DEF WebhooksInv

\* A delivery past the insert, as one of Ingesting.
LEMMA IngestingTypes ==
  ASSUME WebhooksInv, NEW d \in Deliveries, delivery[d].at \in {"process", "commit"}
  PROVE  /\ delivery[d] \in Ingesting /\ Whole(delivery[d]) /\ inbox[delivery[d].event] = Webhooks!None
         /\ \A x \in Deliveries \ {d} : delivery[x] \in Ingesting => delivery[x].event # delivery[d].event
BY DeliveryPlaces DEF WebhooksInv, IngestedAlone

LEMMA IngestingMoves ==
  ASSUME WebhooksInv, NEW d \in Deliveries, delivery[d].at \in {"process", "commit"}, NEW v \in Ingesting, Whole(v),
         v.event = delivery[d].event, delivery' = [delivery EXCEPT ![d] = v],
         UNCHANGED <<inbox, deadLetters, effects, breaks>>
  PROVE  WebhooksInv'
<1>1. v \in DeliveryStates
  BY DEF DeliveryStates
<1> QED BY <1>1, IngestingTypes, DeliveryMoves

LEMMA InsertKeeps ==
  ASSUME WebhooksInv, NEW d \in Deliveries, NEW valid \in BOOLEAN, Webhooks!Insert(d, valid)
  PROVE  WebhooksInv'
<1>1. /\ delivery[d] \in Inserting /\ ~Webhooks!Pending(delivery[d].event)
      /\ UNCHANGED <<inbox, deadLetters, effects, breaks>>
  BY DeliveryPlaces DEF Webhooks!Insert, WebhooksInv
<1>2. PICK e \in Events : e = delivery[d].event
  BY <1>1, DeliveryPlaces
<1>3. CASE ~Webhooks!Free(e)
  <2>1. delivery' = [delivery EXCEPT ![d] = Webhooks!Idle]
    BY <1>2, <1>3 DEF Webhooks!Insert, WebhooksInv
  <2> QED BY <1>1, <2>1, DeliveryPlaces, DeliveryMoves
<1>4. CASE Webhooks!Free(e)
  <2>1. PICK v : v = [at |-> IF valid THEN "process" ELSE "commit", event |-> e,
             status |-> IF valid THEN "received" ELSE "failed",
             letters |-> IF valid THEN 0 ELSE 1, writes |-> 0, break |-> "none"]
    OBVIOUS
  <2>2. v \in Ingesting /\ v.event = e
    BY <2>1, WritesAre DEF Ingesting
  <2>3. Whole(v)
    BY <2>1 DEF Whole
  <2>4. delivery' = [delivery EXCEPT ![d] = v]
    BY <1>2, <1>4, <2>1 DEF Webhooks!Insert, WebhooksInv
  <2>5. \A x \in Deliveries : delivery[x] \in Ingesting => delivery[x].event # e
    BY <1>1, <1>2, DeliveryPlaces DEF Webhooks!Pending
  <2>6. inbox[e] = Webhooks!None /\ v \in DeliveryStates
    BY <1>4, <2>2 DEF Webhooks!Free, DeliveryStates
  <2> QED BY <1>1, <2>2, <2>3, <2>4, <2>5, <2>6, DeliveryMoves
<1> QED BY <1>3, <1>4

\* Rows change under no delivery that is past its insert of them.
LEMMA RecordsChange ==
  ASSUME WebhooksInv, NEW e \in Events, NEW d0, d0 \notin Deliveries \/ delivery'[d0] = Webhooks!Idle,
         \A x \in Deliveries : x # d0 => delivery'[x] = delivery[x],
         delivery' \in [Deliveries -> DeliveryStates],
         \A x \in Deliveries : x # d0 /\ delivery[x] \in Ingesting => delivery[x].event # e,
         \A f \in Events \ {e} : inbox'[f] = inbox[f]
  PROVE  IngestedAlone'
<1>1. SUFFICES ASSUME NEW x \in Deliveries, delivery'[x] \in Ingesting
               PROVE  /\ Whole(delivery'[x]) /\ inbox'[delivery'[x].event] = Webhooks!None
                      /\ \A y \in Deliveries \ {x} : delivery'[y] \in Ingesting => delivery'[y].event # delivery'[x].event
  BY DEF IngestedAlone, Whole, Ingesting
<1>2. x # d0 /\ delivery'[x] = delivery[x]
  BY <1>1, DeliveryPlaces
<1>3. /\ Whole(delivery[x]) /\ inbox[delivery[x].event] = Webhooks!None
      /\ \A y \in Deliveries \ {x} : delivery[y] \in Ingesting => delivery[y].event # delivery[x].event
  BY <1>1, <1>2 DEF WebhooksInv, IngestedAlone
<1>4. delivery[x].event \in Events \ {e}
  BY <1>1, <1>2, DeliveryPlaces
<1>5. \A y \in Deliveries : delivery'[y] \in Ingesting => delivery'[y] = delivery[y]
  BY DeliveryPlaces
<1> QED BY <1>2, <1>3, <1>4, <1>5

LEMMA CommitDeliveryKeeps ==
  ASSUME WebhooksInv, NEW d \in Deliveries, Webhooks!Commit(d)
  PROVE  WebhooksInv'
<1>1. PICK t \in Ingesting : t = delivery[d] /\ t.at = "commit"
  BY IngestingTypes DEF Webhooks!Commit
<1>2. /\ Whole(t) /\ inbox[t.event] = Webhooks!None
      /\ \A x \in Deliveries \ {d} : delivery[x] \in Ingesting => delivery[x].event # t.event
  BY <1>1, IngestingTypes
<1>3. PICK e \in Events : e = t.event
  BY <1>1, DeliveryPlaces
<1>4. /\ inbox' = [inbox EXCEPT ![e] = [status |-> t.status, retries |-> 0]]
      /\ deadLetters' = [deadLetters EXCEPT ![e] = @ + t.letters]
      /\ effects' = [effects EXCEPT ![e] = @ + t.writes]
      /\ breaks' = [breaks EXCEPT ![e] = IF t.break = "open" THEN "open" ELSE @]
      /\ delivery' = [delivery EXCEPT ![d] = Webhooks!Idle]
  BY <1>1, <1>3 DEF Webhooks!Commit
<1>5. /\ t.status \in {"received", "processed", "failed"} /\ t.letters \in 0 .. 1 /\ t.writes \in 0 .. Writes
      /\ t.break \in {"none", "open"}
  BY <1>1 DEF Ingesting
<1>6. \/ t.status = "processed" /\ t.letters = 0 /\ t.writes = Writes
      \/ t.status = "failed" /\ t.letters = 1 /\ t.writes = 0 /\ t.break = "none"
  BY <1>1, <1>2 DEF Whole
<1>7. effects[e] = 0 /\ deadLetters[e] = 0 /\ breaks[e] = "none"
  BY <1>2, <1>3 DEF WebhooksInv, EffectsOnRecord
<1>8. PICK row0 : row0 = [status |-> t.status, retries |-> 0]
  OBVIOUS
<1>9. row0 \in [status : {"processed", "failed"}, retries : 0 .. MaxReprocess] /\ row0 # Webhooks!None
  BY <1>6, <1>8, WritesAre DEF Webhooks!None
<1>10. /\ inbox' \in [Events -> {Webhooks!None} \cup [status : {"processed", "failed"}, retries : 0 .. MaxReprocess]]
       /\ inbox'[e] = row0 /\ \A f \in Events \ {e} : inbox'[f] = inbox[f]
  BY <1>4, <1>8, <1>9 DEF WebhooksInv
<1>11. /\ deadLetters' \in [Events -> 0 .. 1] /\ effects' \in [Events -> 0 .. Writes]
       /\ breaks' \in [Events -> {"none", "open", "resolved"}]
       /\ deadLetters'[e] = t.letters /\ effects'[e] = t.writes /\ (t.break = "none" => breaks'[e] = "none")
       /\ \A f \in Events \ {e} : /\ deadLetters'[f] = deadLetters[f] /\ effects'[f] = effects[f]
                                  /\ breaks'[f] = breaks[f]
  BY <1>4, <1>5, <1>7, WritesAre DEF WebhooksInv
<1>12. EffectsOnRecord'
  <2> SUFFICES ASSUME NEW f \in Events
               PROVE  \/ inbox'[f] = Webhooks!None /\ effects'[f] = 0 /\ deadLetters'[f] = 0 /\ breaks'[f] = "none"
                      \/ inbox'[f] # Webhooks!None /\ effects'[f] = Writes /\ deadLetters'[f] = 0
                      \/ inbox'[f] # Webhooks!None /\ effects'[f] = 0 /\ deadLetters'[f] = 1 /\ breaks'[f] = "none"
    BY DEF EffectsOnRecord, Webhooks!None
  <2>1. CASE f = e
    BY <1>6, <1>9, <1>10, <1>11, <2>1
  <2>2. CASE f # e
    BY <1>10, <1>11, <2>2 DEF WebhooksInv, EffectsOnRecord
  <2> QED BY <2>1, <2>2
<1>13. /\ delivery' \in [Deliveries -> DeliveryStates] /\ delivery'[d] = Webhooks!Idle
       /\ \A x \in Deliveries : x # d => delivery'[x] = delivery[x]
  BY <1>4, DeliveryPlaces DEF WebhooksInv
<1>14. IngestedAlone'
  BY <1>2, <1>3, <1>10, <1>13, RecordsChange
<1> QED BY <1>10, <1>11, <1>12, <1>13, <1>14 DEF WebhooksInv

LEMMA ReprocessKeeps ==
  ASSUME WebhooksInv, NEW e \in Events, Webhooks!Reprocess(e)
  PROVE  WebhooksInv'
<1>1. /\ inbox[e] # Webhooks!None /\ inbox[e].retries < MaxReprocess
      /\ inbox' = [inbox EXCEPT ![e] = [status |-> "processed", retries |-> inbox[e].retries + 1]]
      /\ UNCHANGED <<deadLetters, effects, breaks, delivery>>
  BY DEF Webhooks!Reprocess
<1>2. inbox[e] \in [status : {"processed", "failed"}, retries : 0 .. MaxReprocess]
  BY <1>1 DEF WebhooksInv
<1>3. PICK row0 : row0 = [status |-> "processed", retries |-> inbox[e].retries + 1]
  OBVIOUS
<1>4. row0 \in [status : {"processed", "failed"}, retries : 0 .. MaxReprocess] /\ row0 # Webhooks!None
  BY <1>1, <1>2, <1>3, WritesAre DEF Webhooks!None
<1>5. /\ inbox' \in [Events -> {Webhooks!None} \cup [status : {"processed", "failed"}, retries : 0 .. MaxReprocess]]
      /\ inbox'[e] = row0 /\ \A f \in Events \ {e} : inbox'[f] = inbox[f]
  BY <1>1, <1>3, <1>4 DEF WebhooksInv
<1>6. EffectsOnRecord'
  <2> SUFFICES ASSUME NEW f \in Events
               PROVE  \/ inbox'[f] = Webhooks!None /\ effects[f] = 0 /\ deadLetters[f] = 0 /\ breaks[f] = "none"
                      \/ inbox'[f] # Webhooks!None /\ effects[f] = Writes /\ deadLetters[f] = 0
                      \/ inbox'[f] # Webhooks!None /\ effects[f] = 0 /\ deadLetters[f] = 1 /\ breaks[f] = "none"
    BY <1>1 DEF EffectsOnRecord, Webhooks!None
  <2>1. CASE f = e
    BY <1>1, <1>4, <1>5, <2>1 DEF WebhooksInv, EffectsOnRecord
  <2>2. CASE f # e
    BY <1>5, <2>2 DEF WebhooksInv, EffectsOnRecord
  <2> QED BY <2>1, <2>2
<1>7. \A x \in Deliveries : delivery[x] \in Ingesting => delivery[x].event # e
  BY <1>1 DEF WebhooksInv, IngestedAlone
<1>8. IngestedAlone'
  <2>1. PICK d0 : d0 \notin Deliveries
    BY NoSetContainsEverything
  <2> QED BY <1>1, <1>5, <1>7, <2>1, RecordsChange DEF WebhooksInv
<1> QED BY <1>1, <1>5, <1>6, <1>8 DEF WebhooksInv

LEMMA WebhooksKeep ==
  ASSUME WebhooksInv, [Webhooks!Next]_webhookVars PROVE WebhooksInv'
<1>1. CASE UNCHANGED webhookVars
  BY <1>1 DEF webhookVars, WebhooksInv, IngestedAlone, EffectsOnRecord
<1>2. ASSUME NEW d \in Deliveries, NEW e \in Events, Webhooks!Find(d, e) PROVE WebhooksInv'
  <2>1. PICK v \in Inserting : v = [at |-> "insert", event |-> e]
    BY DEF Inserting
  <2>2. v \in DeliveryStates /\ v \notin Ingesting
    BY DeliveryPlaces DEF DeliveryStates
  <2> QED BY <1>2, <2>1, <2>2, DeliveryMoves DEF Webhooks!Find
<1>3. ASSUME NEW d \in Deliveries, NEW valid \in BOOLEAN, Webhooks!Insert(d, valid) PROVE WebhooksInv'
  BY <1>3, InsertKeeps
<1>4. ASSUME NEW d \in Deliveries, Webhooks!Write(d) PROVE WebhooksInv'
  <2>1. /\ delivery[d].at = "process" /\ delivery[d].writes < Writes /\ delivery[d] \in Ingesting /\ Whole(delivery[d])
        /\ UNCHANGED <<inbox, deadLetters, effects, breaks>>
    BY <1>4, IngestingTypes DEF Webhooks!Write
  <2>2. PICK break \in {"none", "open"} :
          /\ break = "open" => delivery[d].writes + 1 = Writes
          /\ delivery' = [delivery EXCEPT ![d].writes = @ + 1, ![d].break = break]
    BY <1>4 DEF Webhooks!Write
  <2>3. PICK v : v = [delivery[d] EXCEPT !.writes = delivery[d].writes + 1, !.break = break]
    OBVIOUS
  <2>4. v \in Ingesting /\ v.event = delivery[d].event
    <3>1. delivery[d].writes + 1 \in 0 .. Writes
      BY <2>1, WritesAre DEF Ingesting
    <3> QED BY <2>1, <2>3, <3>1 DEF Ingesting
  <2>5. Whole(v)
    BY <2>1, <2>2, <2>3 DEF Ingesting, Whole
  <2>6. delivery' = [delivery EXCEPT ![d] = v]
    BY <2>2, <2>3 DEF WebhooksInv
  <2> QED BY <2>1, <2>4, <2>5, <2>6, IngestingMoves
<1>5. ASSUME NEW d \in Deliveries, Webhooks!Throw(d) PROVE WebhooksInv'
  <2>1. /\ delivery[d].at = "process" /\ delivery[d] \in Ingesting
        /\ UNCHANGED <<inbox, deadLetters, effects, breaks>>
    BY <1>5, IngestingTypes DEF Webhooks!Throw
  <2>2. PICK v : v = Webhooks!RolledBack(delivery[d])
    OBVIOUS
  <2>3. v \in Ingesting /\ v.event = delivery[d].event /\ Whole(v)
    <3>1. v = [delivery[d] EXCEPT !.at = "commit", !.status = "failed", !.letters = 1, !.writes = 0, !.break = "none"]
      BY <2>2 DEF Webhooks!RolledBack
    <3>2. 0 \in 0 .. Writes /\ 1 \in 0 .. 1
      BY WritesAre
    <3>3. v \in Ingesting /\ v.event = delivery[d].event
      BY <2>1, <3>1, <3>2 DEF Ingesting
    <3>4. v.at = "commit" /\ v.status = "failed" /\ v.letters = 1 /\ v.writes = 0 /\ v.break = "none"
      BY <2>1, <3>1 DEF Ingesting
    <3> QED BY <3>3, <3>4 DEF Whole
  <2>4. delivery' = [delivery EXCEPT ![d] = v]
    BY <1>5, <2>2 DEF Webhooks!Throw, WebhooksInv
  <2> QED BY <2>1, <2>3, <2>4, IngestingMoves
<1>6. ASSUME NEW d \in Deliveries, Webhooks!Processed(d) PROVE WebhooksInv'
  <2>1. /\ delivery[d].at = "process" /\ delivery[d].writes = Writes /\ delivery[d] \in Ingesting /\ Whole(delivery[d])
        /\ UNCHANGED <<inbox, deadLetters, effects, breaks>>
    BY <1>6, IngestingTypes DEF Webhooks!Processed
  <2>2. PICK v : v = [delivery[d] EXCEPT !.at = "commit", !.status = "processed"]
    OBVIOUS
  <2>3. v \in Ingesting /\ v.event = delivery[d].event /\ Whole(v)
    BY <2>1, <2>2 DEF Ingesting, Whole
  <2>4. delivery' = [delivery EXCEPT ![d] = v]
    BY <1>6, <2>2 DEF Webhooks!Processed, WebhooksInv
  <2> QED BY <2>1, <2>3, <2>4, IngestingMoves
<1>7. ASSUME NEW d \in Deliveries, Webhooks!Commit(d) PROVE WebhooksInv'
  BY <1>7, CommitDeliveryKeeps
<1>8. ASSUME NEW d \in Deliveries, Webhooks!Lose(d) PROVE WebhooksInv'
  BY <1>8, DeliveryPlaces, DeliveryMoves DEF Webhooks!Lose
<1>9. ASSUME NEW e \in Events, Webhooks!Reprocess(e) PROVE WebhooksInv'
  BY <1>9, ReprocessKeeps
<1>10. ASSUME NEW e \in Events, Webhooks!ResolveReconciliationBreak(e) PROVE WebhooksInv'
  <2>1. /\ breaks[e] # "none" /\ breaks' = [breaks EXCEPT ![e] = "resolved"]
        /\ UNCHANGED <<inbox, deadLetters, effects, delivery>>
    BY <1>10 DEF Webhooks!ResolveReconciliationBreak
  <2>2. breaks' \in [Events -> {"none", "open", "resolved"}] /\ \A f \in Events \ {e} : breaks'[f] = breaks[f]
    BY <2>1 DEF WebhooksInv
  <2>3. EffectsOnRecord'
    BY <2>1, <2>2 DEF WebhooksInv, EffectsOnRecord
  <2> QED BY <2>1, <2>2, <2>3 DEF WebhooksInv, IngestedAlone
<1> QED BY <1>1, <1>2, <1>3, <1>4, <1>5, <1>6, <1>7, <1>8, <1>9, <1>10 DEF Webhooks!Next

LEMMA EventsAreApplied ==
  ASSUME WebhooksInv
  PROVE  Webhooks!TypeOK /\ Webhooks!AppliedWholeOrNot /\ Webhooks!AppliedOrDeadLettered
<1>1. Webhooks!TypeOK
  BY DEF WebhooksInv, Webhooks!TypeOK, DeliveryStates, Inserting, Ingesting
<1>2. Webhooks!AppliedWholeOrNot /\ Webhooks!AppliedOrDeadLettered
  BY WritesAre DEF WebhooksInv, EffectsOnRecord, Webhooks!AppliedWholeOrNot, Webhooks!AppliedOrDeadLettered
<1> QED BY <1>1, <1>2

-----------------------------------------------------------------------------
(* LedgerJournals *)

Posting == [at : {"insert", "commit"}, entry : Journals!AllEntries]
PosterStates == {Journals!Idle} \cup Posting

\* Entries that are about to be committed have sources of their own.
SourcesDiffer ==
  /\ Journals!SourcePostedOnce
  /\ \A x \in Posters : poster[x].at = "commit" =>
       /\ poster[x].entry.source \notin Journals!Sources
       /\ \A y \in Posters \ {x} : poster[y].at = "commit" => poster[y].entry.source # poster[x].entry.source

\* Commands about to reverse an entry, with its reversals, are no more than can
\* overlap.
Reversing(source) == {x \in Posters : poster[x] # Journals!Idle /\ poster[x].entry.reversalOf = source}
PostersReverse ==
  \A source \in JournalKeys \cup Settlements :
    /\ IsFiniteSet(Journals!Reversals(source))
    /\ Cardinality(Journals!Reversals(source)) + Cardinality(Reversing(source)) <= Cardinality(Posters)

JournalsInv ==
  /\ entries \subseteq Journals!AllEntries
  /\ poster \in [Posters -> PosterStates]
  /\ SourcesDiffer
  /\ PostersReverse

LEMMA JournalsConstants ==
  /\ IsFiniteSet(Posters) /\ Cardinality(Posters) \in Nat
  /\ "none" \notin JournalKeys \cup Settlements /\ Journals!None = "none"
<1>1. IsFiniteSet(Posters)
  BY JournalsKnown DEF Journals!JournalsAssumption, Journals!IsFiniteSet, IsFiniteSet
<1> QED BY <1>1, JournalsKnown, FS_CardinalityType DEF Journals!JournalsAssumption, Journals!None

LEMMA PosterPlaces ==
  /\ Journals!Idle.at = "idle" /\ Journals!Idle \in PosterStates
  /\ \A v \in Posting : v # Journals!Idle /\ v.entry \in Journals!AllEntries /\ v.at \in {"insert", "commit"} /\ v \in PosterStates
  /\ \A v \in PosterStates : v # Journals!Idle \/ v.at \in {"insert", "commit"} => v \in Posting
<1>1. Journals!Idle.at = "idle"
  BY DEF Journals!Idle
<1>2. \A v \in Posting : v.entry \in Journals!AllEntries /\ v.at \in {"insert", "commit"}
  BY DEF Posting
<1> QED BY <1>1, <1>2 DEF PosterStates

LEMMA ReversingFinite ==
  ASSUME NEW source
  PROVE  /\ IsFiniteSet(Reversing(source)) /\ Cardinality(Reversing(source)) \in Nat
         /\ Cardinality(Reversing(source)) <= Cardinality(Posters)
<1>1. Reversing(source) \subseteq Posters
  BY DEF Reversing
<1> QED BY <1>1, JournalsConstants, FS_Subset, FS_CardinalityType

LEMMA JournalsInit == Journals!Init => JournalsInv
<1> SUFFICES ASSUME Journals!Init PROVE JournalsInv
  OBVIOUS
<1>1. entries = {} /\ poster \in [Posters -> PosterStates] /\ \A x \in Posters : poster[x] = Journals!Idle
  BY PosterPlaces DEF Journals!Init
<1>2. SourcesDiffer
  BY <1>1, PosterPlaces DEF SourcesDiffer, Journals!SourcePostedOnce
<1>3. \A source : Journals!Reversals(source) = {}
  BY <1>1 DEF Journals!Reversals
<1>4. PostersReverse
  BY <1>3, ReversingFinite, JournalsConstants, FS_EmptySet DEF PostersReverse
<1> QED BY <1>1, <1>2, <1>4 DEF JournalsInv

\* One transaction moves on and commits nothing.
LEMMA PosterMoves ==
  ASSUME JournalsInv, NEW x \in Posters, NEW v \in PosterStates, poster' = [poster EXCEPT ![x] = v], UNCHANGED entries,
         v.at = "commit" =>
           /\ v.entry.source \notin Journals!Sources
           /\ \A y \in Posters \ {x} : poster[y].at = "commit" => poster[y].entry.source # v.entry.source,
         \A source \in JournalKeys \cup Settlements :
           v # Journals!Idle /\ v.entry.reversalOf = source =>
             (poster[x] # Journals!Idle /\ poster[x].entry.reversalOf = source) \/ Journals!Reversals(source) = {}
  PROVE  JournalsInv'
<1>1. /\ poster' \in [Posters -> PosterStates] /\ poster'[x] = v
      /\ \A y \in Posters \ {x} : poster'[y] = poster[y]
  BY DEF JournalsInv
<1>2. SourcesDiffer'
  BY <1>1 DEF JournalsInv, SourcesDiffer, Journals!SourcePostedOnce, Journals!Sources
<1>3. PostersReverse'
  <2> SUFFICES ASSUME NEW source \in JournalKeys \cup Settlements
               PROVE  /\ IsFiniteSet(Journals!Reversals(source)')
                      /\ Cardinality(Journals!Reversals(source)') + Cardinality(Reversing(source)') <= Cardinality(Posters)
    BY DEF PostersReverse
  <2>1. Journals!Reversals(source)' = Journals!Reversals(source)
    BY DEF Journals!Reversals
  <2>2. Reversing(source)' \subseteq Posters
    BY DEF Reversing
  <2>3. Cardinality(Reversing(source)') <= Cardinality(Posters) /\ Cardinality(Reversing(source)') \in Nat
    BY <2>2, JournalsConstants, FS_Subset, FS_CardinalityType
  <2>4. /\ IsFiniteSet(Journals!Reversals(source)) /\ Cardinality(Journals!Reversals(source)) \in Nat
        /\ Cardinality(Journals!Reversals(source)) + Cardinality(Reversing(source)) <= Cardinality(Posters)
    BY FS_CardinalityType DEF JournalsInv, PostersReverse
  <2>5. CASE Journals!Reversals(source) = {}
    BY <2>1, <2>3, <2>5, FS_EmptySet, JournalsConstants
  <2>6. CASE Journals!Reversals(source) # {}
    <3>1. Reversing(source)' \subseteq Reversing(source)
      BY <1>1, <2>6 DEF Reversing
    <3>2. Cardinality(Reversing(source)') <= Cardinality(Reversing(source)) /\ Cardinality(Reversing(source)) \in Nat
      BY <3>1, ReversingFinite, FS_Subset
    <3> QED BY <2>1, <2>3, <2>4, <3>2, JournalsConstants
  <2> QED BY <2>5, <2>6
<1> QED BY <1>1, <1>2, <1>3 DEF JournalsInv

LEMMA PosterTypes ==
  ASSUME JournalsInv, NEW x \in Posters, poster[x] # Journals!Idle \/ poster[x].at \in {"insert", "commit"}
  PROVE  poster[x] \in Posting /\ poster[x] # Journals!Idle /\ poster[x].entry \in Journals!AllEntries
BY PosterPlaces DEF JournalsInv

\* An entry is added: its source is new, and its command no longer under way.
LEMMA CommitEntryKeeps ==
  ASSUME JournalsInv, NEW x \in Posters, Journals!Commit(x)
  PROVE  JournalsInv'
<1>1. PICK e \in Journals!AllEntries : e = poster[x].entry
  BY PosterTypes DEF Journals!Commit
<1>2. /\ poster[x].at = "commit" /\ entries' = entries \cup {e} /\ poster' = [poster EXCEPT ![x] = Journals!Idle]
      /\ poster[x] # Journals!Idle
  BY <1>1, PosterTypes DEF Journals!Commit
<1>3. /\ poster' \in [Posters -> PosterStates] /\ poster'[x] = Journals!Idle
      /\ \A y \in Posters \ {x} : poster'[y] = poster[y]
  BY <1>2, PosterPlaces DEF JournalsInv
<1>4. SourcesDiffer'
  <2>1. e.source \notin Journals!Sources
        /\ \A y \in Posters \ {x} : poster[y].at = "commit" => poster[y].entry.source # e.source
    BY <1>1, <1>2 DEF JournalsInv, SourcesDiffer
  <2>2. Journals!SourcePostedOnce'
    BY <1>2, <2>1 DEF JournalsInv, SourcesDiffer, Journals!SourcePostedOnce, Journals!Sources
  <2>3. \A y \in Posters : poster'[y].at = "commit" => y # x
    BY <1>3, PosterPlaces
  <2>4. Journals!Sources' = Journals!Sources \cup {e.source}
    BY <1>2 DEF Journals!Sources
  <2> QED BY <1>3, <2>1, <2>2, <2>3, <2>4 DEF JournalsInv, SourcesDiffer
<1>5. PostersReverse'
  <2> SUFFICES ASSUME NEW source \in JournalKeys \cup Settlements
               PROVE  /\ IsFiniteSet(Journals!Reversals(source)')
                      /\ Cardinality(Journals!Reversals(source)') + Cardinality(Reversing(source)') <= Cardinality(Posters)
    BY DEF PostersReverse
  <2>1. /\ IsFiniteSet(Journals!Reversals(source)) /\ Cardinality(Journals!Reversals(source)) \in Nat
        /\ Cardinality(Journals!Reversals(source)) + Cardinality(Reversing(source)) <= Cardinality(Posters)
    BY FS_CardinalityType DEF JournalsInv, PostersReverse
  <2>2. IsFiniteSet(Reversing(source)) /\ Cardinality(Reversing(source)) \in Nat
    BY ReversingFinite
  <2>3. CASE e.reversalOf = source
    <3>1. Journals!Reversals(source)' = Journals!Reversals(source) \cup {e}
      BY <1>2, <2>3 DEF Journals!Reversals
    <3>2. Reversing(source)' = Reversing(source) \ {x} /\ x \in Reversing(source)
      BY <1>1, <1>2, <1>3, <2>3 DEF Reversing
    <3>3. /\ IsFiniteSet(Journals!Reversals(source)') /\ Cardinality(Journals!Reversals(source)') \in Nat
          /\ Cardinality(Journals!Reversals(source)') <= Cardinality(Journals!Reversals(source)) + 1
      <4>1. PICK made : made = Journals!Reversals(source)
        OBVIOUS
      <4>2. IsFiniteSet(made \cup {e}) /\ Cardinality(made \cup {e}) = IF e \in made THEN Cardinality(made) ELSE Cardinality(made) + 1
        BY <2>1, <4>1, FS_AddElement
      <4> QED BY <2>1, <3>1, <4>1, <4>2
    <3>4. Cardinality(Reversing(source)') = Cardinality(Reversing(source)) - 1
      BY <2>2, <3>2, FS_RemoveElement
    <3> QED BY <2>1, <2>2, <3>3, <3>4, JournalsConstants
  <2>4. CASE e.reversalOf # source
    <3>1. Journals!Reversals(source)' = Journals!Reversals(source)
      BY <1>2, <2>4 DEF Journals!Reversals
    <3>2. Reversing(source)' = Reversing(source)
      BY <1>1, <1>3, <2>4 DEF Reversing
    <3> QED BY <2>1, <3>1, <3>2
  <2> QED BY <2>3, <2>4
<1> QED BY <1>1, <1>2, <1>3, <1>4, <1>5 DEF JournalsInv

LEMMA JournalsKeep ==
  ASSUME JournalsInv, [Journals!Next]_journalVars PROVE JournalsInv'
<1>1. CASE UNCHANGED journalVars
  BY <1>1 DEF journalVars, JournalsInv, SourcesDiffer, PostersReverse, Reversing, Journals!SourcePostedOnce,
              Journals!Sources, Journals!Reversals
<1>2. ASSUME NEW x \in Posters, NEW k \in JournalKeys, NEW source \in {k} \cup Settlements, Journals!Prepare(x, k, source)
      PROVE  JournalsInv'
  <2>1. PICK v : v = [at |-> "insert", entry |-> Journals!Entry(k, source, Journals!None)]
    OBVIOUS
  <2>2. v \in Posting /\ v.at = "insert" /\ v.entry.reversalOf = Journals!None
    BY <2>1 DEF Posting, Journals!Entry, Journals!AllEntries
  <2>3. poster' = [poster EXCEPT ![x] = v] /\ UNCHANGED entries
    BY <1>2, <2>1 DEF Journals!Prepare
  <2>4. v \in PosterStates /\ v.at # "commit" /\ v.entry.reversalOf \notin JournalKeys \cup Settlements
    BY <2>2, PosterPlaces, JournalsConstants
  <2> QED BY <2>3, <2>4, PosterMoves
<1>3. ASSUME NEW x \in Posters, NEW k \in JournalKeys, NEW reversed \in JournalKeys \cup Settlements,
             Journals!PrepareReversal(x, k, reversed)
      PROVE  JournalsInv'
  <2>1. PICK v : v = [at |-> "insert", entry |-> Journals!Entry(k, k, reversed)]
    OBVIOUS
  <2>2. v \in Posting /\ v.at = "insert" /\ v.entry.reversalOf = reversed
    BY <2>1 DEF Posting, Journals!Entry, Journals!AllEntries
  <2>3. poster' = [poster EXCEPT ![x] = v] /\ UNCHANGED entries /\ Journals!Reversals(reversed) = {}
    BY <1>3, <2>1 DEF Journals!PrepareReversal
  <2> QED BY <2>2, <2>3, PosterPlaces, PosterMoves
<1>4. ASSUME NEW x \in Posters, Journals!Insert(x) PROVE JournalsInv'
  <2>1. /\ poster[x] \in Posting /\ poster[x] # Journals!Idle /\ UNCHANGED entries
        /\ Journals!SourceFree(poster[x].entry.source)
    BY <1>4, PosterTypes DEF Journals!Insert
  <2>2. PICK v : v = [poster[x] EXCEPT !.at = "commit"]
    OBVIOUS
  <2>3. v \in Posting /\ v.entry = poster[x].entry
    BY <2>1, <2>2 DEF Posting
  <2>4. poster' = [poster EXCEPT ![x] = v]
    BY <1>4, <2>2 DEF Journals!Insert, JournalsInv
  <2>5. v \in PosterStates
    BY <2>3, PosterPlaces
  <2>6. /\ v.entry.source \notin Journals!Sources
        /\ \A y \in Posters \ {x} : poster[y].at = "commit" => poster[y].entry.source # v.entry.source
    BY <2>1, <2>3 DEF Journals!SourceFree
  <2> QED BY <2>1, <2>3, <2>4, <2>5, <2>6, PosterMoves
<1>5. ASSUME NEW x \in Posters, Journals!Commit(x) PROVE JournalsInv'
  BY <1>5, CommitEntryKeeps
<1>6. ASSUME NEW x \in Posters, Journals!RollBack(x) PROVE JournalsInv'
  BY <1>6, PosterPlaces, PosterMoves DEF Journals!RollBack
<1> QED BY <1>1, <1>2, <1>3, <1>4, <1>5, <1>6 DEF Journals!Next

LEMMA EntriesArePostedOnce ==
  ASSUME JournalsInv
  PROVE  Journals!TypeOK /\ Journals!SourcePostedOnce /\ Journals!ReversedInOverlapOnly
<1>1. Journals!TypeOK
  BY DEF JournalsInv, Journals!TypeOK, PosterStates, Posting
<1>2. ASSUME NEW source \in Journals!Sources
      PROVE  Journals!Cardinality({e \in entries : e.reversalOf = source}) <= Journals!Cardinality(Posters)
  <2>1. source \in JournalKeys \cup Settlements
    BY DEF JournalsInv, Journals!Sources, Journals!AllEntries
  <2>2. /\ Cardinality(Journals!Reversals(source)) + Cardinality(Reversing(source)) <= Cardinality(Posters)
        /\ Cardinality(Journals!Reversals(source)) \in Nat
    BY <2>1, FS_CardinalityType DEF JournalsInv, PostersReverse
  <2>3. Cardinality(Journals!Reversals(source)) <= Cardinality(Posters)
    BY <2>2, ReversingFinite, JournalsConstants
  <2>4. \A S : Journals!Cardinality(S) = Cardinality(S)
    BY DEF Journals!Cardinality, Cardinality
  <2> QED BY <2>3, <2>4 DEF Journals!Reversals
<1> QED BY <1>1, <1>2 DEF JournalsInv, SourcesDiffer, Journals!ReversedInOverlapOnly

-----------------------------------------------------------------------------
(* SimulatorRoutes *)

ReservationStatuses == {"absent", "active", "released", "expired", "cancelled"}
Payments ==
  [status : {"absent", "created", "submitted", "complete", "failed", "cancelled"}, transfer : Nat, refreshed : BOOLEAN]
Inboxes == [ProviderEvents -> [pending : Nat, processed : Nat]]
States ==
  [available : Nat, reserved : Nat, brought : 0 .. MaxBrought, reservation : [Reservations -> ReservationStatuses],
   payment : Payments, webhook : [ProviderEvents -> {"absent", "valid", "rejected"}], inbox : Inboxes]

\* FundsAreOnRecord of one copy: a reservation that was ever made is still reserved.
Made(s) == {r \in Reservations : s.reservation[r] # "absent"}
FundsOnRecord(s) ==
  /\ s.available + s.reserved = 1 + s.brought
  /\ IsFiniteSet(Made(s)) /\ Cardinality(Made(s)) <= s.reserved

\* InInboxOnce and OutcomeIsReported of one copy.
InboxedOnce(s) ==
  \A e \in ProviderEvents : s.inbox[e].pending + s.inbox[e].processed = IF s.webhook[e] = "valid" THEN 1 ELSE 0
Reported(s) ==
  s.payment.status \in {"complete", "failed"} /\ ~s.payment.refreshed =>
    \E e \in ProviderEvents : e = <<s.payment.transfer, s.payment.status>> /\ s.webhook[e] = "valid"

\* The copies there may be once some number of transfers was made.
Recorded(made) ==
  {s \in States : FundsOnRecord(s) /\ InboxedOnce(s) /\ Reported(s) /\ s.payment.transfer \in 0 .. made}

PendingRows(made) == [at : {"waiting", "saving"}, copy : Recorded(made)]
ProcessRows(made) == [at : {"loaded"}, copy : Recorded(made)]

SimulatorInv ==
  /\ transfers \in 0 .. MaxTransfers /\ requests \in 0 .. MaxRequests
  /\ state \in Recorded(transfers) /\ row \in Recorded(transfers)
  /\ pending \in [Requests -> {Simulator!Idle} \cup PendingRows(transfers)]
  /\ process \in {Simulator!Idle} \cup ProcessRows(transfers)

LEMMA SimulatorConstants ==
  /\ MaxTransfers \in Nat /\ MaxBrought \in Nat /\ MaxRequests \in Nat
  /\ ProviderEvents \subseteq (1 .. MaxTransfers) \X {"complete", "failed"}
BY SimulatorBounds DEF Simulator!SimulatorAssumption

LEMMA StateTypes ==
  ASSUME NEW s \in States
  PROVE  /\ s.available \in Nat /\ s.reserved \in Nat /\ s.brought \in 0 .. MaxBrought
         /\ s.reservation \in [Reservations -> ReservationStatuses] /\ s.payment \in Payments
         /\ s.webhook \in [ProviderEvents -> {"absent", "valid", "rejected"}] /\ s.inbox \in Inboxes
BY DEF States

LEMMA PaymentTypes ==
  ASSUME NEW p \in Payments
  PROVE  /\ p.status \in {"absent", "created", "submitted", "complete", "failed", "cancelled"}
         /\ p.transfer \in Nat /\ p.refreshed \in BOOLEAN
BY DEF Payments

LEMMA RecordedGrows ==
  ASSUME NEW m \in Nat, NEW n \in Nat, m <= n PROVE Recorded(m) \subseteq Recorded(n)
BY DEF Recorded

\* What each of the parts depends on.
LEMMA SameFunds ==
  ASSUME NEW s, NEW t, FundsOnRecord(s), t.available = s.available, t.reserved = s.reserved, t.brought = s.brought,
         \A r \in Reservations : t.reservation[r] = "absent" <=> s.reservation[r] = "absent"
  PROVE  FundsOnRecord(t)
<1>1. Made(t) = Made(s)
  BY DEF Made
<1> QED BY <1>1 DEF FundsOnRecord

LEMMA SameReport ==
  ASSUME NEW s, NEW t, Reported(s), t.payment = s.payment,
         \A e \in ProviderEvents : s.webhook[e] = "valid" => t.webhook[e] = "valid"
  PROVE  Reported(t)
BY DEF Reported

LEMMA InitialIsRecorded == Simulator!InitialState \in Recorded(0)
<1>1. PICK s : s = Simulator!InitialState
  OBVIOUS
<1>2. PICK pay : pay = Simulator!NoPayment
  OBVIOUS
<1>3. pay \in Payments /\ pay.status = "absent" /\ pay.transfer = 0
  BY <1>2 DEF Simulator!NoPayment, Payments
<1>4. PICK box : box = [e \in ProviderEvents |-> [pending |-> 0, processed |-> 0]]
  OBVIOUS
<1>5. box \in Inboxes /\ \A e \in ProviderEvents : box[e].pending = 0 /\ box[e].processed = 0
  BY <1>4 DEF Inboxes
<1>6. s = [available |-> 1, reserved |-> 0, brought |-> 0,
           reservation |-> [r \in Reservations |-> "absent"], payment |-> pay,
           webhook |-> [e \in ProviderEvents |-> "absent"], inbox |-> box]
  BY <1>1, <1>2, <1>4 DEF Simulator!InitialState, Simulator!Seed
<1>7. 0 \in 0 .. MaxBrought
  BY SimulatorConstants
<1>8. s \in States
  BY <1>3, <1>5, <1>6, <1>7 DEF States, ReservationStatuses
<1>9. FundsOnRecord(s)
  <2>1. Made(s) = {}
    BY <1>6 DEF Made
  <2> QED BY <1>6, <2>1, FS_EmptySet DEF FundsOnRecord
<1>10. InboxedOnce(s) /\ Reported(s) /\ s.payment.transfer \in 0 .. 0
  BY <1>3, <1>5, <1>6 DEF InboxedOnce, Reported
<1> QED BY <1>1, <1>8, <1>9, <1>10 DEF Recorded

-----------------------------------------------------------------------------
\* What the commands make of a copy, one after the other.

LEMMA BroughtIn ==
  ASSUME NEW made \in Nat, NEW s \in Recorded(made), s.brought < MaxBrought
  PROVE  Simulator!Posted(s) \in Recorded(made) /\ Simulator!Minted(s) \in Recorded(made)
<1>1. PICK t : t = [s EXCEPT !.brought = s.brought + 1, !.available = s.available + 1]
  OBVIOUS
<1>2. s \in States /\ FundsOnRecord(s) /\ InboxedOnce(s) /\ Reported(s) /\ s.payment.transfer \in 0 .. made
  BY DEF Recorded
<1>3. s.brought + 1 \in 0 .. MaxBrought /\ s.available + 1 \in Nat
  BY <1>2, StateTypes, SimulatorConstants
<1>4. /\ t \in States /\ t.brought = s.brought + 1 /\ t.available = s.available + 1 /\ t.reserved = s.reserved
      /\ t.reservation = s.reservation /\ t.payment = s.payment /\ t.webhook = s.webhook /\ t.inbox = s.inbox
  BY <1>1, <1>2, <1>3 DEF States
<1>5. FundsOnRecord(t)
  <2>1. Made(t) = Made(s)
    BY <1>4 DEF Made
  <2> QED BY <1>2, <1>4, <2>1, StateTypes DEF FundsOnRecord
<1>6. InboxedOnce(t) /\ Reported(t)
  BY <1>2, <1>4 DEF InboxedOnce, Reported
<1> QED BY <1>1, <1>2, <1>4, <1>5, <1>6 DEF Recorded, Simulator!Posted, Simulator!Minted

LEMMA ReservedAgainst ==
  ASSUME NEW made \in Nat, NEW s \in Recorded(made), NEW r \in Reservations, s.reservation[r] = "absent", s.available > 0
  PROVE  Simulator!Reserved(s, r) \in Recorded(made)
<1>1. s \in States /\ FundsOnRecord(s) /\ InboxedOnce(s) /\ Reported(s) /\ s.payment.transfer \in 0 .. made
  BY DEF Recorded
<1>2. PICK list : list = [s.reservation EXCEPT ![r] = "active"]
  OBVIOUS
<1>3. PICK t : t = [s EXCEPT !.reservation = list, !.available = s.available - 1, !.reserved = s.reserved + 1]
  OBVIOUS
<1>4. /\ list \in [Reservations -> ReservationStatuses] /\ list[r] = "active"
      /\ \A q \in Reservations \ {r} : list[q] = s.reservation[q]
  BY <1>1, <1>2, StateTypes DEF ReservationStatuses
<1>5. s.available - 1 \in Nat /\ s.reserved + 1 \in Nat
  BY <1>1, StateTypes
<1>6. /\ t \in States /\ t.brought = s.brought /\ t.available = s.available - 1 /\ t.reserved = s.reserved + 1
      /\ t.reservation = list /\ t.payment = s.payment /\ t.webhook = s.webhook /\ t.inbox = s.inbox
  BY <1>1, <1>3, <1>4, <1>5 DEF States
<1>7. FundsOnRecord(t)
  <2>1. Made(t) = Made(s) \cup {r} /\ r \notin Made(s)
    BY <1>4, <1>6 DEF Made
  <2>2. IsFiniteSet(Made(s)) /\ Cardinality(Made(s)) <= s.reserved /\ Cardinality(Made(s)) \in Nat
    BY <1>1, FS_CardinalityType DEF FundsOnRecord
  <2>3. IsFiniteSet(Made(s) \cup {r}) /\ Cardinality(Made(s) \cup {r}) = Cardinality(Made(s)) + 1
    BY <2>1, <2>2, FS_AddElement
  <2>4. s.available + s.reserved = 1 + s.brought
    BY <1>1 DEF FundsOnRecord
  <2> QED BY <1>1, <1>6, <2>1, <2>2, <2>3, <2>4, StateTypes DEF FundsOnRecord
<1>8. InboxedOnce(t) /\ Reported(t)
  BY <1>1, <1>6 DEF InboxedOnce, Reported
<1>9. Simulator!Reserved(s, r) = t
  BY <1>1, <1>2, <1>3 DEF Simulator!Reserved, States
<1> QED BY <1>1, <1>6, <1>7, <1>8, <1>9 DEF Recorded

\* Marks and expiry leave what was reserved reserved.
LEMMA MarkedAs ==
  ASSUME NEW made \in Nat, NEW s \in Recorded(made), NEW list \in [Reservations -> ReservationStatuses],
         \A r \in Reservations : list[r] = "absent" <=> s.reservation[r] = "absent"
  PROVE  [s EXCEPT !.reservation = list] \in Recorded(made)
<1>1. s \in States /\ FundsOnRecord(s) /\ InboxedOnce(s) /\ Reported(s) /\ s.payment.transfer \in 0 .. made
  BY DEF Recorded
<1>2. PICK t : t = [s EXCEPT !.reservation = list]
  OBVIOUS
<1>3. /\ t \in States /\ t.brought = s.brought /\ t.available = s.available /\ t.reserved = s.reserved
      /\ t.reservation = list /\ t.payment = s.payment /\ t.webhook = s.webhook /\ t.inbox = s.inbox
  BY <1>1, <1>2 DEF States
<1>4. FundsOnRecord(t) /\ Reported(t)
  BY <1>1, <1>3, SameFunds, SameReport
<1>5. InboxedOnce(t)
  BY <1>1, <1>3 DEF InboxedOnce
<1> QED BY <1>1, <1>2, <1>3, <1>4, <1>5 DEF Recorded

LEMMA FundsCommandsRecord ==
  ASSUME NEW made \in Nat, NEW s \in Recorded(made), NEW t \in Simulator!FundsCommands(s)
  PROVE  t \in Recorded(made)
<1>1. s \in States
  BY DEF Recorded
<1>2. CASE s.brought < MaxBrought /\ t \in {Simulator!Posted(s), Simulator!Minted(s)}
  BY <1>2, BroughtIn
<1>3. ASSUME NEW r \in Reservations, s.reservation[r] = "absent", s.available > 0, t = Simulator!Reserved(s, r)
      PROVE  t \in Recorded(made)
  BY <1>3, ReservedAgainst
<1>4. ASSUME NEW r \in Reservations, s.reservation[r] # "absent",
             NEW status \in {"active", "released", "expired", "cancelled"}, t = Simulator!Marked(s, r, status)
      PROVE  t \in Recorded(made)
  <2>1. PICK list : list = [s.reservation EXCEPT ![r] = status]
    OBVIOUS
  <2>2. /\ list \in [Reservations -> ReservationStatuses]
        /\ \A q \in Reservations : list[q] = "absent" <=> s.reservation[q] = "absent"
    BY <1>1, <1>4, <2>1, StateTypes DEF ReservationStatuses
  <2>3. t = [s EXCEPT !.reservation = list]
    BY <1>1, <1>4, <2>1 DEF Simulator!Marked, States
  <2> QED BY <2>2, <2>3, MarkedAs
<1>5. \/ s.brought < MaxBrought /\ t \in {Simulator!Posted(s), Simulator!Minted(s)}
      \/ \E r \in Reservations : s.reservation[r] = "absent" /\ s.available > 0 /\ t = Simulator!Reserved(s, r)
      \/ \E r \in Reservations, status \in {"active", "released", "expired", "cancelled"} :
           s.reservation[r] # "absent" /\ t = Simulator!Marked(s, r, status)
  BY DEF Simulator!FundsCommands
<1> QED BY <1>2, <1>3, <1>4, <1>5

LEMMA ExpiredRecord ==
  ASSUME NEW made \in Nat, NEW s \in Recorded(made), NEW t \in Simulator!Expired(s)
  PROVE  t \in Recorded(made)
<1>1. s \in States
  BY DEF Recorded
<1>2. PICK old \in SUBSET {r \in Reservations : s.reservation[r] = "active"} :
        t = [s EXCEPT !.reservation = [r \in Reservations |-> IF r \in old THEN "expired" ELSE s.reservation[r]]]
  BY DEF Simulator!Expired
<1>3. PICK list : list = [r \in Reservations |-> IF r \in old THEN "expired" ELSE s.reservation[r]]
  OBVIOUS
<1>4. /\ list \in [Reservations -> ReservationStatuses]
      /\ \A q \in Reservations : list[q] = "absent" <=> s.reservation[q] = "absent"
  BY <1>1, <1>2, <1>3, StateTypes DEF ReservationStatuses
<1> QED BY <1>2, <1>3, <1>4, MarkedAs

\* A payment that is not the outcome of a transfer, or is that of a refresh.
LEMMA PaidAs ==
  ASSUME NEW made \in Nat, NEW s \in Recorded(made), NEW pay \in Payments, NEW more \in Nat, made <= more,
         pay.status \notin {"complete", "failed"} \/ pay.refreshed, pay.transfer \in 0 .. more
  PROVE  [s EXCEPT !.payment = pay] \in Recorded(more)
<1>1. s \in States /\ FundsOnRecord(s) /\ InboxedOnce(s)
  BY DEF Recorded
<1>2. PICK t : t = [s EXCEPT !.payment = pay]
  OBVIOUS
<1>3. /\ t \in States /\ t.brought = s.brought /\ t.available = s.available /\ t.reserved = s.reserved
      /\ t.reservation = s.reservation /\ t.payment = pay /\ t.webhook = s.webhook /\ t.inbox = s.inbox
  BY <1>1, <1>2 DEF States
<1>4. FundsOnRecord(t)
  BY <1>1, <1>3, SameFunds
<1>5. InboxedOnce(t) /\ Reported(t)
  BY <1>1, <1>3 DEF InboxedOnce, Reported
<1> QED BY <1>2, <1>3, <1>4, <1>5 DEF Recorded

LEMMA TransferredRecord ==
  ASSUME transfers \in Nat, NEW s \in Recorded(transfers), NEW status \in {"submitted", "complete"}
  PROVE  Simulator!Transferred(s, status) \in Recorded(transfers + 1)
<1>1. PICK done \in BOOLEAN : done = (status = "complete")
  OBVIOUS
<1>2. PICK pay : pay = [status |-> status, transfer |-> transfers + 1, refreshed |-> done]
  OBVIOUS
<1>3. pay \in Payments /\ pay.transfer \in 0 .. transfers + 1 /\ transfers + 1 \in Nat /\ transfers <= transfers + 1
  BY <1>2 DEF Payments
<1>4. Simulator!Transferred(s, status) = [s EXCEPT !.payment = pay]
  BY <1>1, <1>2 DEF Simulator!Transferred
<1>5. pay.status \notin {"complete", "failed"} \/ pay.refreshed
  <2>1. pay.status = status /\ pay.refreshed = done
    BY <1>2
  <2>2. CASE status = "complete"
    BY <1>1, <2>1, <2>2
  <2>3. CASE status = "submitted"
    BY <2>1, <2>3
  <2> QED BY <2>2, <2>3
<1> QED BY <1>3, <1>4, <1>5, PaidAs

LEMMA CreatedOrCancelledRecord ==
  ASSUME NEW made \in Nat, NEW s \in Recorded(made)
  PROVE  Simulator!CreatedOrCancelled(s) \in Recorded(made)
<1>1. s \in States /\ s.payment \in Payments /\ s.payment.transfer \in 0 .. made
  BY StateTypes DEF Recorded
<1>2. CASE s.payment = Simulator!NoPayment
  <2>1. PICK pay : pay = [s.payment EXCEPT !.status = "created"]
    OBVIOUS
  <2>2. pay \in Payments /\ pay.status = "created" /\ pay.transfer = s.payment.transfer
    BY <1>1, <2>1 DEF Payments
  <2>3. Simulator!CreatedOrCancelled(s) = [s EXCEPT !.payment = pay]
    BY <1>1, <1>2, <2>1 DEF Simulator!CreatedOrCancelled, States
  <2> QED BY <1>1, <2>2, <2>3, PaidAs
<1>3. CASE s.payment # Simulator!NoPayment
  <2>1. PICK pay : pay = [s.payment EXCEPT !.status = "cancelled", !.refreshed = FALSE]
    OBVIOUS
  <2>2. pay \in Payments /\ pay.status = "cancelled" /\ pay.transfer = s.payment.transfer
    BY <1>1, <2>1 DEF Payments
  <2>3. Simulator!CreatedOrCancelled(s) = [s EXCEPT !.payment = pay]
    BY <1>1, <1>3, <2>1 DEF Simulator!CreatedOrCancelled, States
  <2> QED BY <1>1, <2>2, <2>3, PaidAs
<1> QED BY <1>2, <1>3

\* The inbox changes, and with it at most what is known to be valid.
LEMMA InboxAs ==
  ASSUME NEW made \in Nat, NEW s \in Recorded(made), NEW box \in Inboxes,
         NEW hook \in [ProviderEvents -> {"absent", "valid", "rejected"}],
         \A e \in ProviderEvents : s.webhook[e] = "valid" => hook[e] = "valid",
         \A e \in ProviderEvents : box[e].pending + box[e].processed = IF hook[e] = "valid" THEN 1 ELSE 0
  PROVE  [s EXCEPT !.webhook = hook, !.inbox = box] \in Recorded(made)
<1>1. s \in States /\ FundsOnRecord(s) /\ InboxedOnce(s) /\ Reported(s) /\ s.payment.transfer \in 0 .. made
  BY DEF Recorded
<1>2. PICK t : t = [s EXCEPT !.webhook = hook, !.inbox = box]
  OBVIOUS
<1>3. /\ t \in States /\ t.brought = s.brought /\ t.available = s.available /\ t.reserved = s.reserved
      /\ t.reservation = s.reservation /\ t.payment = s.payment /\ t.webhook = hook /\ t.inbox = box
  BY <1>1, <1>2 DEF States
<1>4. FundsOnRecord(t) /\ Reported(t)
  BY <1>1, <1>3, SameFunds, SameReport
<1>5. InboxedOnce(t)
  BY <1>3 DEF InboxedOnce
<1> QED BY <1>1, <1>2, <1>3, <1>4, <1>5 DEF Recorded

LEMMA InboxTypes ==
  ASSUME NEW s \in States, NEW e \in ProviderEvents
  PROVE  s.inbox[e] \in [pending : Nat, processed : Nat] /\ s.inbox[e].pending \in Nat /\ s.inbox[e].processed \in Nat
BY StateTypes DEF Inboxes

LEMMA RetriedRecord ==
  ASSUME NEW made \in Nat, NEW s \in Recorded(made), NEW t \in Simulator!Retried(s)
  PROVE  t \in Recorded(made)
<1>1. s \in States /\ InboxedOnce(s) /\ s.inbox \in Inboxes /\ s.webhook \in [ProviderEvents -> {"absent", "valid", "rejected"}]
  BY StateTypes DEF Recorded
<1>2. PICK e \in ProviderEvents :
        /\ s.inbox[e].processed > 0
        /\ t = [s EXCEPT !.inbox[e] = [pending |-> @.pending + 1, processed |-> @.processed - 1]]
  BY DEF Simulator!Retried
<1>3. PICK entry : entry = [pending |-> s.inbox[e].pending + 1, processed |-> s.inbox[e].processed - 1]
  OBVIOUS
<1>4. /\ entry \in [pending : Nat, processed : Nat]
      /\ entry.pending + entry.processed = s.inbox[e].pending + s.inbox[e].processed
  BY <1>1, <1>2, <1>3, InboxTypes
<1>5. PICK box : box = [s.inbox EXCEPT ![e] = entry]
  OBVIOUS
<1>6. box \in Inboxes /\ box[e] = entry /\ \A f \in ProviderEvents \ {e} : box[f] = s.inbox[f]
  BY <1>1, <1>4, <1>5 DEF Inboxes
<1>7. \A f \in ProviderEvents : box[f].pending + box[f].processed = IF s.webhook[f] = "valid" THEN 1 ELSE 0
  BY <1>1, <1>4, <1>6 DEF InboxedOnce
<1>8. t = [s EXCEPT !.webhook = s.webhook, !.inbox = box]
  BY <1>1, <1>2, <1>3, <1>5 DEF States
<1> QED BY <1>1, <1>6, <1>7, <1>8, InboxAs

LEMMA DeliveredRecord ==
  ASSUME NEW made \in Nat, NEW s \in Recorded(made), NEW e \in ProviderEvents, NEW valid \in BOOLEAN
  PROVE  Simulator!Delivered(s, e, valid) \in Recorded(made)
<1>1. s \in States /\ InboxedOnce(s) /\ s.inbox \in Inboxes /\ s.webhook \in [ProviderEvents -> {"absent", "valid", "rejected"}]
  BY StateTypes DEF Recorded
<1>2. CASE s.webhook[e] # "absent"
  BY <1>2 DEF Simulator!Delivered
<1>3. CASE s.webhook[e] = "absent"
  <2>1. PICK hook : hook = [s.webhook EXCEPT ![e] = IF valid THEN "valid" ELSE "rejected"]
    OBVIOUS
  <2>2. PICK entry : entry = [s.inbox[e] EXCEPT !.pending = IF valid THEN s.inbox[e].pending + 1 ELSE s.inbox[e].pending]
    OBVIOUS
  <2>3. /\ entry \in [pending : Nat, processed : Nat] /\ entry.processed = s.inbox[e].processed
        /\ entry.pending = IF valid THEN s.inbox[e].pending + 1 ELSE s.inbox[e].pending
    BY <1>1, <2>2, InboxTypes
  <2>4. s.inbox[e].pending + s.inbox[e].processed = 0
    BY <1>1, <1>3 DEF InboxedOnce
  <2>5. PICK box : box = [s.inbox EXCEPT ![e] = entry]
    OBVIOUS
  <2>6. box \in Inboxes /\ box[e] = entry /\ \A f \in ProviderEvents \ {e} : box[f] = s.inbox[f]
    BY <1>1, <2>3, <2>5 DEF Inboxes
  <2>7. /\ hook \in [ProviderEvents -> {"absent", "valid", "rejected"}] /\ hook[e] = IF valid THEN "valid" ELSE "rejected"
        /\ \A f \in ProviderEvents \ {e} : hook[f] = s.webhook[f]
    BY <1>1, <2>1
  <2>8. \A f \in ProviderEvents : box[f].pending + box[f].processed = IF hook[f] = "valid" THEN 1 ELSE 0
    <3> SUFFICES ASSUME NEW f \in ProviderEvents
                 PROVE  box[f].pending + box[f].processed = IF hook[f] = "valid" THEN 1 ELSE 0
      OBVIOUS
    <3>1. CASE f = e
      BY <1>1, <2>3, <2>4, <2>6, <2>7, <3>1, InboxTypes
    <3>2. CASE f # e
      BY <1>1, <2>6, <2>7, <3>2 DEF InboxedOnce
    <3> QED BY <3>1, <3>2
  <2>9. Simulator!Delivered(s, e, valid) = [s EXCEPT !.webhook = hook, !.inbox = box]
    BY <1>1, <1>3, <2>1, <2>2, <2>5 DEF Simulator!Delivered, States, Inboxes
  <2>10. \A f \in ProviderEvents : s.webhook[f] = "valid" => hook[f] = "valid"
    BY <1>3, <2>7
  <2>11. hook \in [ProviderEvents -> {"absent", "valid", "rejected"}] /\ box \in Inboxes
    BY <2>6, <2>7
  <2>12. [s EXCEPT !.webhook = hook, !.inbox = box] \in Recorded(made)
    BY <2>8, <2>10, <2>11, InboxAs
  <2> QED BY <2>9, <2>12
<1> QED BY <1>2, <1>3

\* A payment takes the outcome of a pending, and so a valid, event about its transfer.
LEMMA ProcessedRecord ==
  ASSUME NEW made \in Nat, NEW s \in Recorded(made), NEW t \in Simulator!Processed(s)
  PROVE  t \in Recorded(made)
<1>1. /\ s \in States /\ FundsOnRecord(s) /\ InboxedOnce(s) /\ Reported(s) /\ s.payment.transfer \in 0 .. made
      /\ s.inbox \in Inboxes /\ s.payment \in Payments
  BY StateTypes DEF Recorded
<1> DEFINE about == {e[2] : e \in {f \in {g \in ProviderEvents : s.inbox[g].pending > 0} : f[1] = s.payment.transfer}}
<1>2. PICK box : box = [e \in ProviderEvents |-> [pending |-> 0, processed |-> s.inbox[e].processed + s.inbox[e].pending]]
  OBVIOUS
<1>3. /\ box \in Inboxes
      /\ \A e \in ProviderEvents : box[e].pending = 0 /\ box[e].processed = s.inbox[e].processed + s.inbox[e].pending
  BY <1>1, <1>2, InboxTypes DEF Inboxes
<1>4. PICK status \in IF about = {} THEN {s.payment.status} ELSE about :
        t = [s EXCEPT !.inbox = box, !.payment.status = status, !.payment.refreshed = s.payment.refreshed /\ about = {}]
  BY <1>2 DEF Simulator!Processed
<1>5. PICK pay : pay = [s.payment EXCEPT !.status = status, !.refreshed = s.payment.refreshed /\ about = {}]
  OBVIOUS
<1>6. about # {} => \E e \in ProviderEvents : e = <<s.payment.transfer, status>> /\ s.webhook[e] = "valid"
  <2> SUFFICES ASSUME about # {}
               PROVE  \E e \in ProviderEvents : e = <<s.payment.transfer, status>> /\ s.webhook[e] = "valid"
    OBVIOUS
  <2>1. PICK e \in ProviderEvents : s.inbox[e].pending > 0 /\ e[1] = s.payment.transfer /\ e[2] = status
    BY <1>4
  <2>2. e = <<s.payment.transfer, status>>
    BY <2>1, SimulatorConstants
  <2>3. s.webhook[e] = "valid"
    BY <1>1, <2>1, InboxTypes DEF InboxedOnce
  <2> QED BY <2>2, <2>3
<1>7. status \in {"absent", "created", "submitted", "complete", "failed", "cancelled"}
  <2>1. CASE about = {}
    BY <1>1, <1>4, <2>1, PaymentTypes
  <2>2. CASE about # {}
    <3>1. PICK e \in ProviderEvents : e[2] = status
      BY <1>4, <2>2
    <3>2. e[2] \in {"complete", "failed"}
      BY SimulatorConstants
    <3> QED BY <3>1, <3>2
  <2> QED BY <2>1, <2>2
<1>8. PICK none \in BOOLEAN : none = (about = {})
  OBVIOUS
<1>9. /\ pay \in Payments /\ pay.status = status /\ pay.transfer = s.payment.transfer
      /\ pay.refreshed = (s.payment.refreshed /\ none)
  <2>1. (s.payment.refreshed /\ none) \in BOOLEAN
    OBVIOUS
  <2>2. pay = [s.payment EXCEPT !.status = status, !.refreshed = s.payment.refreshed /\ none]
    BY <1>5, <1>8
  <2> HIDE DEF about
  <2> QED BY <1>1, <1>7, <2>1, <2>2 DEF Payments
<1>10. t = [s EXCEPT !.inbox = box, !.payment = pay]
  BY <1>1, <1>4, <1>5 DEF States, Payments
<1>11. /\ t \in States /\ t.brought = s.brought /\ t.available = s.available /\ t.reserved = s.reserved
       /\ t.reservation = s.reservation /\ t.payment = pay /\ t.webhook = s.webhook /\ t.inbox = box
  BY <1>1, <1>3, <1>9, <1>10 DEF States
<1>12. FundsOnRecord(t)
  BY <1>1, <1>11, SameFunds
<1>13. InboxedOnce(t)
  <2> SUFFICES ASSUME NEW e \in ProviderEvents
               PROVE  box[e].pending + box[e].processed = IF s.webhook[e] = "valid" THEN 1 ELSE 0
    BY <1>11 DEF InboxedOnce
  <2> QED BY <1>1, <1>3, InboxTypes DEF InboxedOnce
<1>14. Reported(t)
  <2>1. CASE about = {}
    <3>1. pay.refreshed = s.payment.refreshed /\ pay.status = s.payment.status
      BY <1>4, <1>8, <1>9, <2>1, <1>1, PaymentTypes, Zenon
    <3> QED BY <1>1, <1>9, <1>11, <3>1 DEF Reported
  <2>2. CASE about # {}
    BY <1>6, <1>9, <1>11, <2>2 DEF Reported
  <2> QED BY <2>1, <2>2
<1> QED BY <1>1, <1>9, <1>11, <1>12, <1>13, <1>14 DEF Recorded

-----------------------------------------------------------------------------
\* What is kept: the copies of the server, of the snapshot, of the requests and
\* of the process beside the server.

LEMMA SimulatorInit == Simulator!Init => SimulatorInv
<1> SUFFICES ASSUME Simulator!Init PROVE SimulatorInv
  OBVIOUS
<1>1. transfers = 0 /\ requests = 0 /\ state = Simulator!InitialState /\ row = Simulator!InitialState
  BY DEF Simulator!Init
<1>2. transfers \in 0 .. MaxTransfers /\ requests \in 0 .. MaxRequests
  BY <1>1, SimulatorConstants
<1>3. state \in Recorded(transfers) /\ row \in Recorded(transfers)
  BY <1>1, InitialIsRecorded
<1>4. /\ pending \in [Requests -> {Simulator!Idle} \cup PendingRows(transfers)]
      /\ process \in {Simulator!Idle} \cup ProcessRows(transfers)
  BY DEF Simulator!Init
<1> QED BY <1>2, <1>3, <1>4 DEF SimulatorInv

LEMMA PendingMoves ==
  ASSUME NEW m \in Nat, NEW n \in Nat, m <= n, NEW list \in [Requests -> {Simulator!Idle} \cup PendingRows(m)],
         NEW h \in Requests, NEW v \in {Simulator!Idle} \cup PendingRows(n)
  PROVE  [list EXCEPT ![h] = v] \in [Requests -> {Simulator!Idle} \cup PendingRows(n)]
<1>1. PendingRows(m) \subseteq PendingRows(n)
  BY RecordedGrows DEF PendingRows
<1> QED BY <1>1

LEMMA CopyOfRequest ==
  ASSUME SimulatorInv, NEW h \in Requests, pending[h] # Simulator!Idle
  PROVE  pending[h].at \in {"waiting", "saving"} /\ pending[h].copy \in Recorded(transfers)
<1>1. pending[h] \in PendingRows(transfers)
  BY DEF SimulatorInv
<1> QED BY <1>1 DEF PendingRows

LEMMA CopyOfProcess ==
  ASSUME SimulatorInv, process # Simulator!Idle PROVE process.copy \in Recorded(transfers)
<1>1. process \in ProcessRows(transfers)
  BY DEF SimulatorInv
<1> QED BY <1>1 DEF ProcessRows

\* A copy replaces the state of the server and is to be saved.
LEMMA ReplaceKeeps ==
  ASSUME SimulatorInv, NEW n \in transfers .. MaxTransfers, transfers' = n, NEW h \in Requests, NEW s \in Recorded(n),
         Simulator!Replace(h, s), requests' \in 0 .. MaxRequests, UNCHANGED <<row, process>>
  PROVE  SimulatorInv'
<1>1. transfers \in Nat /\ n \in Nat /\ transfers <= n /\ n \in 0 .. MaxTransfers
  BY SimulatorConstants DEF SimulatorInv
<1>2. Recorded(transfers) \subseteq Recorded(n)
  BY <1>1, RecordedGrows
<1>3. PICK v : v = [at |-> "saving", copy |-> s]
  OBVIOUS
<1>4. v \in {Simulator!Idle} \cup PendingRows(n)
  BY <1>3 DEF PendingRows
<1>5. pending \in [Requests -> {Simulator!Idle} \cup PendingRows(transfers)]
  BY DEF SimulatorInv
<1>6. pending' \in [Requests -> {Simulator!Idle} \cup PendingRows(n)]
  BY <1>1, <1>3, <1>4, <1>5, PendingMoves DEF Simulator!Replace
<1>7. process' \in {Simulator!Idle} \cup ProcessRows(n)
  BY <1>2 DEF SimulatorInv, ProcessRows
<1>8. state' \in Recorded(n) /\ row' \in Recorded(n)
  BY <1>2 DEF SimulatorInv, Simulator!Replace
<1> QED BY <1>1, <1>6, <1>7, <1>8 DEF SimulatorInv, Simulator!Idle, PendingRows, ProcessRows

LEMMA SimulatorKeeps ==
  SimulatorInv /\ [Simulator!Next]_simulatorVars => SimulatorInv'
<1> SUFFICES ASSUME SimulatorInv, [Simulator!Next]_simulatorVars PROVE SimulatorInv'
  OBVIOUS
<1>0. /\ transfers \in Nat /\ transfers \in 0 .. MaxTransfers /\ transfers \in transfers .. MaxTransfers
      /\ requests \in 0 .. MaxRequests /\ state \in Recorded(transfers) /\ row \in Recorded(transfers)
      /\ pending \in [Requests -> {Simulator!Idle} \cup PendingRows(transfers)]
  BY SimulatorConstants DEF SimulatorInv
<1>1. ASSUME NEW h \in Requests, Simulator!Command(h) PROVE SimulatorInv'
  <2>1. requests' \in 0 .. MaxRequests /\ UNCHANGED <<row, process>>
    BY <1>0, <1>1, SimulatorConstants DEF Simulator!Command, Simulator!Start
  <2>2. ASSUME NEW s \in Simulator!FundsCommands(state), Simulator!Replace(h, s), UNCHANGED transfers
        PROVE  SimulatorInv'
    <3>1. s \in Recorded(transfers)
      BY <1>0, FundsCommandsRecord
    <3> QED BY <1>0, <2>1, <2>2, <3>1, ReplaceKeeps
  <2>3. ASSUME NEW s \in {Simulator!CreatedOrCancelled(state)} \cup Simulator!Retried(state),
               Simulator!Replace(h, s), UNCHANGED transfers
        PROVE  SimulatorInv'
    <3>1. s \in Recorded(transfers)
      BY <1>0, CreatedOrCancelledRecord, RetriedRecord
    <3> QED BY <1>0, <2>1, <2>3, <3>1, ReplaceKeeps
  <2>4. ASSUME NEW status \in {"submitted", "complete"}, transfers < MaxTransfers, transfers' = transfers + 1,
               Simulator!Replace(h, Simulator!Transferred(state, status))
        PROVE  SimulatorInv'
    <3>1. PICK s : s = Simulator!Transferred(state, status)
      OBVIOUS
    <3>2. s \in Recorded(transfers + 1)
      BY <1>0, <3>1, TransferredRecord
    <3>3. transfers + 1 \in transfers .. MaxTransfers
      BY <1>0, <2>4, SimulatorConstants
    <3>4. Simulator!Replace(h, s)
      BY <2>4, <3>1
    <3> QED BY <2>1, <2>4, <3>2, <3>3, <3>4, ReplaceKeeps
  <2> QED BY <1>1, <2>2, <2>3, <2>4 DEF Simulator!Command
<1>2. ASSUME NEW h \in Requests, Simulator!Clone(h) PROVE SimulatorInv'
  <2>1. PICK v : v = [at |-> "waiting", copy |-> state]
    OBVIOUS
  <2>2. v \in {Simulator!Idle} \cup PendingRows(transfers)
    BY <1>0, <2>1 DEF PendingRows
  <2>3. pending' = [pending EXCEPT ![h] = v] /\ requests' = requests + 1 /\ requests < MaxRequests
        /\ UNCHANGED <<state, row, process, transfers>>
    BY <1>2, <2>1 DEF Simulator!Clone, Simulator!Start
  <2>4. pending' \in [Requests -> {Simulator!Idle} \cup PendingRows(transfers)]
    BY <1>0, <2>2, <2>3, PendingMoves
  <2>5. requests' \in 0 .. MaxRequests
    BY <1>0, <2>3, SimulatorConstants
  <2> QED BY <2>3, <2>4, <2>5 DEF SimulatorInv, Simulator!Idle, PendingRows, ProcessRows
<1>3. ASSUME NEW h \in Requests, Simulator!Waited(h) PROVE SimulatorInv'
  <2>1. pending[h] # Simulator!Idle /\ UNCHANGED <<row, process, transfers, requests>>
    BY <1>3 DEF Simulator!Waited, Simulator!Idle
  <2>2. pending[h].copy \in Recorded(transfers)
    BY <2>1, CopyOfRequest
  <2>3. PICK s \in Recorded(transfers) : Simulator!Replace(h, s)
    <3>1. CASE Simulator!Replace(h, pending[h].copy)
      BY <2>2, <3>1
    <3>2. ASSUME NEW e \in ProviderEvents, NEW valid \in BOOLEAN,
                 Simulator!Replace(h, Simulator!Delivered(pending[h].copy, e, valid))
          PROVE  \E s \in Recorded(transfers) : Simulator!Replace(h, s)
      <4>1. Simulator!Delivered(pending[h].copy, e, valid) \in Recorded(transfers)
        BY <1>0, <2>2, DeliveredRecord
      <4> QED BY <3>2, <4>1
    <3> QED BY <1>3, <3>1, <3>2 DEF Simulator!Waited
  <2> QED BY <1>0, <2>1, <2>3, ReplaceKeeps
<1>4. ASSUME NEW h \in Requests, Simulator!Saved(h) PROVE SimulatorInv'
  <2>1. /\ pending[h].at = "saving" /\ row' \in {row, pending[h].copy}
        /\ pending' = [pending EXCEPT ![h] = Simulator!Idle] /\ UNCHANGED <<state, process, transfers, requests>>
    BY <1>4 DEF Simulator!Saved
  <2>2. pending[h] # Simulator!Idle
    BY <2>1 DEF Simulator!Idle
  <2>3. row' \in Recorded(transfers)
    BY <1>0, <2>1, <2>2, CopyOfRequest
  <2>4. pending' \in [Requests -> {Simulator!Idle} \cup PendingRows(transfers)]
    BY <1>0, <2>1, PendingMoves
  <2> QED BY <2>1, <2>3, <2>4 DEF SimulatorInv, Simulator!Idle, PendingRows, ProcessRows
<1>5. CASE Simulator!Restart
  <2>1. row' \in Recorded(transfers)
    <3>1. row' = row \/ \E h \in Requests : pending[h].at = "saving" /\ row' = pending[h].copy
      BY <1>5 DEF Simulator!Restart
    <3>2. ASSUME NEW h \in Requests, pending[h].at = "saving", row' = pending[h].copy PROVE row' \in Recorded(transfers)
      <4>1. pending[h] # Simulator!Idle
        BY <3>2 DEF Simulator!Idle
      <4> QED BY <3>2, <4>1, CopyOfRequest
    <3> QED BY <1>0, <3>1, <3>2
  <2>2. state' \in Recorded(transfers)
    <3>1. Recorded(0) \subseteq Recorded(transfers)
      BY <1>0, RecordedGrows
    <3> QED BY <1>5, <2>1, <3>1, InitialIsRecorded DEF Simulator!Restart
  <2>3. pending' \in [Requests -> {Simulator!Idle} \cup PendingRows(transfers)] /\ UNCHANGED <<process, transfers, requests>>
    BY <1>5 DEF Simulator!Restart
  <2> QED BY <2>1, <2>2, <2>3 DEF SimulatorInv, Simulator!Idle, PendingRows, ProcessRows
<1>6. CASE Simulator!Load
  <2>1. PICK s \in {row, Simulator!InitialState} :
          \E done \in IF subject = "funds" THEN Simulator!Expired(s) ELSE Simulator!Processed(s) :
            process' = [at |-> "loaded", copy |-> done]
    BY <1>6 DEF Simulator!Load
  <2>2. s \in Recorded(transfers)
    <3>1. Recorded(0) \subseteq Recorded(transfers)
      BY <1>0, RecordedGrows
    <3> QED BY <1>0, <3>1, InitialIsRecorded
  <2>3. PICK done \in Simulator!Expired(s) \cup Simulator!Processed(s) : process' = [at |-> "loaded", copy |-> done]
    BY <2>1
  <2>4. done \in Recorded(transfers)
    BY <1>0, <2>2, ExpiredRecord, ProcessedRecord
  <2>5. process' \in ProcessRows(transfers) /\ UNCHANGED <<state, row, pending, transfers, requests>>
    BY <1>6, <2>3, <2>4 DEF Simulator!Load, ProcessRows
  <2> QED BY <2>5 DEF SimulatorInv, Simulator!Idle, PendingRows, ProcessRows
<1>7. CASE Simulator!Save
  <2>1. /\ row' \in {row, process.copy} /\ process # Simulator!Idle /\ process' = Simulator!Idle
        /\ UNCHANGED <<state, pending, transfers, requests>>
    BY <1>7 DEF Simulator!Save, Simulator!Whole
  <2>2. row' \in Recorded(transfers)
    BY <1>0, <2>1, CopyOfProcess
  <2> QED BY <2>1, <2>2 DEF SimulatorInv, Simulator!Idle, PendingRows, ProcessRows
<1>8. CASE UNCHANGED simulatorVars
  BY <1>8 DEF simulatorVars, SimulatorInv, Simulator!Idle, PendingRows, ProcessRows
<1> QED BY <1>1, <1>2, <1>3, <1>4, <1>5, <1>6, <1>7, <1>8 DEF Simulator!Next, Simulator!vars, simulatorVars

LEMMA CopiesRecorded ==
  ASSUME SimulatorInv, NEW s \in Simulator!Copies
  PROVE  s \in Recorded(transfers)
<1>1. \/ s \in {state, row} \/ \E h \in Requests : pending[h] # Simulator!Idle /\ s = pending[h].copy
      \/ process # Simulator!Idle /\ s = process.copy
  BY DEF Simulator!Copies
<1> QED BY <1>1, CopyOfRequest, CopyOfProcess DEF SimulatorInv

LEMMA SimulatorCardinality ==
  ASSUME NEW S PROVE Simulator!Cardinality(S) = Cardinality(S)
BY DEF Simulator!Cardinality, Cardinality

LEMMA CopiesAreOnRecord ==
  SimulatorInv => Simulator!TypeOK /\ Simulator!FundsAreOnRecord /\ Simulator!InInboxOnce /\ Simulator!OutcomeIsReported
<1> SUFFICES ASSUME SimulatorInv
             PROVE  /\ Simulator!TypeOK /\ Simulator!FundsAreOnRecord
                    /\ Simulator!InInboxOnce /\ Simulator!OutcomeIsReported
  OBVIOUS
<1>1. ASSUME NEW s \in Simulator!Copies
      PROVE  s \in States /\ FundsOnRecord(s) /\ InboxedOnce(s) /\ Reported(s) /\ s.payment.transfer \in 0 .. transfers
  BY CopiesRecorded DEF Recorded
<1>2. Simulator!TypeOK
  <2> SUFFICES ASSUME NEW s \in Simulator!Copies
               PROVE  /\ s.available \in 0 .. Simulator!Seed + MaxBrought /\ s.reserved \in 0 .. Simulator!Seed + MaxBrought
                      /\ s.brought \in 0 .. MaxBrought
                      /\ s.reservation \in [Reservations -> {"absent", "active", "released", "expired", "cancelled"}]
                      /\ s.payment.status \in {"absent", "created", "submitted", "complete", "failed", "cancelled"}
                      /\ s.payment.transfer \in 0 .. transfers
                      /\ s.webhook \in [ProviderEvents -> {"absent", "valid", "rejected"}]
    BY DEF SimulatorInv, Simulator!TypeOK
  <2>1. s \in States /\ s.payment.transfer \in 0 .. transfers /\ s.available + s.reserved = 1 + s.brought
    BY <1>1 DEF FundsOnRecord
  <2>2. s.available \in Nat /\ s.reserved \in Nat /\ s.brought \in 0 .. MaxBrought
    BY <2>1, StateTypes
  <2>3. s.available \in 0 .. 1 + MaxBrought /\ s.reserved \in 0 .. 1 + MaxBrought
    BY <2>1, <2>2, SimulatorConstants
  <2> QED BY <2>1, <2>2, <2>3, StateTypes, PaymentTypes DEF Simulator!Seed, ReservationStatuses
<1>3. Simulator!FundsAreOnRecord
  <2> SUFFICES ASSUME NEW s \in Simulator!Copies
               PROVE  /\ s.available + s.reserved = Simulator!Seed + s.brought
                      /\ Simulator!Cardinality({r \in Reservations : s.reservation[r] = "active"}) <= s.reserved
    BY DEF Simulator!FundsAreOnRecord
  <2>1. PICK active : active = {r \in Reservations : s.reservation[r] = "active"}
    OBVIOUS
  <2>2. active \subseteq Made(s) /\ FundsOnRecord(s) /\ s.reserved \in Nat
    BY <1>1, <2>1, StateTypes DEF Made
  <2>3. IsFiniteSet(Made(s)) /\ Cardinality(Made(s)) <= s.reserved /\ s.available + s.reserved = 1 + s.brought
    BY <2>2 DEF FundsOnRecord
  <2>4. /\ Cardinality(active) <= Cardinality(Made(s)) /\ Cardinality(active) \in Nat
        /\ Cardinality(Made(s)) \in Nat
    BY <2>2, <2>3, FS_Subset, FS_CardinalityType
  <2>5. Simulator!Cardinality(active) <= s.reserved
    BY <2>2, <2>3, <2>4, SimulatorCardinality
  <2> QED BY <2>1, <2>3, <2>5 DEF Simulator!Seed
<1>4. Simulator!InInboxOnce
  BY <1>1 DEF Simulator!InInboxOnce, InboxedOnce
<1>5. Simulator!OutcomeIsReported
  BY <1>1 DEF Simulator!OutcomeIsReported, Reported
<1> QED BY <1>2, <1>3, <1>4, <1>5

-----------------------------------------------------------------------------
(* Numbers *)

\* A set of natural numbers has a least element, a bounded one a greatest.
LEMMA Least ==
  ASSUME NEW S \in SUBSET Nat, S # {}
  PROVE  \E x \in S : \A y \in S : x <= y
<1>1. PICK R : R = OpToRel(<, Nat)
  OBVIOUS
<1>2. R = {ss \in Nat \X Nat : ss[1] < ss[2]}
  BY <1>1 DEF OpToRel
<1>3. IsWellFoundedOn(R, Nat)
  BY <1>1, NatLessThanWellFounded
<1>4. PICK x \in S : \A y \in S : ~ (<<y, x>> \in R)
  BY <1>3, WFMin
<1>5. ASSUME NEW y \in S PROVE x <= y
  <2>1. x \in Nat /\ y \in Nat
    OBVIOUS
  <2>2. <<y, x>> \in Nat \X Nat
    BY <2>1
  <2>3. ~ (y < x)
    BY <1>2, <1>4, <2>2
  <2> QED BY <2>1, <2>3
<1> QED BY <1>5

LEMMA Greatest ==
  ASSUME NEW max \in Nat, NEW S \in SUBSET (0 .. max), S # {}
  PROVE  \E x \in S : \A y \in S : y <= x
<1>1. PICK T : T = {max - y : y \in S}
  OBVIOUS
<1>2. T \in SUBSET Nat /\ T # {}
  <2>1. \A y \in S : max - y \in Nat
    OBVIOUS
  <2> QED BY <1>1, <2>1
<1>3. PICK t \in T : \A u \in T : t <= u
  BY <1>2, Least
<1>4. PICK x \in S : t = max - x
  BY <1>1
<1>5. ASSUME NEW y \in S PROVE y <= x
  <2>1. max - x <= max - y
    BY <1>1, <1>3, <1>4
  <2>2. x \in Nat /\ y \in Nat
    OBVIOUS
  <2> QED BY <2>1, <2>2
<1> QED BY <1>5

-----------------------------------------------------------------------------
(* InternalIdentity *)

UserStatuses == {"none", "invited", "active", "disabled"}
Secrets == [token : BOOLEAN, password : BOOLEAN]
Tables == {"users", "roles", "invitations", "secrets"}

Kept(d, e) == d.secrets[e].password
Accepted(d, e) == \E n \in Identity!Numbers : d.invitations[n].email = e /\ d.invitations[n].status = "accepted"

\* Accepted invitations and passwords are of users in the table; of those, or of
\* users in the draft.
Known(d) == \A e \in Emails : Kept(d, e) \/ Accepted(d, e) => users[e] # "none"
Backed(d) == \A e \in Emails : Kept(d, e) \/ Accepted(d, e) => d.users[e] # "none" \/ users[e] # "none"

Reads == [at : {"read"}, unread : SUBSET Tables, rows : Identity!Drafts]
Persists == [at : {"persist"}, draft : Identity!Drafts, new : SUBSET Emails]
Requesting == {Identity!Idle} \cup Reads \cup Persists

\* What a request has read, or is about to write: users stay.
BackedAt(v, d) ==
  /\ v.at = "read" /\ v.rows = d => Known(d)
  /\ v.at = "persist" /\ v.draft = d => Backed(d)
RequestsBacked == \A p \in People, d \in Identity!Drafts : BackedAt(call[p], d)

IdentityInv ==
  /\ Identity!Now \in Identity!Drafts /\ calls \in 0 .. MaxCalls
  /\ Identity!AcceptedHasUser
  /\ call \in [People -> Requesting]
  /\ RequestsBacked

LEMMA IdentityConstants ==
  /\ MaxInvitations \in Nat /\ MaxCalls \in Nat /\ "none" \notin Emails
  /\ UNION RoleLists \subseteq Identity!Roles /\ "super_admin" \in Identity!Roles
<1>1. MaxInvitations \in Nat /\ MaxCalls \in Nat /\ "none" \notin Emails
  BY IdentityAssumption DEF Identity!AdminEmail, Identity!BoundsNat
<1>2. Identity!Roles = (UNION RoleLists) \cup {"platform_admin", "super_admin"}
  BY DEF Identity!Roles
<1>3. UNION RoleLists \subseteq Identity!Roles
  BY <1>2
<1>4. "super_admin" \in Identity!Roles
  BY <1>2
<1> QED BY <1>1, <1>3, <1>4

LEMMA DraftTypes ==
  ASSUME NEW d \in Identity!Drafts
  PROVE  /\ d.users \in [Emails -> UserStatuses] /\ d.roles \in [Emails -> SUBSET Identity!Roles]
         /\ d.invitations \in [Identity!Numbers -> Identity!Invitations] /\ d.secrets \in [Emails -> Secrets]
         /\ d = [users |-> d.users, roles |-> d.roles, invitations |-> d.invitations, secrets |-> d.secrets]
BY DEF Identity!Drafts, UserStatuses, Secrets

LEMMA DraftOf ==
  ASSUME NEW us \in [Emails -> UserStatuses], NEW rs \in [Emails -> SUBSET Identity!Roles],
         NEW list \in [Identity!Numbers -> Identity!Invitations], NEW kept \in [Emails -> Secrets],
         NEW d, d = [users |-> us, roles |-> rs, invitations |-> list, secrets |-> kept]
  PROVE  d \in Identity!Drafts /\ d.users = us /\ d.roles = rs /\ d.invitations = list /\ d.secrets = kept
BY DEF Identity!Drafts, UserStatuses, Secrets

LEMMA RequestingTypes ==
  /\ Identity!Idle.at = "idle"
  /\ \A v \in Reads : v.at = "read" /\ v.unread \subseteq Tables /\ v.rows \in Identity!Drafts /\ v # Identity!Idle
  /\ \A v \in Persists : v.at = "persist" /\ v.draft \in Identity!Drafts /\ v.new \subseteq Emails /\ v # Identity!Idle
  /\ \A v \in Requesting : (v.at = "read" => v \in Reads) /\ (v.at = "persist" => v \in Persists)
<1>1. Identity!Idle.at = "idle"
  BY DEF Identity!Idle
<1>2. \A v \in Reads : v.at = "read" /\ v.unread \subseteq Tables /\ v.rows \in Identity!Drafts
  BY DEF Reads
<1>3. \A v \in Persists : v.at = "persist" /\ v.draft \in Identity!Drafts /\ v.new \subseteq Emails
  BY DEF Persists
<1> QED BY <1>1, <1>2, <1>3 DEF Requesting

LEMMA NowTypes ==
  ASSUME IdentityInv
  PROVE  /\ users \in [Emails -> UserStatuses] /\ roles \in [Emails -> SUBSET Identity!Roles]
         /\ invitations \in [Identity!Numbers -> Identity!Invitations] /\ secrets \in [Emails -> Secrets]
BY DEF IdentityInv, Identity!Now, Identity!Drafts, UserStatuses, Secrets

\* The tables are backed by themselves, which is what the property says.
LEMMA NowIsBacked ==
  Identity!AcceptedHasUser <=> Known(Identity!Now)
BY DEF Known, Identity!AcceptedHasUser, Identity!Of, Identity!Now, Kept, Accepted

LEMMA BackedStays ==
  ASSUME NEW d, \A e \in Emails : users[e] # "none" => users'[e] # "none"
  PROVE  (Known(d) => Known(d)') /\ (Backed(d) => Backed(d)')
BY DEF Known, Backed, Kept, Accepted

LEMMA BackedAs ==
  ASSUME NEW s, NEW d, Known(s),
         \A f \in Emails : d.users[f] = "none" /\ Kept(d, f) => Kept(s, f),
         \A f \in Emails : d.users[f] = "none" /\ Accepted(d, f) => Accepted(s, f)
  PROVE  Backed(d)
BY DEF Known, Backed

LEMMA BlankIsKnown == Identity!Blank \in Identity!Drafts /\ Known(Identity!Blank)
<1>1. PICK d : d = Identity!Blank
  OBVIOUS
<1>2. PICK us : us = [e \in Emails |-> "none"]
  OBVIOUS
<1>3. PICK rs : rs = [e \in Emails |-> {}]
  OBVIOUS
<1>4. PICK list : list = [n \in Identity!Numbers |-> Identity!NoInvitation]
  OBVIOUS
<1>5. PICK kept : kept = [e \in Emails |-> Identity!NoSecret]
  OBVIOUS
<1>6. d = [users |-> us, roles |-> rs, invitations |-> list, secrets |-> kept]
  BY <1>1, <1>2, <1>3, <1>4, <1>5 DEF Identity!Blank
<1>7. Identity!NoSecret \in Secrets /\ ~Identity!NoSecret.password
  BY DEF Identity!NoSecret, Secrets
<1>8. /\ us \in [Emails -> UserStatuses] /\ rs \in [Emails -> SUBSET Identity!Roles]
      /\ list \in [Identity!Numbers -> Identity!Invitations] /\ kept \in [Emails -> Secrets]
  BY <1>2, <1>3, <1>4, <1>5, <1>7 DEF UserStatuses, Identity!Invitations
<1>9. d \in Identity!Drafts /\ d.invitations = list /\ d.secrets = kept
  BY <1>6, <1>8, DraftOf
<1>10. ASSUME NEW e \in Emails PROVE ~Kept(d, e) /\ ~Accepted(d, e)
  <2>1. ~Kept(d, e)
    BY <1>5, <1>7, <1>9 DEF Kept
  <2>2. \A n \in Identity!Numbers : d.invitations[n].email = "none"
    BY <1>4, <1>9 DEF Identity!NoInvitation
  <2>3. ~Accepted(d, e)
    BY <2>2, IdentityConstants DEF Accepted
  <2> QED BY <2>1, <2>3
<1> QED BY <1>1, <1>9, <1>10 DEF Known

\* A table that is read takes the place of what was there.
LEMMA ReadIsKnown ==
  ASSUME IdentityInv, NEW s \in Identity!Drafts, Known(s), NEW table \in Tables
  PROVE  [s EXCEPT ![table] = Identity!Now[table]] \in Identity!Drafts /\ Known([s EXCEPT ![table] = Identity!Now[table]])
<1>1. PICK d : d = [s EXCEPT ![table] = Identity!Now[table]]
  OBVIOUS
<1>2. Known(Identity!Now)
  BY NowIsBacked DEF IdentityInv
<1>3. CASE table = "users"
  <2>1. d = [users |-> users, roles |-> s.roles, invitations |-> s.invitations, secrets |-> s.secrets]
    <3>1. Identity!Now[table] = users
      BY <1>3 DEF Identity!Now
    <3>2. d = [s EXCEPT !.users = users]
      BY <1>1, <1>3, <3>1
    <3> QED BY <3>2 DEF Identity!Drafts
  <2>2. d \in Identity!Drafts /\ d.users = users /\ d.invitations = s.invitations /\ d.secrets = s.secrets
    BY <2>1, DraftTypes, NowTypes, DraftOf
  <2> QED BY <1>1, <2>2 DEF Known, Kept, Accepted
<1>4. CASE table = "roles"
  <2>1. d = [users |-> s.users, roles |-> roles, invitations |-> s.invitations, secrets |-> s.secrets]
    <3>1. Identity!Now[table] = roles
      BY <1>4 DEF Identity!Now
    <3>2. d = [s EXCEPT !.roles = roles]
      BY <1>1, <1>4, <3>1
    <3> QED BY <3>2 DEF Identity!Drafts
  <2>2. d \in Identity!Drafts /\ d.users = s.users /\ d.invitations = s.invitations /\ d.secrets = s.secrets
    BY <2>1, DraftTypes, NowTypes, DraftOf
  <2> QED BY <1>1, <2>2 DEF Known, Kept, Accepted
<1>5. CASE table = "invitations"
  <2>1. d = [users |-> s.users, roles |-> s.roles, invitations |-> invitations, secrets |-> s.secrets]
    <3>1. Identity!Now[table] = invitations
      BY <1>5 DEF Identity!Now
    <3>2. d = [s EXCEPT !.invitations = invitations]
      BY <1>1, <1>5, <3>1
    <3> QED BY <3>2 DEF Identity!Drafts
  <2>2. d \in Identity!Drafts /\ d.users = s.users /\ d.invitations = invitations /\ d.secrets = s.secrets
    BY <2>1, DraftTypes, NowTypes, DraftOf
  <2>3. \A e \in Emails : (Kept(d, e) => Kept(s, e)) /\ (Accepted(d, e) => Accepted(Identity!Now, e))
    BY <2>2 DEF Kept, Accepted, Identity!Now
  <2> QED BY <1>1, <1>2, <2>2, <2>3 DEF Known
<1>6. CASE table = "secrets"
  <2>1. d = [users |-> s.users, roles |-> s.roles, invitations |-> s.invitations, secrets |-> secrets]
    <3>1. Identity!Now[table] = secrets
      BY <1>6 DEF Identity!Now
    <3>2. d = [s EXCEPT !.secrets = secrets]
      BY <1>1, <1>6, <3>1
    <3> QED BY <3>2 DEF Identity!Drafts
  <2>2. d \in Identity!Drafts /\ d.users = s.users /\ d.invitations = s.invitations /\ d.secrets = secrets
    BY <2>1, DraftTypes, NowTypes, DraftOf
  <2>3. \A e \in Emails : (Kept(d, e) => Kept(Identity!Now, e)) /\ (Accepted(d, e) => Accepted(s, e))
    BY <2>2 DEF Kept, Accepted, Identity!Now
  <2> QED BY <1>1, <1>2, <2>2, <2>3 DEF Known
<1> QED BY <1>3, <1>4, <1>5, <1>6 DEF Tables

\* One request moves on, and nothing else.
LEMMA IdentityCallMoves ==
  ASSUME IdentityInv, NEW p \in People, NEW v \in Requesting, call' = [call EXCEPT ![p] = v],
         \A d \in Identity!Drafts : BackedAt(v, d),
         calls' \in 0 .. MaxCalls, UNCHANGED <<users, roles, invitations, secrets>>
  PROVE  IdentityInv'
<1>1. call' \in [People -> Requesting] /\ call'[p] = v /\ \A q \in People \ {p} : call'[q] = call[q]
  BY DEF IdentityInv
<1>2. RequestsBacked'
  <2> SUFFICES ASSUME NEW q \in People, NEW d \in Identity!Drafts PROVE BackedAt(call[q], d)'
    BY DEF RequestsBacked, BackedAt, Identity!Drafts
  <2>1. BackedAt(call'[q], d)
    BY <1>1 DEF IdentityInv, RequestsBacked
  <2> QED BY <2>1, BackedStays DEF BackedAt
<1>3. Identity!Now' \in Identity!Drafts' /\ Identity!AcceptedHasUser'
  BY DEF IdentityInv, Identity!Now, Identity!Drafts, Identity!AcceptedHasUser, Identity!Of
<1> QED BY <1>1, <1>2, <1>3 DEF IdentityInv, Identity!Drafts, Requesting, Reads, Persists

\* The tables change, and at most one request ends.
LEMMA TablesMove ==
  ASSUME IdentityInv, Identity!Now' \in Identity!Drafts, Known(Identity!Now)',
         \A e \in Emails : users[e] # "none" => users'[e] # "none",
         call' = call \/ \E p \in People : call' = [call EXCEPT ![p] = Identity!Idle], calls' = calls
  PROVE  IdentityInv'
<1>1. call' \in [People -> Requesting] /\ \A q \in People : call'[q] \in {call[q], Identity!Idle}
  BY DEF IdentityInv, Requesting
<1>2. RequestsBacked'
  <2> SUFFICES ASSUME NEW q \in People, NEW d \in Identity!Drafts PROVE BackedAt(call[q], d)'
    BY DEF RequestsBacked, BackedAt, Identity!Drafts
  <2>1. BackedAt(call'[q], d)
    BY <1>1, RequestingTypes DEF IdentityInv, RequestsBacked, BackedAt
  <2> QED BY <2>1, BackedStays DEF BackedAt
<1>3. Identity!AcceptedHasUser'
  BY NowIsBacked, PTL
<1> QED BY <1>1, <1>2, <1>3 DEF IdentityInv, Identity!Drafts, Requesting, Reads, Persists

LEMMA LeaveKeeps ==
  ASSUME IdentityInv, NEW p \in People, NEW e \in Emails, NEW d \in Identity!Drafts, Backed(d), Identity!Leave(p, e, d)
  PROVE  IdentityInv'
<1>0. PICK new : new = IF call[p].rows.users[e] = "none" /\ d.users[e] # "none" THEN {e} ELSE {}
  OBVIOUS
<1>1. PICK v \in Persists : v = [at |-> "persist", draft |-> d, new |-> new]
  <2>1. new \in SUBSET Emails
    BY <1>0
  <2> QED BY <2>1 DEF Persists
<1>2. v \in Requesting /\ v.at = "persist" /\ v.draft = d
  BY <1>1 DEF Requesting, Persists
<1>3. call' = [call EXCEPT ![p] = v] /\ UNCHANGED <<users, roles, invitations, secrets, calls>>
  BY <1>0, <1>1 DEF Identity!Leave, Identity!tables
<1> QED BY <1>2, <1>3, IdentityCallMoves DEF BackedAt, IdentityInv

-----------------------------------------------------------------------------
\* The handlers, on rows s that the tables have users for: each leaves a draft
\* that is backed, since it accepts an invitation and stores a password only for
\* a user it makes or makes active.

LEMMA AssignedDraft ==
  ASSUME NEW s \in Identity!Drafts, NEW e \in Emails, NEW list \in SUBSET Identity!Roles
  PROVE  \E t \in Identity!Drafts :
           /\ t = Identity!Assigned(s, e, list) /\ t.users = s.users
           /\ t.invitations = s.invitations /\ t.secrets = s.secrets
<1>1. PICK rs \in [Emails -> SUBSET Identity!Roles] : rs = [s.roles EXCEPT ![e] = list]
  BY DraftTypes
<1>2. PICK t : t = [s EXCEPT !.roles = rs]
  OBVIOUS
<1>3. t \in Identity!Drafts /\ t.users = s.users /\ t.invitations = s.invitations /\ t.secrets = s.secrets
  BY <1>2 DEF Identity!Drafts
<1>4. t = Identity!Assigned(s, e, list)
  BY <1>1, <1>2 DEF Identity!Assigned
<1> QED BY <1>3, <1>4

LEMMA InviteKeeps ==
  ASSUME IdentityInv, NEW p \in People, NEW s \in Identity!Drafts, Known(s), NEW e \in Emails,
         NEW role \in UNION RoleLists, Identity!Invite(p, s, e, role)
  PROVE  IdentityInv'
<1>1. PICK t \in Identity!Drafts :
        /\ t = Identity!Assigned(s, e, {role}) /\ t.users = s.users
        /\ t.invitations = s.invitations /\ t.secrets = s.secrets
  BY AssignedDraft, IdentityConstants
<1>2. PICK us : us = [t.users EXCEPT ![e] = "invited"]
  OBVIOUS
<1>3. PICK kept : kept = [t.secrets EXCEPT ![e] = [token |-> TRUE, password |-> FALSE]]
  OBVIOUS
<1>4. PICK n : n = Identity!FreshNumber
  OBVIOUS
<1>5. PICK list : list = [t.invitations EXCEPT ![n] = Identity!Invitation(e, role)]
  OBVIOUS
<1>6. PICK d : d = [t EXCEPT !.users = us, !.secrets = kept, !.invitations = list]
  OBVIOUS
<1>7. Identity!Leave(p, e, d)
  <2>1. d = [t EXCEPT !.users[e] = "invited", !.secrets[e] = [token |-> TRUE, password |-> FALSE],
                      !.invitations[n] = Identity!Invitation(e, role)]
    BY <1>2, <1>3, <1>5, <1>6 DEF Identity!Drafts
  <2> QED BY <1>1, <1>4, <2>1 DEF Identity!Invite
<1>8. Identity!Invitation(e, role) \in Identity!Invitations /\ Identity!Invitation(e, role).status = "sent"
  BY IdentityConstants DEF Identity!Invitation, Identity!Invitations
<1>9. /\ us \in [Emails -> UserStatuses] /\ list \in [Identity!Numbers -> Identity!Invitations]
      /\ kept \in [Emails -> Secrets]
  BY <1>2, <1>3, <1>5, <1>8, DraftTypes DEF UserStatuses, Secrets
<1>10. d \in Identity!Drafts /\ d.users = us /\ d.invitations = list /\ d.secrets = kept
  BY <1>6, <1>9 DEF Identity!Drafts, UserStatuses, Secrets
<1>11. us[e] = "invited" /\ \A f \in Emails \ {e} : us[f] = s.users[f] /\ kept[f] = s.secrets[f]
  BY <1>1, <1>2, <1>3, DraftTypes
<1>12. \A m \in Identity!Numbers : list[m].status = "accepted" => list[m] = s.invitations[m]
  BY <1>1, <1>5, <1>8, DraftTypes
<1>13. Backed(d)
  BY <1>10, <1>11, <1>12, BackedAs DEF Kept, Accepted
<1> QED BY <1>7, <1>10, <1>13, LeaveKeeps

\* An invitation is sent, once more or for the first time.
LEMMA SendKeeps ==
  ASSUME IdentityInv, NEW p \in People, NEW s \in Identity!Drafts, Known(s), NEW e \in Emails,
         NEW role \in Identity!Roles, NEW n,
         Identity!Leave(p, e, [s EXCEPT !.invitations[n] = Identity!Invitation(e, role), !.secrets[e].token = TRUE])
  PROVE  IdentityInv'
<1>1. PICK secret : secret = [s.secrets[e] EXCEPT !.token = TRUE]
  OBVIOUS
<1>2. secret \in Secrets /\ secret.password = s.secrets[e].password
  <2>1. PICK old \in Secrets : old = s.secrets[e]
    BY DraftTypes
  <2>2. secret = [old EXCEPT !.token = TRUE]
    BY <1>1, <2>1
  <2>3. secret \in Secrets
    BY <2>2 DEF Secrets
  <2>4. secret.password = old.password
    BY <2>2 DEF Secrets
  <2> QED BY <2>1, <2>3, <2>4
<1>3. PICK kept : kept = [s.secrets EXCEPT ![e] = secret]
  OBVIOUS
<1>4. PICK list : list = [s.invitations EXCEPT ![n] = Identity!Invitation(e, role)]
  OBVIOUS
<1>5. PICK d : d = [s EXCEPT !.invitations = list, !.secrets = kept]
  OBVIOUS
<1>6. d = [s EXCEPT !.invitations[n] = Identity!Invitation(e, role), !.secrets[e].token = TRUE]
  BY <1>1, <1>3, <1>4, <1>5 DEF Identity!Drafts
<1>7. Identity!Invitation(e, role) \in Identity!Invitations /\ Identity!Invitation(e, role).status = "sent"
  BY DEF Identity!Invitation, Identity!Invitations
<1>8. list \in [Identity!Numbers -> Identity!Invitations] /\ kept \in [Emails -> Secrets]
  BY <1>2, <1>3, <1>4, <1>7, DraftTypes
<1>9. d \in Identity!Drafts /\ d.users = s.users /\ d.invitations = list /\ d.secrets = kept
  BY <1>5, <1>8 DEF Identity!Drafts, Secrets
<1>10. kept[e] = secret /\ \A f \in Emails \ {e} : kept[f] = s.secrets[f]
  BY <1>3, DraftTypes
<1>11. \A m \in Identity!Numbers : list[m].status = "accepted" => list[m] = s.invitations[m]
  BY <1>4, <1>7, DraftTypes
<1>12. \A f \in Emails : (Kept(d, f) => Kept(s, f)) /\ (Accepted(d, f) => Accepted(s, f))
  BY <1>2, <1>9, <1>10, <1>11 DEF Kept, Accepted
<1>13. Backed(d)
  BY <1>12, BackedAs
<1> QED BY <1>6, <1>9, <1>13, LeaveKeeps

\* Roles are replaced, and the status of a user.
LEMMA StatusKeeps ==
  ASSUME IdentityInv, NEW p \in People, NEW s \in Identity!Drafts, Known(s), NEW e \in Emails,
         NEW t \in Identity!Drafts, t.users = s.users, t.invitations = s.invitations, t.secrets = s.secrets,
         NEW status \in {"invited", "active", "disabled"}, Identity!Leave(p, e, [t EXCEPT !.users[e] = status])
  PROVE  IdentityInv'
<1>1. PICK us : us = [t.users EXCEPT ![e] = status]
  OBVIOUS
<1>2. us \in [Emails -> UserStatuses]
  BY <1>1, DraftTypes DEF UserStatuses
<1>3. PICK d : d = [t EXCEPT !.users = us]
  OBVIOUS
<1>4. d = [t EXCEPT !.users[e] = status]
  BY <1>1, <1>3
<1>5. d \in Identity!Drafts /\ d.invitations = s.invitations /\ d.secrets = s.secrets
  BY <1>2, <1>3 DEF Identity!Drafts, UserStatuses
<1>6. Backed(d)
  BY <1>5, BackedAs DEF Kept, Accepted
<1> QED BY <1>4, <1>5, <1>6, LeaveKeeps

LEMMA UpdateKeeps ==
  ASSUME IdentityInv, NEW p \in People, NEW s \in Identity!Drafts, Known(s), NEW e \in Emails,
         NEW status \in {"invited", "active", "disabled"}, NEW list,
         \/ list \in RoleLists \cup {s.roles[e]} /\ Identity!UpdateUser(p, s, e, status, list)
         \/ list \in RoleLists /\ Identity!UpdateRoles(p, s, e, list)
         \/ Identity!UpdateStatus(p, s, e, status)
  PROVE  IdentityInv'
<1>1. CASE list \in RoleLists \cup {s.roles[e]} /\ Identity!UpdateUser(p, s, e, status, list)
  <2>1. list \in SUBSET Identity!Roles
    BY <1>1, DraftTypes, IdentityConstants
  <2>2. PICK t \in Identity!Drafts :
          /\ t = Identity!Assigned(s, e, list) /\ t.users = s.users
          /\ t.invitations = s.invitations /\ t.secrets = s.secrets
    BY <2>1, AssignedDraft
  <2>3. Identity!Leave(p, e, [t EXCEPT !.users[e] = status])
    BY <1>1, <2>2 DEF Identity!UpdateUser
  <2> QED BY <2>2, <2>3, StatusKeeps
<1>2. CASE list \in RoleLists /\ Identity!UpdateRoles(p, s, e, list)
  <2>1. list \in SUBSET Identity!Roles
    BY <1>2, IdentityConstants
  <2>2. PICK t \in Identity!Drafts :
          /\ t = Identity!Assigned(s, e, list) /\ t.users = s.users
          /\ t.invitations = s.invitations /\ t.secrets = s.secrets
    BY <2>1, AssignedDraft
  <2>3. Identity!Leave(p, e, t)
    BY <1>2, <2>2 DEF Identity!UpdateRoles
  <2>4. Backed(t)
    BY <2>2, BackedAs DEF Kept, Accepted
  <2> QED BY <2>3, <2>4, LeaveKeeps
<1>3. CASE Identity!UpdateStatus(p, s, e, status)
  BY <1>3, StatusKeeps DEF Identity!UpdateStatus
<1> QED BY <1>1, <1>2, <1>3

\* The newest of the invitations that were sent is one of them.
LEMMA NewestIsSent ==
  ASSUME NEW s \in Identity!Drafts, NEW e \in Emails, Identity!Sent(s, e) # {}
  PROVE  s.invitations[Identity!Newest(Identity!Sent(s, e))].role \in Identity!Roles
<1>1. PICK sent : sent = Identity!Sent(s, e)
  OBVIOUS
<1>2. sent \in SUBSET (0 .. MaxInvitations) /\ sent # {} /\ MaxInvitations \in Nat
  BY <1>1, IdentityConstants DEF Identity!Sent, Identity!Of, Identity!Numbers
<1>3. \E n \in sent : \A m \in sent : m <= n
  BY <1>2, Greatest
<1>4. Identity!Newest(sent) \in sent
  BY <1>3 DEF Identity!Newest
<1>5. \A n \in sent : n \in Identity!Numbers /\ s.invitations[n].email \in Emails
  BY <1>1 DEF Identity!Sent, Identity!Of
<1>6. \A n \in sent : s.invitations[n].role \in Identity!Roles
  BY <1>5, DraftTypes, IdentityConstants DEF Identity!Invitations, Identity!NoInvitation
<1> QED BY <1>1, <1>4, <1>6

LEMMA InitializeKeeps ==
  ASSUME IdentityInv, NEW p \in People, NEW s \in Identity!Drafts, Known(s), NEW e \in Emails,
         NEW expired \in BOOLEAN, Identity!Initialize(p, s, e, expired)
  PROVE  IdentityInv'
<1>1. PICK sent : sent = Identity!Sent(s, e)
  OBVIOUS
<1>2. PICK t \in Identity!Drafts :
        /\ t = IF sent = {} \/ expired THEN s
               ELSE Identity!Assigned(s, e, {s.invitations[Identity!Newest(sent)].role})
        /\ t.users = s.users /\ t.invitations = s.invitations /\ t.secrets = s.secrets
  <2>1. CASE sent = {} \/ expired
    BY <2>1
  <2>2. CASE ~(sent = {} \/ expired)
    <3>1. PICK list \in SUBSET Identity!Roles : list = {s.invitations[Identity!Newest(sent)].role}
      BY <1>1, <2>2, NewestIsSent
    <3> QED BY <2>2, <3>1, AssignedDraft
  <2> QED BY <2>1, <2>2
<1>3. PICK us : us = [t.users EXCEPT ![e] = "active"]
  OBVIOUS
<1>4. PICK kept : kept = [t.secrets EXCEPT ![e] = [token |-> FALSE, password |-> TRUE]]
  OBVIOUS
<1>5. PICK list : list = [n \in Identity!Numbers |->
                           IF n \in sent THEN [t.invitations[n] EXCEPT !.status = "accepted"] ELSE t.invitations[n]]
  OBVIOUS
<1>6. PICK d : d = [t EXCEPT !.users = us, !.secrets = kept, !.invitations = list]
  OBVIOUS
<1>7. Identity!Leave(p, e, d)
  <2>1. d = [t EXCEPT !.users[e] = "active", !.secrets[e] = [token |-> FALSE, password |-> TRUE],
                      !.invitations = [n \in Identity!Numbers |->
                        IF n \in sent THEN [t.invitations[n] EXCEPT !.status = "accepted"] ELSE t.invitations[n]]]
    BY <1>3, <1>4, <1>5, <1>6 DEF Identity!Drafts
  <2> QED BY <1>1, <1>2, <2>1 DEF Identity!Initialize, Identity!Drafts
<1>8. ASSUME NEW n \in Identity!Numbers
      PROVE  /\ list[n] \in Identity!Invitations
             /\ list[n].status = "accepted" => list[n] = s.invitations[n] \/ list[n].email = e
  <2>1. CASE n \in sent
    <3>1. s.invitations[n].email = e
      BY <1>1, <2>1 DEF Identity!Sent, Identity!Of
    <3>2. PICK old \in [email : Emails, role : Identity!Roles, status : {"sent", "accepted"}] : s.invitations[n] = old
      BY <3>1, DraftTypes, IdentityConstants DEF Identity!Invitations, Identity!NoInvitation
    <3>3. list[n] = [old EXCEPT !.status = "accepted"]
      BY <1>2, <1>5, <2>1, <3>2
    <3> QED BY <3>1, <3>2, <3>3 DEF Identity!Invitations
  <2>2. CASE n \notin sent
    BY <1>2, <1>5, <2>2, DraftTypes
  <2> QED BY <2>1, <2>2
<1>9. /\ us \in [Emails -> UserStatuses] /\ list \in [Identity!Numbers -> Identity!Invitations]
      /\ kept \in [Emails -> Secrets]
  <2>1. list \in [Identity!Numbers -> Identity!Invitations]
    BY <1>5, <1>8
  <2> QED BY <1>3, <1>4, <2>1, DraftTypes DEF UserStatuses, Secrets
<1>10. d \in Identity!Drafts /\ d.users = us /\ d.invitations = list /\ d.secrets = kept
  BY <1>6, <1>9 DEF Identity!Drafts, UserStatuses, Secrets
<1>11. us[e] = "active" /\ \A f \in Emails \ {e} : us[f] = s.users[f] /\ kept[f] = s.secrets[f]
  BY <1>2, <1>3, <1>4, DraftTypes
<1>12. \A f \in Emails : d.users[f] = "none" => (Kept(d, f) => Kept(s, f)) /\ (Accepted(d, f) => Accepted(s, f))
  <2> SUFFICES ASSUME NEW f \in Emails, f # e
               PROVE  (Kept(d, f) => Kept(s, f)) /\ (Accepted(d, f) => Accepted(s, f))
    BY <1>10, <1>11
  <2>1. Kept(d, f) => Kept(s, f)
    BY <1>10, <1>11 DEF Kept
  <2>2. Accepted(d, f) => Accepted(s, f)
    BY <1>8, <1>10 DEF Accepted
  <2> QED BY <2>1, <2>2
<1>13. Backed(d)
  BY <1>12, BackedAs
<1> QED BY <1>7, <1>10, <1>13, LeaveKeeps

LEMMA HandleKeeps ==
  ASSUME IdentityInv, NEW p \in People, NEW s \in Identity!Drafts, Known(s), NEW e \in Emails, Identity!Handle(p, s, e)
  PROVE  IdentityInv'
<1>1. ASSUME NEW role \in UNION RoleLists, Identity!Invite(p, s, e, role) PROVE IdentityInv'
  BY <1>1, InviteKeeps
<1>2. ASSUME NEW role \in Identity!Roles, Identity!Resend(p, s, e, role) PROVE IdentityInv'
  BY <1>2, SendKeeps DEF Identity!Resend
<1>3. ASSUME NEW role \in Identity!Roles, Identity!Forget(p, s, e, role) PROVE IdentityInv'
  BY <1>3, SendKeeps DEF Identity!Forget
<1>4. ASSUME NEW status \in {"invited", "active", "disabled"}, NEW list \in RoleLists \cup {s.roles[e]},
             Identity!UpdateUser(p, s, e, status, list)
      PROVE  IdentityInv'
  BY <1>4, UpdateKeeps
<1>5. ASSUME NEW status \in {"invited", "active", "disabled"}, Identity!UpdateStatus(p, s, e, status) PROVE IdentityInv'
  BY <1>5, UpdateKeeps
<1>6. ASSUME NEW list \in RoleLists, Identity!UpdateRoles(p, s, e, list) PROVE IdentityInv'
  BY <1>6, UpdateKeeps
<1>7. CASE Identity!Bootstrap(p, s, e)
  BY <1>7, SendKeeps, IdentityConstants DEF Identity!Bootstrap
<1>8. ASSUME NEW expired \in BOOLEAN, Identity!Initialize(p, s, e, expired) PROVE IdentityInv'
  BY <1>8, InitializeKeeps
<1> QED BY <1>1, <1>2, <1>3, <1>4, <1>5, <1>6, <1>7, <1>8 DEF Identity!Handle
-----------------------------------------------------------------------------
\* The transaction inserts and updates, and so leaves no one without a user who
\* has one in the table or in the draft.
LEMMA PersistKeeps ==
  ASSUME IdentityInv, NEW p \in People, Identity!Persist(p)
  PROVE  IdentityInv'
<1>1. call' = [call EXCEPT ![p] = Identity!Idle] /\ calls' = calls
  BY DEF Identity!Persist
<1>2. CASE ~Identity!Fits(call[p])
  <2>1. UNCHANGED <<users, roles, invitations, secrets>>
    BY <1>2 DEF Identity!Persist, Identity!tables
  <2>2. Identity!Idle \in Requesting
    BY DEF Requesting
  <2> QED BY <1>1, <2>1, <2>2, IdentityCallMoves, RequestingTypes DEF BackedAt, IdentityInv
<1>3. CASE Identity!Fits(call[p])
  <2>1. PICK d : d = call[p].draft
    OBVIOUS
  <2>2. d \in Identity!Drafts /\ Backed(d)
    BY <2>1, RequestingTypes DEF IdentityInv, RequestsBacked, BackedAt, Identity!Persist
  <2>3. PICK us : us = [e \in Emails |-> IF d.users[e] = "none" THEN users[e] ELSE d.users[e]]
    OBVIOUS
  <2>4. PICK rs : rs = [e \in Emails |-> IF d.users[e] = "none" THEN roles[e] \cup d.roles[e] ELSE d.roles[e]]
    OBVIOUS
  <2>5. PICK list : list = [n \in Identity!Numbers |->
                             IF d.invitations[n] = Identity!NoInvitation THEN invitations[n] ELSE d.invitations[n]]
    OBVIOUS
  <2>6. PICK kept : kept = [e \in Emails |-> IF d.secrets[e] = Identity!NoSecret THEN secrets[e] ELSE d.secrets[e]]
    OBVIOUS
  <2>7. users' = us /\ roles' = rs /\ invitations' = list /\ secrets' = kept
    <3>1. /\ users' = Identity!UsersUpserted(d) /\ invitations' = list /\ secrets' = kept /\ roles' = rs
      BY <1>3, <2>1, <2>4, <2>5, <2>6 DEF Identity!Persist
    <3> QED BY <2>3, <3>1 DEF Identity!UsersUpserted
  <2>8. /\ us \in [Emails -> UserStatuses] /\ rs \in [Emails -> SUBSET Identity!Roles]
        /\ list \in [Identity!Numbers -> Identity!Invitations] /\ kept \in [Emails -> Secrets]
    <3>1. rs \in [Emails -> SUBSET Identity!Roles]
      BY <2>2, <2>4, DraftTypes, NowTypes
    <3> QED BY <2>2, <2>3, <2>5, <2>6, <3>1, DraftTypes, NowTypes
  <2>9. PICK now : now = [users |-> us, roles |-> rs, invitations |-> list, secrets |-> kept]
    OBVIOUS
  <2>10. now \in Identity!Drafts /\ now.users = us /\ now.invitations = list /\ now.secrets = kept
    BY <2>8, <2>9, DraftOf
  <2>11. Identity!Now' = now
    BY <2>7, <2>9 DEF Identity!Now
  <2>12. ASSUME NEW e \in Emails PROVE users[e] # "none" \/ d.users[e] # "none" => us[e] # "none"
    BY <2>3
  <2>13. ASSUME NEW e \in Emails, Kept(now, e) \/ Accepted(now, e) PROVE us[e] # "none"
    <3>1. Kept(now, e) => Kept(Identity!Now, e) \/ Kept(d, e)
      BY <2>6, <2>10 DEF Kept, Identity!Now
    <3>2. Accepted(now, e) => Accepted(Identity!Now, e) \/ Accepted(d, e)
      BY <2>5, <2>10 DEF Accepted, Identity!Now
    <3>3. Known(Identity!Now)
      BY NowIsBacked DEF IdentityInv
    <3>4. users[e] # "none" \/ d.users[e] # "none"
      BY <2>2, <2>13, <3>1, <3>2, <3>3 DEF Known, Backed
    <3> QED BY <2>12, <3>4
  <2>14. Known(Identity!Now)'
    BY <2>7, <2>11, <2>13 DEF Known, Kept, Accepted
  <2> QED BY <1>1, <2>7, <2>10, <2>11, <2>12, <2>14, TablesMove
<1> QED BY <1>2, <1>3

LEMMA RefreshKeeps ==
  ASSUME IdentityInv, NEW p \in People, Identity!Refresh(p)
  PROVE  IdentityInv'
<1>1. DOMAIN Identity!Now = Tables
  BY DEF Identity!Now, Tables
<1>2. PICK table \in Tables :
        call' = [call EXCEPT ![p] = [at |-> "read", unread |-> Tables \ {table},
                                     rows |-> [Identity!Blank EXCEPT ![table] = Identity!Now[table]]]]
  BY <1>1 DEF Identity!Refresh
<1>3. PICK s \in Identity!Drafts : s = [Identity!Blank EXCEPT ![table] = Identity!Now[table]] /\ Known(s)
  BY BlankIsKnown, ReadIsKnown
<1>4. PICK v \in Reads : v = [at |-> "read", unread |-> Tables \ {table}, rows |-> s]
  BY DEF Reads
<1>5. v \in Requesting /\ v.at = "read" /\ v.rows = s
  BY <1>4 DEF Requesting
<1>6. call' = [call EXCEPT ![p] = v]
  BY <1>2, <1>3, <1>4
<1>7. calls' \in 0 .. MaxCalls
  BY IdentityConstants DEF Identity!Refresh, IdentityInv
<1>8. UNCHANGED <<users, roles, invitations, secrets>>
  BY DEF Identity!Refresh, Identity!tables
<1>9. \A d \in Identity!Drafts : BackedAt(v, d)
  BY <1>3, <1>5 DEF BackedAt
<1> QED BY <1>5, <1>6, <1>7, <1>8, <1>9, IdentityCallMoves

LEMMA QueryKeeps ==
  ASSUME IdentityInv, NEW p \in People, NEW table \in Tables, Identity!Query(p, table)
  PROVE  IdentityInv'
<1>1. PICK old \in Reads : call[p] = old /\ Known(old.rows)
  BY RequestingTypes DEF IdentityInv, RequestsBacked, BackedAt, Identity!Query
<1>2. PICK s \in Identity!Drafts : s = [old.rows EXCEPT ![table] = Identity!Now[table]] /\ Known(s)
  BY <1>1, RequestingTypes, ReadIsKnown
<1>3. PICK v : v = [[old EXCEPT !.rows = s] EXCEPT !.unread = old.unread \ {table}]
  OBVIOUS
<1>4. v \in Reads /\ v.rows = s
  BY <1>3 DEF Reads
<1>5. v \in Requesting /\ v.at = "read"
  BY <1>4, RequestingTypes DEF Requesting
<1>6. call' = [call EXCEPT ![p] = v]
  BY <1>1, <1>2, <1>3 DEF Identity!Query, IdentityInv
<1>7. \A d \in Identity!Drafts : BackedAt(v, d)
  BY <1>2, <1>4, <1>5 DEF BackedAt
<1> QED BY <1>5, <1>6, <1>7, IdentityCallMoves DEF IdentityInv, Identity!Query, Identity!tables

LEMMA RepairKeeps ==
  ASSUME IdentityInv, Identity!Repair
  PROVE  IdentityInv'
<1>1. PICK missing : missing = {e \in Emails : users[e] = "none" /\ Identity!Sent(Identity!Now, e) # {}}
  OBVIOUS
<1>2. PICK us : us = [e \in Emails |-> IF e \in missing THEN "invited" ELSE users[e]]
  OBVIOUS
<1>3. PICK rs : rs = [e \in Emails |->
        IF e \in missing THEN {invitations[Identity!Newest(Identity!Sent(Identity!Now, e))].role} ELSE roles[e]]
  OBVIOUS
<1>4. users' = us /\ roles' = rs /\ UNCHANGED <<invitations, secrets, call, calls>>
  BY <1>1, <1>2, <1>3 DEF Identity!Repair
<1>5. us \in [Emails -> UserStatuses]
  BY <1>2, NowTypes DEF UserStatuses
<1>6. rs \in [Emails -> SUBSET Identity!Roles]
  <2>1. ASSUME NEW e \in missing
        PROVE  invitations[Identity!Newest(Identity!Sent(Identity!Now, e))].role \in Identity!Roles
    <3>1. e \in Emails /\ Identity!Sent(Identity!Now, e) # {} /\ Identity!Now \in Identity!Drafts
      BY <1>1 DEF IdentityInv
    <3>2. Identity!Now.invitations = invitations
      BY DEF Identity!Now
    <3> QED BY <3>1, <3>2, NewestIsSent
  <2> QED BY <1>3, <2>1, NowTypes
<1>7. PICK now : now = [users |-> us, roles |-> rs, invitations |-> invitations, secrets |-> secrets]
  OBVIOUS
<1>8. now \in Identity!Drafts /\ now.users = us /\ now.invitations = invitations /\ now.secrets = secrets
  BY <1>5, <1>6, <1>7, NowTypes, DraftOf
<1>9. Identity!Now' = now
  BY <1>4, <1>7 DEF Identity!Now
<1>10. \A e \in Emails : users[e] # "none" => us[e] # "none"
  BY <1>2
<1>11. Known(Identity!Now)'
  <2>1. Known(Identity!Now)
    BY NowIsBacked DEF IdentityInv
  <2>2. \A e \in Emails : (Kept(now, e) => Kept(Identity!Now, e)) /\ (Accepted(now, e) => Accepted(Identity!Now, e))
    BY <1>8 DEF Kept, Accepted, Identity!Now
  <2> QED BY <1>4, <1>9, <1>10, <2>1, <2>2 DEF Known, Kept, Accepted
<1> QED BY <1>4, <1>8, <1>9, <1>10, <1>11, TablesMove

LEMMA IdentityInit ==
  ASSUME Identity!Init
  PROVE  IdentityInv
<1>1. /\ users = [e \in Emails |-> IF e = Admin THEN "active" ELSE "none"]
      /\ roles = [e \in Emails |-> IF e = Admin THEN {"platform_admin"} ELSE {}]
      /\ invitations = [n \in Identity!Numbers |-> Identity!NoInvitation]
      /\ secrets = [e \in Emails |-> [Identity!NoSecret EXCEPT !.password = (e = Admin)]]
      /\ call = [p \in People |-> Identity!Idle] /\ calls = 0
  BY DEF Identity!Init
<1>2. "platform_admin" \in Identity!Roles
  <2>1. Identity!Roles = (UNION RoleLists) \cup {"platform_admin", "super_admin"}
    BY DEF Identity!Roles
  <2> QED BY <2>1
<1>3. ASSUME NEW e \in Emails
      PROVE  secrets[e] \in Secrets /\ (secrets[e].password => e = Admin)
  <2>1. PICK is \in BOOLEAN : is = (e = Admin)
    OBVIOUS
  <2>2. secrets[e] = [Identity!NoSecret EXCEPT !.password = is]
    BY <1>1, <2>1
  <2>3. secrets[e] = [token |-> FALSE, password |-> is]
    BY <2>2 DEF Identity!NoSecret
  <2>4. secrets[e] \in Secrets /\ secrets[e].password = is
    BY <2>3 DEF Secrets
  <2> QED BY <2>1, <2>4
<1>4. secrets \in [Emails -> Secrets]
  BY <1>1, <1>3
<1>5. users \in [Emails -> UserStatuses] /\ roles \in [Emails -> SUBSET Identity!Roles]
  BY <1>1, <1>2 DEF UserStatuses
<1>6. invitations \in [Identity!Numbers -> Identity!Invitations] /\ \A n \in Identity!Numbers : invitations[n].email = "none"
  BY <1>1 DEF Identity!Invitations, Identity!NoInvitation
<1>7. Identity!Now \in Identity!Drafts
  BY <1>4, <1>5, <1>6, DraftOf DEF Identity!Now
<1>8. Identity!AcceptedHasUser
  BY <1>1, <1>3, <1>6, IdentityConstants DEF Identity!AcceptedHasUser, Identity!Of, Identity!Now
<1>9. call \in [People -> Requesting] /\ \A p \in People : call[p].at = "idle"
  BY <1>1, RequestingTypes DEF Requesting
<1>10. calls \in 0 .. MaxCalls
  BY <1>1, IdentityConstants
<1> QED BY <1>7, <1>8, <1>9, <1>10 DEF IdentityInv, RequestsBacked, BackedAt

LEMMA IdentityKeeps ==
  ASSUME IdentityInv, [Identity!Next]_identityVars
  PROVE  IdentityInv'
<1>1. CASE UNCHANGED identityVars
  <2>1. UNCHANGED <<users, roles, invitations, secrets, call, calls>>
    BY <1>1 DEF identityVars
  <2>2. Identity!Now' = Identity!Now /\ (Known(Identity!Now) => Known(Identity!Now)')
    BY <2>1 DEF Identity!Now, Known, Kept, Accepted
  <2> QED BY <2>1, <2>2, TablesMove, NowIsBacked DEF IdentityInv
<1>2. ASSUME NEW p \in People, Identity!Refresh(p) PROVE IdentityInv'
  BY <1>2, RefreshKeeps
<1>3. ASSUME NEW p \in People, NEW table \in DOMAIN Identity!Now, Identity!Query(p, table) PROVE IdentityInv'
  <2>1. DOMAIN Identity!Now = Tables
    BY DEF Identity!Now, Tables
  <2> QED BY <1>3, <2>1, QueryKeeps
<1>4. ASSUME NEW p \in People, Identity!Handling(p), NEW e \in Emails, Identity!Handle(p, call[p].rows, e)
      PROVE  IdentityInv'
  <2>1. PICK s \in Identity!Drafts : s = call[p].rows /\ Known(s)
    BY <1>4, RequestingTypes DEF IdentityInv, RequestsBacked, BackedAt, Identity!Handling
  <2> QED BY <1>4, <2>1, HandleKeeps
<1>5. ASSUME NEW p \in People, Identity!Persist(p) PROVE IdentityInv'
  BY <1>5, PersistKeeps
<1>6. ASSUME NEW p \in People, Identity!Abort(p) PROVE IdentityInv'
  <2>1. Identity!Idle \in Requesting
    BY DEF Requesting
  <2> QED BY <1>6, <2>1, IdentityCallMoves, RequestingTypes DEF Identity!Abort, Identity!tables, BackedAt, IdentityInv
<1>7. CASE Identity!Repair
  BY <1>7, RepairKeeps
<1> QED BY <1>1, <1>2, <1>3, <1>4, <1>5, <1>6, <1>7 DEF Identity!Next

LEMMA IdentityTypes ==
  IdentityInv => Identity!TypeOK
<1>1. ASSUME IdentityInv, NEW p \in People PROVE call[p].at \in {"idle", "read", "persist"}
  BY <1>1, RequestingTypes DEF IdentityInv, Requesting
<1> QED BY <1>1 DEF IdentityInv, Identity!TypeOK

-----------------------------------------------------------------------------
(* LinkedInstruments *)

InstrumentRows ==
  [account : Ledgers \cup {Linking!Unassigned}, status : {"draft", "active", "restricted"}, default : BOOLEAN, typed : BOOLEAN]
Patches ==
  [at : {"clear", "update"}, on : Instruments, status : {"same", "active", "restricted"},
   default : BOOLEAN, holds : SUBSET Instruments]

\* Two rows that count are of different accounts.
DefaultsDiffer ==
  \A i, j \in Instruments :
    i # j /\ Linking!Counted(instrument[i]) /\ Linking!Counted(instrument[j]) => instrument[i].account # instrument[j].account

\* What a patch has locked exists.
PatchesExist == \A e \in Editors : edit[e] # Linking!Idle => \A i \in edit[e].holds \cup {edit[e].on} : Linking!Exists(i)

LinkingInv == Linking!TypeOK /\ DefaultsDiffer /\ PatchesExist

LEMMA LinkingTypes ==
  ASSUME LinkingInv
  PROVE  /\ railColumns \in BOOLEAN
         /\ instrument \in [Instruments -> {Linking!NoInstrument} \cup InstrumentRows]
         /\ edit \in [Editors -> {Linking!Idle} \cup Patches]
BY DEF LinkingInv, Linking!TypeOK, InstrumentRows, Patches

LEMMA RowsExist ==
  /\ \A stored \in InstrumentRows : stored # Linking!NoInstrument
  /\ Linking!Idle.at = "idle"
BY DEF InstrumentRows, Linking!NoInstrument, Linking!Idle

LEMMA LinkingInit == Linking!Init => LinkingInv
BY DEF Linking!Init, LinkingInv, Linking!TypeOK, DefaultsDiffer, PatchesExist, Linking!Counted

\* One row is inserted or updated, as the index allows.
LEMMA StoredKeeps ==
  ASSUME LinkingInv, NEW i \in Instruments, NEW stored \in InstrumentRows, Linking!Unique(i, stored), Linking!Stored(i, stored),
         UNCHANGED <<railColumns, edit>>
  PROVE  LinkingInv'
<1>1. instrument' = [instrument EXCEPT ![i] = stored]
  BY DEF Linking!Stored
<1>2. Linking!TypeOK'
  BY <1>1, LinkingTypes DEF Linking!TypeOK, InstrumentRows, Patches
<1>3. instrument'[i] = stored /\ \A j \in Instruments \ {i} : instrument'[j] = instrument[j]
  BY <1>1, LinkingTypes
<1>4. DefaultsDiffer'
  <2> SUFFICES ASSUME NEW j \in Instruments, NEW k \in Instruments, j # k,
                      Linking!Counted(instrument'[j]), Linking!Counted(instrument'[k]), instrument'[j].account = instrument'[k].account
               PROVE  FALSE
    BY DEF DefaultsDiffer
  <2>1. CASE j = i
    BY <1>3, <2>1 DEF Linking!Unique
  <2>2. CASE k = i
    BY <1>3, <2>2 DEF Linking!Unique
  <2>3. CASE j # i /\ k # i
    BY <1>3, <2>3 DEF LinkingInv, DefaultsDiffer
  <2> QED BY <2>1, <2>2, <2>3
<1>5. PatchesExist'
  <2>1. \A j \in Instruments : Linking!Exists(j) => instrument'[j] # Linking!NoInstrument
    BY <1>3, RowsExist DEF Linking!Exists
  <2>2. \A e \in Editors : edit[e] # Linking!Idle => edit[e].holds \cup {edit[e].on} \subseteq Instruments
    BY LinkingTypes DEF Patches
  <2> QED BY <2>1, <2>2 DEF LinkingInv, PatchesExist, Linking!Exists
<1> QED BY <1>2, <1>4, <1>5 DEF LinkingInv

LEMMA EditMoves ==
  ASSUME LinkingInv, NEW e \in Editors, NEW v \in {Linking!Idle} \cup Patches, edit' = [edit EXCEPT ![e] = v],
         v # Linking!Idle => \A i \in v.holds \cup {v.on} : Linking!Exists(i), UNCHANGED <<railColumns, instrument>>
  PROVE  LinkingInv'
<1>1. Linking!TypeOK'
  BY LinkingTypes DEF Linking!TypeOK, InstrumentRows, Patches
<1>2. PatchesExist'
  BY LinkingTypes DEF LinkingInv, PatchesExist, Linking!Exists
<1>3. DefaultsDiffer'
  BY DEF LinkingInv, DefaultsDiffer
<1> QED BY <1>1, <1>2, <1>3 DEF LinkingInv

\* A patch makes its instrument the default after the defaults it has locked are
\* gone; the index has the last word on its own row, and the others lose at most
\* their default.
LEMMA CommitPatchKeeps ==
  ASSUME LinkingInv, NEW e \in Editors, Linking!Commit(e) PROVE LinkingInv'
<1>1. PICK patch \in Patches : edit[e] = patch
  BY LinkingTypes, RowsExist DEF Linking!Commit
<1>2. PICK i \in Instruments : i = patch.on
  BY DEF Patches
<1>3. PICK old \in InstrumentRows : instrument[i] = old
  BY <1>1, <1>2, LinkingTypes, RowsExist DEF LinkingInv, PatchesExist, Linking!Exists, Patches, Linking!Idle
<1>4. PICK stored : stored = [old EXCEPT !.status = IF patch.status = "same" THEN old.status ELSE patch.status,
                                   !.default = old.default \/ patch.default]
  OBVIOUS
<1>5. stored \in InstrumentRows
  <2>1. PICK default \in BOOLEAN : default = (old.default \/ patch.default)
    OBVIOUS
  <2>2. stored = [old EXCEPT !.status = IF patch.status = "same" THEN old.status ELSE patch.status, !.default = default]
    BY <1>4, <2>1
  <2> QED BY <2>2 DEF InstrumentRows, Patches
<1>6. PICK after : after = Linking!Patched(e)
  OBVIOUS
<1>7. after[i] = stored
  BY <1>1, <1>2, <1>3, <1>4, <1>6, LinkingTypes DEF Linking!Patched, Linking!PatchedAlone, InstrumentRows
<1>8. ASSUME NEW j \in Instruments \ {i}
      PROVE  /\ after[j] \in {Linking!NoInstrument} \cup InstrumentRows
             /\ Linking!Exists(j) => after[j] # Linking!NoInstrument
             /\ Linking!Counted(after[j]) => Linking!Counted(instrument[j]) /\ after[j].account = instrument[j].account
  <2>1. CASE patch.default /\ j \in patch.holds
    <3>1. PICK other \in InstrumentRows : instrument[j] = other
      BY <1>1, <2>1, LinkingTypes, RowsExist DEF LinkingInv, PatchesExist, Linking!Exists, Patches, Linking!Idle
    <3>2. after[j] = [other EXCEPT !.default = FALSE]
      BY <1>1, <1>2, <1>6, <2>1, <3>1 DEF Linking!Patched
    <3>3. after[j] \in InstrumentRows /\ after[j].default = FALSE
      BY <3>2 DEF InstrumentRows
    <3> QED BY <3>3, RowsExist DEF Linking!Counted
  <2>2. CASE ~(patch.default /\ j \in patch.holds)
    <3>1. after[j] = instrument[j]
      BY <1>1, <1>2, <1>6, <2>2 DEF Linking!Patched
    <3> QED BY <3>1, LinkingTypes DEF Linking!Exists
  <2> QED BY <2>1, <2>2
<1>9. instrument' = after /\ edit' = [edit EXCEPT ![e] = Linking!Idle] /\ railColumns' = railColumns
  BY <1>6 DEF Linking!Commit
<1>10. instrument' \in [Instruments -> {Linking!NoInstrument} \cup InstrumentRows]
  <2>1. after = [j \in Instruments |-> after[j]]
    BY <1>6 DEF Linking!Patched
  <2> QED BY <1>5, <1>7, <1>8, <1>9, <2>1
<1>11. Linking!TypeOK'
  BY <1>9, <1>10, LinkingTypes DEF Linking!TypeOK, InstrumentRows, Patches
<1>12. ASSUME NEW j \in Instruments \ {i}
       PROVE  ~(Linking!Counted(after[i]) /\ Linking!Counted(after[j]) /\ after[j].account = after[i].account)
  BY <1>1, <1>2, <1>6 DEF Linking!Commit, Linking!UniqueAfter
<1>13. DefaultsDiffer'
  <2> SUFFICES ASSUME NEW j \in Instruments, NEW k \in Instruments, j # k,
                      Linking!Counted(after[j]), Linking!Counted(after[k]), after[j].account = after[k].account
               PROVE  FALSE
    BY <1>9 DEF DefaultsDiffer
  <2>1. CASE j = i
    BY <1>12, <2>1
  <2>2. CASE k = i
    BY <1>12, <2>2
  <2>3. CASE j # i /\ k # i
    BY <1>8, <2>3 DEF LinkingInv, DefaultsDiffer
  <2> QED BY <2>1, <2>2, <2>3
<1>14. PatchesExist'
  <2>1. \A j \in Instruments : Linking!Exists(j) => after[j] # Linking!NoInstrument
    BY <1>5, <1>7, <1>8, RowsExist
  <2>2. \A f \in Editors : edit'[f] # Linking!Idle => edit'[f] = edit[f] /\ edit[f] \in Patches
    BY <1>9, LinkingTypes
  <2> QED BY <1>9, <2>1, <2>2 DEF LinkingInv, PatchesExist, Linking!Exists, Patches
<1> QED BY <1>11, <1>13, <1>14 DEF LinkingInv

LEMMA LinkingKeeps ==
  ASSUME LinkingInv, [Linking!Next]_linkingVars PROVE LinkingInv'
<1>1. CASE UNCHANGED linkingVars
  BY <1>1 DEF linkingVars, LinkingInv, Linking!TypeOK, DefaultsDiffer, PatchesExist, Linking!Exists
<1>2. ASSUME NEW i \in Instruments, NEW a \in Ledgers, NEW status \in {"draft", "active", "restricted"},
             NEW default \in BOOLEAN, NEW typed \in BOOLEAN,
             Linking!CreateLinkedInstrument(i, a, status, default, typed)
      PROVE  LinkingInv'
  <2>1. PICK stored \in InstrumentRows : stored = [account |-> a, status |-> status, default |-> default, typed |-> typed]
    BY DEF InstrumentRows
  <2> QED BY <1>2, <2>1, StoredKeeps DEF Linking!CreateLinkedInstrument
<1>3. ASSUME NEW i \in Instruments, NEW a \in Ledgers \cup {Linking!Unassigned},
             NEW status \in {"draft", "active", "restricted"}, NEW default \in BOOLEAN,
             Linking!CreateMine(i, a, status, default)
      PROVE  LinkingInv'
  <2>1. PICK stored \in InstrumentRows :
          stored = IF railColumns THEN [account |-> a, status |-> status, default |-> default, typed |-> TRUE]
                ELSE [account |-> a, status |-> status, default |-> FALSE, typed |-> FALSE]
    <3>1. CASE railColumns
      BY <3>1 DEF InstrumentRows
    <3>2. CASE ~railColumns
      <4>1. FALSE \in BOOLEAN
        OBVIOUS
      <4> QED BY <3>2, <4>1 DEF InstrumentRows
    <3> QED BY <3>1, <3>2
  <2> QED BY <1>3, <2>1, StoredKeeps DEF Linking!CreateMine
<1>4. ASSUME NEW i \in Instruments, NEW status \in {"draft", "active", "restricted"}, NEW default \in BOOLEAN,
             Linking!UpdateMine(i, status, default)
      PROVE  LinkingInv'
  <2>1. instrument[i] \in InstrumentRows
    BY <1>4, LinkingTypes DEF Linking!UpdateMine, Linking!Exists
  <2>2. PICK stored \in InstrumentRows : stored = [instrument[i] EXCEPT !.status = status, !.default = default]
    BY <2>1 DEF InstrumentRows
  <2> QED BY <1>4, <2>2, StoredKeeps DEF Linking!UpdateMine
<1>5. ASSUME NEW i \in Instruments, Linking!Verify(i) PROVE LinkingInv'
  <2>1. instrument[i] \in InstrumentRows
    BY <1>5, LinkingTypes DEF Linking!Verify, Linking!Exists
  <2>2. PICK stored \in InstrumentRows : stored = [instrument[i] EXCEPT !.status = "active"]
    BY <2>1 DEF InstrumentRows
  <2> QED BY <1>5, <2>2, StoredKeeps DEF Linking!Verify
<1>6. ASSUME NEW i \in Instruments, Linking!Disable(i) PROVE LinkingInv'
  <2>1. instrument[i] \in InstrumentRows
    BY <1>6, LinkingTypes DEF Linking!Disable, Linking!Exists
  <2>2. PICK stored \in InstrumentRows : stored = [instrument[i] EXCEPT !.status = "restricted", !.default = FALSE]
    BY <2>1 DEF InstrumentRows
  <2>3. stored.default = FALSE
    BY <2>1, <2>2 DEF InstrumentRows
  <2>4. Linking!Unique(i, stored)
    BY <2>3 DEF Linking!Unique, Linking!Counted
  <2> QED BY <1>6, <2>2, <2>4, StoredKeeps DEF Linking!Disable
<1>7. ASSUME NEW i \in Instruments, NEW a \in Ledgers, Linking!AssignMine(i, a) PROVE LinkingInv'
  <2>1. instrument[i] \in InstrumentRows
    BY <1>7, LinkingTypes DEF Linking!AssignMine, Linking!Exists
  <2>2. PICK stored \in InstrumentRows :
          stored = [instrument[i] EXCEPT !.account = a, !.status = IF instrument[i].status = "draft" THEN "active" ELSE instrument[i].status]
    BY <2>1 DEF InstrumentRows
  <2> QED BY <1>7, <2>2, StoredKeeps DEF Linking!AssignMine
<1>8. ASSUME NEW e \in Editors, NEW i \in Instruments, NEW status \in {"same", "active", "restricted"},
             NEW setDefault \in BOOLEAN, Linking!Patch(e, i, status, setDefault)
      PROVE  LinkingInv'
  <2>1. PICK v \in Patches :
          v = [at |-> IF setDefault THEN "clear" ELSE "update", on |-> i, status |-> status,
               default |-> setDefault, holds |-> {i}]
    BY DEF Patches
  <2>2. \A j \in v.holds \cup {v.on} : Linking!Exists(j)
    BY <1>8, <2>1 DEF Linking!Patch
  <2> QED BY <1>8, <2>1, <2>2, EditMoves DEF Linking!Patch
<1>9. ASSUME NEW e \in Editors, NEW j \in Instruments, Linking!LockOther(e, j) PROVE LinkingInv'
  <2>1. edit[e] \in Patches /\ Linking!Exists(j)
    BY <1>9, LinkingTypes, RowsExist DEF Linking!LockOther, Linking!Others
  <2>2. PICK v \in Patches : v = [edit[e] EXCEPT !.holds = edit[e].holds \cup {j}]
    BY <2>1 DEF Patches
  <2>3. v.holds = edit[e].holds \cup {j} /\ v.on = edit[e].on
    BY <2>1, <2>2 DEF Patches
  <2>4. edit[e] # Linking!Idle
    BY <1>9, RowsExist DEF Linking!LockOther
  <2>5. \A i \in v.holds \cup {v.on} : Linking!Exists(i)
    BY <2>1, <2>3, <2>4 DEF LinkingInv, PatchesExist
  <2>6. edit' = [edit EXCEPT ![e] = v]
    BY <1>9, <2>2, LinkingTypes DEF Linking!LockOther
  <2> QED BY <1>9, <2>2, <2>5, <2>6, EditMoves DEF Linking!LockOther
<1>10. ASSUME NEW e \in Editors, Linking!Cleared(e) PROVE LinkingInv'
  <2>1. edit[e] \in Patches /\ edit[e] # Linking!Idle
    BY <1>10, LinkingTypes, RowsExist DEF Linking!Cleared
  <2>2. PICK v \in Patches : v = [edit[e] EXCEPT !.at = "update"]
    BY <2>1 DEF Patches
  <2>3. v.holds = edit[e].holds /\ v.on = edit[e].on
    BY <2>1, <2>2 DEF Patches
  <2>4. \A i \in v.holds \cup {v.on} : Linking!Exists(i)
    BY <2>1, <2>3 DEF LinkingInv, PatchesExist
  <2>5. edit' = [edit EXCEPT ![e] = v]
    BY <1>10, <2>2, LinkingTypes DEF Linking!Cleared
  <2> QED BY <1>10, <2>2, <2>4, <2>5, EditMoves DEF Linking!Cleared
<1>11. ASSUME NEW e \in Editors, Linking!Commit(e) PROVE LinkingInv'
  BY <1>11, CommitPatchKeeps
<1>12. ASSUME NEW e \in Editors, Linking!RollBack(e) PROVE LinkingInv'
  BY <1>12, EditMoves DEF Linking!RollBack
<1> QED BY <1>1, <1>2, <1>3, <1>4, <1>5, <1>6, <1>7, <1>8, <1>9, <1>10, <1>11, <1>12 DEF Linking!Next

\* A set of which any two elements are equal has at most one.
LEMMA AtMostOne ==
  ASSUME NEW S, \A x, y \in S : x = y PROVE IsFiniteSet(S) /\ Cardinality(S) <= 1
<1>1. CASE S = {}
  BY <1>1, FS_EmptySet
<1>2. CASE S # {}
  <2>1. PICK x : S = {x}
    BY <1>2
  <2>2. IsFiniteSet({x}) /\ Cardinality({x}) = 1
    BY FS_Singleton
  <2> QED BY <2>1, <2>2
<1> QED BY <1>1, <1>2

LEMMA LinkingCardinality ==
  ASSUME NEW S PROVE Linking!Cardinality(S) = Cardinality(S)
BY DEF Linking!Cardinality, Cardinality

LEMMA DefaultsOfAccounts ==
  ASSUME LinkingInv PROVE Linking!OneDefault
<1> SUFFICES ASSUME NEW a \in Ledgers
             PROVE  Linking!Cardinality({i \in Instruments : Linking!Counted(instrument[i]) /\ instrument[i].account = a}) <= 1
  BY DEF Linking!OneDefault
<1>1. PICK counted : counted = {i \in Instruments : Linking!Counted(instrument[i]) /\ instrument[i].account = a}
  OBVIOUS
<1>2. \A i, j \in counted : i = j
  BY <1>1 DEF LinkingInv, DefaultsDiffer
<1>3. Cardinality(counted) <= 1
  BY <1>2, AtMostOne
<1> QED BY <1>1, <1>3, LinkingCardinality

-----------------------------------------------------------------------------
(* The components side by side *)

\* A run of one component is a run of each, in which the others stand still.
LEMMA PartsOfInit ==
  Init => /\ Lifecycle!Init /\ Outflows!Init /\ Routes!Init /\ Provisioning!Init /\ Activation!Init
          /\ Gateway!Init /\ Runtime!Init /\ Webhooks!Init /\ Journals!Init /\ Simulator!Init
          /\ Identity!Init /\ Linking!Init
BY DEF Init

PartsNext ==
  /\ [Lifecycle!Next]_lifecycleVars /\ [Outflows!Next]_outflowVars
  /\ [Routes!Next]_routingVars /\ [Provisioning!Next]_provisioningVars
  /\ [Activation!Next]_activationVars /\ [Gateway!Next]_gatewayVars
  /\ [Runtime!Next]_runtimeVars /\ [Webhooks!Next]_webhookVars
  /\ [Journals!Next]_journalVars /\ [Simulator!Next]_simulatorVars
  /\ [Identity!Next]_identityVars /\ [Linking!Next]_linkingVars

LEMMA PartsOfNext == [Next]_vars => PartsNext
<1> SUFFICES ASSUME [Next]_vars
             PROVE
               /\ [Lifecycle!Next]_lifecycleVars /\ [Outflows!Next]_outflowVars
               /\ [Routes!Next]_routingVars /\ [Provisioning!Next]_provisioningVars
               /\ [Activation!Next]_activationVars /\ [Gateway!Next]_gatewayVars
               /\ [Runtime!Next]_runtimeVars /\ [Webhooks!Next]_webhookVars
               /\ [Journals!Next]_journalVars /\ [Simulator!Next]_simulatorVars
               /\ [Identity!Next]_identityVars /\ [Linking!Next]_linkingVars
  BY DEF PartsNext
<1>1. CASE UNCHANGED vars
  BY <1>1 DEF vars
<1>2. CASE LifecycleStep
  BY <1>2 DEF LifecycleStep
<1>3. CASE OutflowStep
  BY <1>3 DEF OutflowStep
<1>4. CASE RoutingStep
  BY <1>4 DEF RoutingStep
<1>5. CASE ProvisioningStep
  BY <1>5 DEF ProvisioningStep
<1>6. CASE ActivationStep
  BY <1>6 DEF ActivationStep
<1>7. CASE GatewayStep
  BY <1>7 DEF GatewayStep
<1>8. CASE RuntimeStep
  BY <1>8 DEF RuntimeStep
<1>9. CASE WebhookStep
  BY <1>9 DEF WebhookStep
<1>10. CASE JournalStep
  BY <1>10 DEF JournalStep
<1>11. CASE SimulatorStep
  BY <1>11 DEF SimulatorStep
<1>12. CASE IdentityStep
  BY <1>12 DEF IdentityStep
<1>13. CASE LinkingStep
  BY <1>13 DEF LinkingStep
<1> QED BY <1>1, <1>2, <1>3, <1>4, <1>5, <1>6, <1>7, <1>8, <1>9, <1>10, <1>11, <1>12, <1>13 DEF Next

LEMMA RoutingCardinality ==
  ASSUME NEW S PROVE Routes!Cardinality(S) = Cardinality(S)
BY DEF Routes!Cardinality, Cardinality

\* A second leg goes to one instrument.
LEMMA SecondLegIsOne ==
  ASSUME NEW b, NEW links \in SUBSET Routes!Links
  PROVE  \A x, y \in SecondLeg(b, links) : x = y
BY DEF SecondLeg, Routes!ResolvedSecondLeg, Routes!Links

\* A decision that sends a second leg sends it to one linked instrument.
LEMMA LegsOfDecisions ==
  ASSUME RoutingInv PROVE Routes!TypeOK /\ Routes!SecondLegIsLinked
<1>1. Routes!TypeOK
  BY DEF RoutingInv, Routes!TypeOK, Routes!NoInstruction
<1>2. ASSUME decision # Routes!NoDecision PROVE Cardinality(decision.legs) <= 1
  <2>1. PICK b : decision = [override |-> decision.override, links |-> decision.links,
                             route |-> b.route, legs |-> SecondLeg(b, decision.links)]
    BY <1>2 DEF RoutingInv, DecidedByRule
  <2>2. PICK legs : legs = SecondLeg(b, decision.links)
    OBVIOUS
  <2>3. decision.legs = legs
    BY <2>1, <2>2
  <2>4. \A x, y \in legs : x = y
    BY <2>2, SecondLegIsOne DEF RoutingInv
  <2> QED BY <2>3, <2>4, AtMostOne
<1>3. Routes!SecondLegIsLinked
  BY <1>2, RoutingCardinality DEF Routes!SecondLegIsLinked, RoutingInv, DecidedByRule
<1> QED BY <1>1, <1>3

\* What the proofs below rest on, for any number of commands, transactions,
\* accounts, redemptions and bindings: a command that has locked an account is
\* alone with it and knows its status (transitionAccount), a transaction that has
\* locked a row of the treasury's is alone with it and knows what it holds
\* (transitionSettlementAdvance, transitionTenantDisbursement,
\* transitionFiatRedemption), a decision is what the rule of route selection
\* leads to (routePaymentInstruction), one command at a time provisions the
\* accounts of a client and knows its wallet set (provisionCircleAccountService),
\* one activation at a time is past its upsert and what it has found still holds
\* (activateTenantService), what a call under way has made at the provider has
\* the key the call sends (http-transport.ts), a handler works on a copy without
\* a record of its command (state-transaction.ts), an event in transit is not on
\* record and is with one delivery (circle-webhook-service.ts), sources of entries
\* about to be committed are new (migration 0001), every copy of the runtime
\* state tells of itself what it should (router.ts, workers/), what a request of
\* the internal users' has read, or is about to write, accepts and keeps passwords
\* of users only (internal-identity-store.ts), and the partial index counts what
\* the default instruments are (self-registration.ts).
ServerInv ==
  /\ LifecycleInv /\ OutflowsInv /\ RoutingInv
  /\ ProvisioningInv /\ ActivationInv /\ GatewayInv
  /\ RuntimeInv /\ WebhooksInv /\ JournalsInv /\ SimulatorInv
  /\ IdentityInv /\ LinkingInv

THEOREM ServerInvariant == Spec => []ServerInv
<1>1. Init => ServerInv
  BY PartsOfInit, LifecycleInit, OutflowsInit, RoutingInit, ProvisioningInit, ActivationInit, GatewayInit,
     RuntimeInit, WebhooksInit, JournalsInit, SimulatorInit, IdentityInit, LinkingInit DEF ServerInv
<1>2. ServerInv /\ [Next]_vars => ServerInv'
  <2> SUFFICES ASSUME ServerInv, PartsNext PROVE ServerInv'
    BY PartsOfNext
  <2>1. LifecycleInv' /\ OutflowsInv' /\ RoutingInv'
    BY LifecycleKeeps, OutflowsKeep, RoutingKeeps DEF ServerInv, PartsNext
  <2>2. ProvisioningInv' /\ ActivationInv' /\ GatewayInv'
    BY ProvisioningKeeps, ActivationKeeps, GatewayKeeps DEF ServerInv, PartsNext
  <2>3. RuntimeInv' /\ WebhooksInv'
    BY RuntimeKeeps, WebhooksKeep DEF ServerInv, PartsNext
  <2>4. JournalsInv' /\ SimulatorInv'
    BY JournalsKeep, SimulatorKeeps DEF ServerInv, PartsNext
  <2>5. IdentityInv' /\ LinkingInv'
    BY IdentityKeeps, LinkingKeeps DEF ServerInv, PartsNext
  <2> QED BY <2>1, <2>2, <2>3, <2>4, <2>5 DEF ServerInv
<1> QED BY <1>1, <1>2, PTL DEF Spec

\* Whatever overlaps, fails, restarts or is repeated: a command has its effect just
\* when it is on record, a webhook event has all of its effects or a dead letter
\* and none, a source event is posted once, and in every copy of the runtime state
\* funds, events and the outcome of payments agree with what is on record there.
THEOREM EffectsAreOnRecordAlways == Spec => []EffectsAreOnRecord
<1>1. ServerInv => EffectsAreOnRecord
  BY EffectsOfCommands, EventsAreApplied, EntriesArePostedOnce, CopiesAreOnRecord DEF ServerInv, EffectsAreOnRecord
<1> QED BY <1>1, ServerInvariant, PTL

LEMMA TypesOfParts ==
  ASSUME ServerInv PROVE Types
<1>1. Runtime!TypeOK /\ Webhooks!TypeOK /\ Journals!TypeOK /\ Simulator!TypeOK
  BY EffectsOfCommands, EventsAreApplied, EntriesArePostedOnce, CopiesAreOnRecord DEF ServerInv
<1>2. Provisioning!TypeOK /\ Activation!TypeOK /\ Lifecycle!TypeOK /\ Outflows!TypeOK /\ Gateway!TypeOK
  BY DEF ServerInv, ProvisioningInv, ActivationInv, LifecycleInv, OutflowsInv, GatewayInv
<1>3. Routes!TypeOK
  BY LegsOfDecisions DEF ServerInv
<1>4. Identity!TypeOK /\ Linking!TypeOK
  BY IdentityTypes DEF ServerInv, LinkingInv
<1> QED BY <1>1, <1>2, <1>3, <1>4 DEF Types

\* Through torn and stale reads, requests that overlap and updates behind each
\* other's back: an accepted invitation and a password have their user, an account
\* one default instrument, the events of a withdrawal name it, and a second leg
\* goes to an instrument that is linked; and every row keeps its type.
THEOREM RowsAgreeAlways == Spec => []RowsAgree
<1>1. ServerInv => Outflows!EventsNameTheWithdrawal
  BY DEF ServerInv, OutflowsInv, EventsAgree
<1>2. ServerInv => Routes!SecondLegIsLinked
  BY LegsOfDecisions DEF ServerInv
<1>3. ServerInv => Linking!OneDefault
  BY DefaultsOfAccounts DEF ServerInv
<1>4. ServerInv => Identity!AcceptedHasUser
  BY DEF ServerInv, IdentityInv
<1>5. ServerInv => RowsAgree
  BY <1>1, <1>2, <1>3, <1>4, TypesOfParts DEF RowsAgree
<1> QED BY <1>5, ServerInvariant, PTL

\* Whatever calls, commands and activations overlap and whatever fails, what the
\* provider has made is on record where it belongs, and is made once.
THEOREM ProvisionedOnceAlways == Spec => []ProvisionedOnce
<1>1. ServerInv => ProvisionedOnce
  BY WalletsAreShared, TreasuryIsOne, ObjectsOfGateway DEF ServerInv, ProvisionedOnce
<1> QED BY <1>1, ServerInvariant, PTL

\* The record of an account's transitions tells what happened, along legal
\* edges, and activation is for an approved client only, whatever commands and
\* updates overlap.
THEOREM AccountsFollowTheirLifecycleAlways == Spec => AccountsFollowTheirLifecycle
<1>1. ServerInv /\ [Next]_vars =>
        [transition' # transition =>
           /\ transition'.to \in Lifecycle!accountTransitions[transition'.from]
           /\ transition'.from = (IF transition'.action = "create" THEN "draft" ELSE account)
           /\ transition'.to = account']_(Lifecycle!vars)
  BY PartsOfNext, LifecycleStepsRecord DEF ServerInv, PartsNext
<1>2. ServerInv /\ [Next]_vars =>
        [transition' # transition /\ transition'.action = "activate" => client' = "approved"]_(Lifecycle!vars)
  BY PartsOfNext, LifecycleStepsRecord DEF ServerInv, PartsNext
<1> QED BY <1>1, <1>2, ServerInvariant, PTL
        DEF Spec, AccountsFollowTheirLifecycle, Lifecycle!RecordedAsTheyHappen, Lifecycle!ActivatedForApprovedClient

\* Transitions of advances and disbursements that overlap undo nothing, and an
\* instruction that is routed again with the same links keeps its route and legs.
THEOREM NothingIsUndoneAlways == Spec => NothingIsUndone
<1>1. ServerInv /\ [Next]_vars =>
        /\ \A d \in Disbursements : disbursement[d].status = "submitted" => disbursement'[d].status = "submitted"
        /\ \A a \in Advances : advance[a].status = "cancelled" => advance'[a] = advance[a]
  BY PartsOfNext, OutflowStepsUndoNothing DEF ServerInv, PartsNext
<1>2. ServerInv /\ [Next]_vars =>
        (decision # Routes!NoDecision /\ decision'.override = decision.override /\ decision'.links = decision.links
           => decision' = decision)
  BY PartsOfNext, RoutingRepeats DEF ServerInv, PartsNext
<1>3. ServerInv /\ [Next]_vars =>
        [/\ \A d \in Disbursements : disbursement[d].status = "submitted" => disbursement'[d].status = "submitted"
         /\ \A a \in Advances : advance[a].status = "cancelled" => advance'[a] = advance[a]]_(Outflows!vars)
  BY <1>1
<1>4. ServerInv /\ [Next]_vars =>
        [decision # Routes!NoDecision /\ decision'.override = decision.override /\ decision'.links = decision.links
           => decision' = decision]_(Routes!vars)
  BY <1>2
<1> QED BY <1>3, <1>4, ServerInvariant, PTL DEF Spec, NothingIsUndone, Outflows!NothingIsUndone, Routes!RoutedTheSameAgain
=============================================================================
