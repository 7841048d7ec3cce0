------------------------- MODULE TreasuryMint_proofs -------------------------
(***************************************************************************)
(* The invariants of TreasuryMint and the step property of its locks, for  *)
(* every set of instructions, keys, events, connections and accounts and   *)
(* every bound on amounts.                                                 *)
(***************************************************************************)
EXTENDS TreasuryMint, FiniteSetTheorems, TLAPS

-----------------------------------------------------------------------------
(* The inductive invariant *)

\* An instruction has a destination, an amount and an order once it exists.
InstructionRows ==
  \A i \in Instructions :
    /\ status[i] = "absent" => order[i] = "absent"
    /\ status[i] # "absent" => destination[i] \in Accounts /\ amount[i] \in Amounts

\* What an operator's connection has read is a row that exists.
TransitionRows ==
  \A w \in Operators : transition[w] # Idle => status[transition[w].of] # "absent"

\* A command in progress has locked a row that exists under a key that has no
\* answer; when it is about to commit, the provider has accepted its mint.
CallRows ==
  \A w \in Connections :
    call[w] # Idle =>
      /\ status[call[w].of] # "absent"
      /\ call[w].key \notin answered
      /\ call[w].at = "complete" =>
           [of |-> call[w].of, key |-> call[w].key, amount |-> call[w].amount] \in accepted

\* Two commands in progress have different rows and different keys.
CallsExclude ==
  \A v, w \in Connections :
    call[v] # Idle /\ call[w] # Idle /\ v # w =>
      call[v].of # call[w].of /\ call[v].key # call[w].key

\* An event that was processed is behind every posting, and behind one only.
PostedByEvents ==
  \A x \in journal :
    /\ event[x.by].status = "processed" /\ event[x.by].of = x.of
    /\ \A y \in journal : x.by = y.by => x = y

Finite == IsFiniteSet(journal) /\ IsFiniteSet(accepted)

IInv ==
  /\ TypeOK
  /\ InstructionRows
  /\ TransitionRows
  /\ CallRows
  /\ CallsExclude
  /\ PostedByEvents
  /\ Finite
  /\ CreditsBackedByMints
  /\ RecordsAgree

-----------------------------------------------------------------------------
(* Sums and counts *)

\* The units that the postings in J brought to account a.
UnitsTo(J, a) == {u \in J \X Amounts : destination[u[1].of] = a /\ u[2] <= u[1].amount}

\* One more posting brings its amount to its destination and nothing elsewhere.
LEMMA UnitsOfPosting ==
  ASSUME IsFiniteSet(journal), NEW x, x \notin journal, x.amount \in Amounts, NEW a
  PROVE  /\ Cardinality(UnitsTo(journal, a)) \in Nat
         /\ Cardinality(UnitsTo(journal \cup {x}, a)) =
              Cardinality(UnitsTo(journal, a)) + (IF destination[x.of] = a THEN x.amount ELSE 0)
<1> DEFINE n == x.amount
<1>1. n \in Nat /\ 1 <= n /\ n <= MaxUnits
  BY MaxUnitsNat DEF Amounts
<1>2. IsFiniteSet(UnitsTo(journal, a)) /\ Cardinality(UnitsTo(journal, a)) \in Nat
  <2>1. IsFiniteSet(Amounts)
    BY MaxUnitsNat, FS_Interval DEF Amounts
  <2>2. IsFiniteSet(journal \X Amounts)
    BY <2>1, FS_Product
  <2> QED BY <2>2, FS_Subset, FS_CardinalityType DEF UnitsTo
<1>3. UnitsTo(journal \cup {x}, a) = UnitsTo(journal, a) \cup UnitsTo({x}, a)
  BY DEF UnitsTo
<1>4. UnitsTo(journal, a) \cap UnitsTo({x}, a) = {}
  BY DEF UnitsTo
<1>5. CASE destination[x.of] = a
  <2>1. UnitsTo({x}, a) = {x} \X (1 .. n)
    BY <1>1, <1>5, MaxUnitsNat DEF UnitsTo, Amounts
  <2>2. IsFiniteSet({x}) /\ Cardinality({x}) = 1
    BY FS_Singleton
  <2>3. IsFiniteSet(1 .. n) /\ Cardinality(1 .. n) = n
    <3> HIDE DEF n
    <3>1. 1 \in Int /\ n \in Int /\ ~(1 > n)
      BY <1>1
    <3> QED BY <3>1, <1>1, FS_Interval
  <2>4. IsFiniteSet(UnitsTo({x}, a)) /\ Cardinality(UnitsTo({x}, a)) = Cardinality({x}) * Cardinality(1 .. n)
    BY <2>1, <2>2, <2>3, FS_Product
  <2>5. Cardinality(UnitsTo({x}, a)) = n
    BY <1>1, <2>2, <2>3, <2>4
  <2>6. Cardinality(UnitsTo(journal, a) \cup UnitsTo({x}, a)) =
          Cardinality(UnitsTo(journal, a)) + Cardinality(UnitsTo({x}, a))
            - Cardinality(UnitsTo(journal, a) \cap UnitsTo({x}, a))
    BY <1>2, <2>4, FS_Union
  <2>7. Cardinality(UnitsTo(journal, a) \cap UnitsTo({x}, a)) = 0
    BY <1>4, FS_EmptySet
  <2>8. Cardinality(UnitsTo(journal, a) \cup UnitsTo({x}, a)) = Cardinality(UnitsTo(journal, a)) + n
    <3> HIDE DEF n
    <3> QED BY <1>1, <1>2, <2>5, <2>6, <2>7
  <2> QED BY <1>2, <1>3, <1>5, <2>8
<1>6. CASE destination[x.of] # a
  <2>1. UnitsTo(journal \cup {x}, a) = UnitsTo(journal, a)
    BY <1>6 DEF UnitsTo
  <2> QED BY <1>2, <1>6, <2>1
<1> QED BY <1>5, <1>6

\* Postings and confirmable mints can be counted.
LEMMA Counts ==
  ASSUME Finite, NEW i
  PROVE  /\ IsFiniteSet(PostingsOf(i)) /\ Cardinality(PostingsOf(i)) \in Nat
         /\ IsFiniteSet(ConfirmableMints(i)) /\ Cardinality(ConfirmableMints(i)) \in Nat
<1>1. PostingsOf(i) \subseteq journal /\ ConfirmableMints(i) \subseteq accepted
  BY DEF PostingsOf, ConfirmableMints
<1> QED BY <1>1, FS_Subset, FS_CardinalityType DEF Finite

\* The credits stay backed as long as none is added and no instruction starts to
\* wait for one; mints accepted or remembered meanwhile do no harm.
LEMMA BackingKept ==
  ASSUME Finite, Finite', CreditsBackedByMints, journal' = journal,
         accepted \subseteq accepted', answered \subseteq answered',
         \A i \in Instructions : status'[i] = "pending_confirmation" => status[i] = "pending_confirmation"
  PROVE  CreditsBackedByMints'
<1> SUFFICES ASSUME NEW i \in Instructions
             PROVE  Cardinality(PostingsOf(i)') + (IF status'[i] = "pending_confirmation" THEN 1 ELSE 0)
                      <= Cardinality(ConfirmableMints(i)')
  BY DEF CreditsBackedByMints
<1>1. Cardinality(PostingsOf(i)) + (IF status[i] = "pending_confirmation" THEN 1 ELSE 0)
        <= Cardinality(ConfirmableMints(i))
  BY DEF CreditsBackedByMints
<1>2. PostingsOf(i)' = PostingsOf(i)
  BY DEF PostingsOf
<1>3. ConfirmableMints(i) \subseteq ConfirmableMints(i)' /\ IsFiniteSet(ConfirmableMints(i)')
  <2>1. ConfirmableMints(i)' \subseteq accepted'
    BY DEF ConfirmableMints
  <2> QED BY <2>1, FS_Subset DEF ConfirmableMints, Finite
<1>4. Cardinality(ConfirmableMints(i)) <= Cardinality(ConfirmableMints(i)')
      /\ Cardinality(ConfirmableMints(i)') \in Nat
  BY <1>3, FS_Subset, FS_CardinalityType
<1>5. Cardinality(PostingsOf(i)) \in Nat /\ Cardinality(ConfirmableMints(i)) \in Nat
  BY Counts
<1>6. status'[i] = "pending_confirmation" => status[i] = "pending_confirmation"
  OBVIOUS
<1> QED BY <1>1, <1>2, <1>4, <1>5, <1>6

\* The records agree as long as the ledger is left alone, orders are neither
\* completed nor reopened and what was posted keeps its destination.
LEMMA RecordsKept ==
  ASSUME RecordsAgree, UNCHANGED ledgerVars,
         \A x \in journal : destination'[x.of] = destination[x.of],
         \A i \in Instructions : order'[i] = "completed" <=> order[i] = "completed"
  PROVE  RecordsAgree'
<1>1. OrderCompletedWhenPosted'
  <2>1. \A i : PostingsOf(i)' = PostingsOf(i)
    BY DEF PostingsOf, ledgerVars
  <2> QED BY <2>1 DEF RecordsAgree, OrderCompletedWhenPosted
<1>2. BalanceMatchesJournal'
  <2>1. ASSUME NEW a \in Accounts
        PROVE  {u \in journal \X Amounts : destination'[u[1].of] = a /\ u[2] <= u[1].amount} =
                 {u \in journal \X Amounts : destination[u[1].of] = a /\ u[2] <= u[1].amount}
    OBVIOUS
  <2> QED BY <2>1 DEF RecordsAgree, BalanceMatchesJournal, ledgerVars
<1> QED BY <1>1, <1>2 DEF RecordsAgree

-----------------------------------------------------------------------------
(* Every step keeps the invariant *)

LEMMA InitEstablishes == Init => IInv
<1> SUFFICES ASSUME Init PROVE IInv
  OBVIOUS
<1>1. TypeOK
  BY MaxUnitsNat DEF Init, TypeOK, Units
<1>2. InstructionRows /\ TransitionRows /\ CallRows /\ CallsExclude /\ PostedByEvents
  BY DEF Init, InstructionRows, TransitionRows, CallRows, CallsExclude, PostedByEvents
<1>3. Finite
  BY FS_EmptySet DEF Init, Finite
<1>4. CreditsBackedByMints
  <2>1. \A i \in Instructions : PostingsOf(i) = {} /\ ConfirmableMints(i) = {}
    BY DEF Init, PostingsOf, ConfirmableMints
  <2> QED BY <2>1, FS_EmptySet DEF Init, CreditsBackedByMints
<1>5. RecordsAgree
  <2>1. \A a \in Accounts :
          {u \in journal \X Amounts : destination[u[1].of] = a /\ u[2] <= u[1].amount} = {}
    BY DEF Init
  <2>2. BalanceMatchesJournal
    BY <2>1, FS_EmptySet DEF Init, BalanceMatchesJournal
  <2> QED BY <2>2 DEF Init, RecordsAgree, OrderCompletedWhenPosted, PostingsOf
<1> QED BY <1>1, <1>2, <1>3, <1>4, <1>5 DEF IInv

\* A new instruction has no postings.
LEMMA CreateKeeps ==
  ASSUME IInv, NEW i \in Instructions, NEW a \in Accounts, NEW n \in Amounts, Create(i, a, n)
  PROVE  IInv'
<1> USE DEF IInv, Create, inboxVars, ledgerVars, mintVars
<1>1. TypeOK'
  <2>1. n \in Units
    BY MaxUnitsNat DEF Units, Amounts
  <2> QED BY <2>1 DEF TypeOK
<1>2. InstructionRows' /\ TransitionRows'
  BY DEF TypeOK, InstructionRows, TransitionRows
<1>3. CallRows' /\ CallsExclude' /\ PostedByEvents' /\ Finite'
  BY DEF TypeOK, CallRows, CallsExclude, PostedByEvents, Finite
<1>4. CreditsBackedByMints'
  <2>1. \A j \in Instructions : status'[j] = "pending_confirmation" => status[j] = "pending_confirmation"
    BY DEF TypeOK
  <2> QED BY <1>3, <2>1, BackingKept
<1>5. RecordsAgree'
  <2>1. PostingsOf(i) = {}
    BY DEF InstructionRows, RecordsAgree, OrderCompletedWhenPosted
  <2>2. \A x \in journal : destination'[x.of] = destination[x.of]
    BY <2>1 DEF TypeOK, PostingsOf
  <2>3. \A j \in Instructions : order'[j] = "completed" <=> order[j] = "completed"
    BY DEF TypeOK, InstructionRows
  <2> QED BY <2>2, <2>3, RecordsKept
<1> QED BY <1>1, <1>2, <1>3, <1>4, <1>5

\* An operator's connection reads, or writes the status of a row that exists and
\* an order that is not completed.
LEMMA TransitionKeeps ==
  ASSUME IInv, NEW w \in Operators,
         \/ \E i \in Instructions, action \in {"cancel", "assign-route"} : ReadForTransition(w, i, action)
         \/ WriteTransition(w) \/ AbandonTransition(w)
  PROVE  IInv'
<1> USE DEF IInv
<1>1. CASE \/ \E i \in Instructions, action \in {"cancel", "assign-route"} : ReadForTransition(w, i, action)
           \/ AbandonTransition(w)
  <2> USE <1>1 DEF ReadForTransition, AbandonTransition, instructionVars, ledgerVars, inboxVars, mintVars
  <2>1. TypeOK' /\ TransitionRows'
    BY DEF TypeOK, TransitionRows
  <2>2. InstructionRows' /\ CallRows' /\ CallsExclude' /\ PostedByEvents' /\ Finite'
    BY DEF InstructionRows, CallRows, CallsExclude, PostedByEvents, Finite
  <2>3. CreditsBackedByMints'
    BY <2>2, BackingKept
  <2>4. RecordsAgree'
    BY RecordsKept
  <2> QED BY <2>1, <2>2, <2>3, <2>4
<1>2. CASE WriteTransition(w)
  <2> DEFINE i == transition[w].of
  <2>1. i \in Instructions /\ status[i] # "absent"
    BY <1>2 DEF TypeOK, TransitionRows, WriteTransition, Idle
  <2>2. /\ \E s \in {"cancelled", "route_resolved"} : status' = [status EXCEPT ![i] = s]
        /\ \/ order' = order
           \/ /\ order[i] \in {"created", "route_resolved"}
              /\ order' = [order EXCEPT ![i] = "route_resolved"]
        /\ transition' = [transition EXCEPT ![w] = Idle]
        /\ UNCHANGED <<destination, amount, credited, ledgerVars, inboxVars, mintVars>>
    BY <1>2 DEF WriteTransition, TypeOK
  <2> HIDE DEF i
  <2>3. TypeOK'
    BY <2>1, <2>2 DEF TypeOK, ledgerVars, inboxVars, mintVars
  <2>4. InstructionRows' /\ TransitionRows'
    BY <2>1, <2>2 DEF TypeOK, InstructionRows, TransitionRows
  <2>5. CallRows' /\ CallsExclude' /\ PostedByEvents' /\ Finite'
    BY <2>1, <2>2 DEF TypeOK, CallRows, CallsExclude, PostedByEvents, Finite, ledgerVars, inboxVars, mintVars
  <2>6. CreditsBackedByMints'
    <3>1. \A j \in Instructions : status'[j] = "pending_confirmation" => status[j] = "pending_confirmation"
      BY <2>1, <2>2 DEF TypeOK
    <3> QED BY <2>2, <2>5, <3>1, BackingKept DEF ledgerVars, mintVars
  <2>7. RecordsAgree'
    <3>1. \A j \in Instructions : order'[j] = "completed" <=> order[j] = "completed"
      BY <2>1, <2>2 DEF TypeOK
    <3> QED BY <2>2, <3>1, RecordsKept
  <2> QED BY <2>3, <2>4, <2>5, <2>6, <2>7
<1> QED BY <1>1, <1>2

\* A command takes its lock and its key, asks the provider or is lost: no row
\* changes.
LEMMA CallKeeps ==
  ASSUME IInv, NEW w \in Connections,
         \/ \E i \in Instructions, k \in Keys, n \in Amounts : StartMint(w, i, k, n)
         \/ \E answer \in {"complete", "failed"} : ProviderAccepts(w, answer)
         \/ ProviderRefuses(w)
         \/ LoseMint(w)
  PROVE  IInv'
<1> USE DEF IInv
<1>1. UNCHANGED <<instructionVars, ledgerVars, inboxVars, operations, answered, transition>>
  BY DEF StartMint, ProviderAccepts, ProviderRefuses, LoseMint
<1>2. /\ accepted \subseteq accepted'
      /\ accepted' \subseteq Mints
      /\ IsFiniteSet(accepted')
      /\ call' \in [Connections -> {Idle} \cup [at : {"provider", "complete", "failed"},
                                           of : Instructions, key : Keys, amount : Amounts]]
      /\ CallRows'
      /\ CallsExclude'
  <2>1. CASE \E i \in Instructions, k \in Keys, n \in Amounts : StartMint(w, i, k, n)
    <3>1. PICK i \in Instructions, k \in Keys, n \in Amounts : StartMint(w, i, k, n)
      BY <2>1
    <3> USE <3>1 DEF StartMint
    <3>2. accepted' = accepted /\ call' = [call EXCEPT ![w] = [at |-> "provider", of |-> i, key |-> k, amount |-> n]]
      OBVIOUS
    <3>3. CallRows'
      BY <1>1 DEF TypeOK, CallRows, instructionVars
    <3>4. CallsExclude'
      BY DEF TypeOK, CallsExclude, Locked
    <3> QED BY <3>2, <3>3, <3>4 DEF TypeOK, Finite
  <2>2. CASE \E answer \in {"complete", "failed"} : ProviderAccepts(w, answer)
    <3>1. PICK answer \in {"complete", "failed"} : ProviderAccepts(w, answer)
      BY <2>2
    <3> USE <3>1 DEF ProviderAccepts
    <3>0. call[w] \in [at : {"provider", "complete", "failed"}, of : Instructions, key : Keys, amount : Amounts]
      BY DEF TypeOK, Idle
    <3> DEFINE x == [of |-> call[w].of, key |-> call[w].key, amount |-> call[w].amount]
    <3>2. accepted' = accepted \cup {x} /\ x \in Mints
      BY <3>0 DEF Mints
    <3>3. IsFiniteSet(accepted')
      BY <3>2, FS_AddElement DEF Finite
    <3>4. call' = [call EXCEPT ![w].at = answer]
      OBVIOUS
    <3>5. CallRows'
      <4> SUFFICES ASSUME NEW v \in Connections, call'[v] # Idle
                   PROVE  /\ status[call'[v].of] # "absent"
                          /\ call'[v].key \notin answered
                          /\ call'[v].at = "complete" =>
                               [of |-> call'[v].of, key |-> call'[v].key, amount |-> call'[v].amount] \in accepted'
        BY <1>1 DEF CallRows, instructionVars
      <4>1. CASE v = w
        BY <3>0, <3>2, <3>4, <4>1 DEF TypeOK, CallRows, Idle
      <4>2. CASE v # w
        BY <3>2, <3>4, <4>2 DEF TypeOK, CallRows
      <4> QED BY <4>1, <4>2
    <3>6. CallsExclude'
      BY <3>0, <3>4 DEF TypeOK, CallsExclude, Idle
    <3>7. call' \in [Connections -> {Idle} \cup [at : {"provider", "complete", "failed"},
                                                 of : Instructions, key : Keys, amount : Amounts]]
      BY <3>0, <3>4 DEF TypeOK
    <3> QED BY <3>2, <3>3, <3>5, <3>6, <3>7 DEF TypeOK
  <2>3. CASE ProviderRefuses(w)
    <3> USE <2>3 DEF ProviderRefuses
    <3>0. call[w] \in [at : {"provider", "complete", "failed"}, of : Instructions, key : Keys, amount : Amounts]
      BY DEF TypeOK, Idle
    <3>1. call' \in [Connections -> {Idle} \cup [at : {"provider", "complete", "failed"},
                                                 of : Instructions, key : Keys, amount : Amounts]]
      BY <3>0 DEF TypeOK
    <3>2. CallRows' /\ CallsExclude'
      BY <1>1, <3>0 DEF TypeOK, CallRows, CallsExclude, Idle, instructionVars
    <3> QED BY <3>1, <3>2 DEF TypeOK, Finite
  <2>4. CASE LoseMint(w)
    BY <1>1, <2>4 DEF LoseMint, TypeOK, CallRows, CallsExclude, Finite, instructionVars
  <2> QED BY <2>1, <2>2, <2>3, <2>4
<1>3. TypeOK'
  BY <1>1, <1>2 DEF TypeOK, instructionVars, ledgerVars, inboxVars
<1>4. InstructionRows' /\ TransitionRows' /\ PostedByEvents' /\ Finite'
  BY <1>1, <1>2 DEF InstructionRows, TransitionRows, PostedByEvents, Finite, instructionVars, ledgerVars, inboxVars
<1>5. CreditsBackedByMints'
  BY <1>1, <1>2, <1>4, BackingKept DEF instructionVars, ledgerVars
<1>6. RecordsAgree'
  BY <1>1, RecordsKept DEF instructionVars
<1> QED BY <1>2, <1>3, <1>4, <1>5, <1>6

\* A command that commits ends: its answer comes with a mint the provider has
\* accepted, which is what its instruction then waits for.
LEMMA EndKeeps ==
  ASSUME IInv, NEW w \in Connections, CommitMint(w) \/ CommitFailure(w)
  PROVE  IInv'
<1> DEFINE i == call[w].of
           k == call[w].key
<1> USE DEF IInv
<1>1. /\ call[w] # Idle /\ call[w].at \in {"complete", "failed"}
      /\ i \in Instructions /\ k \in Keys /\ status[i] # "absent"
  <2>1. call[w] # Idle /\ call[w].at \in {"complete", "failed"}
    BY DEF CommitMint, CommitFailure, EndMint, Idle
  <2> QED BY <2>1 DEF TypeOK, CallRows
<1>2. /\ \/ /\ status' = [status EXCEPT ![i] = "pending_confirmation"]
            /\ answered' = answered \cup {k}
            /\ call[w].at = "complete"
         \/ status' = [status EXCEPT ![i] = "failed"] /\ answered' = answered
      /\ operations' = operations \cup {k}
      /\ \/ order' = order
         \/ /\ order[i] \in {"created", "route_resolved"}
            /\ order' = [order EXCEPT ![i] = "pending_provider"]
      /\ call' = [call EXCEPT ![w] = Idle]
      /\ UNCHANGED <<destination, amount, credited, ledgerVars, inboxVars, accepted, transition>>
  BY <1>1 DEF CommitMint, CommitFailure, EndMint, OrderPending, TypeOK
<1> HIDE DEF i, k
<1>3. TypeOK'
  <2>1. /\ status' \in [Instructions -> {"absent", "created", "route_resolved", "pending_confirmation",
                                  "failed", "posted_available", "exception_suspense", "cancelled"}]
        /\ order' \in [Instructions -> {"absent", "created", "route_resolved", "pending_provider",
                                        "completed"}]
    BY <1>1, <1>2 DEF TypeOK
  <2>2. operations' \subseteq Keys /\ answered' \subseteq operations'
    BY <1>1, <1>2 DEF TypeOK
  <2>3. call' \in [Connections -> {Idle} \cup [at : {"provider", "complete", "failed"},
                                               of : Instructions, key : Keys, amount : Amounts]]
    BY <1>2 DEF TypeOK
  <2> QED BY <1>2, <2>1, <2>2, <2>3 DEF TypeOK, ledgerVars, inboxVars
<1>4. InstructionRows' /\ TransitionRows'
  BY <1>1, <1>2 DEF TypeOK, InstructionRows, TransitionRows
<1>5. CallRows'
  <2> SUFFICES ASSUME NEW v \in Connections, call'[v] # Idle
               PROVE  /\ status'[call'[v].of] # "absent"
                      /\ call'[v].key \notin answered'
                      /\ call'[v].at = "complete" =>
                           [of |-> call'[v].of, key |-> call'[v].key, amount |-> call'[v].amount] \in accepted'
    BY DEF CallRows
  <2>1. v # w /\ call'[v] = call[v] /\ call[v] # Idle
    BY <1>2 DEF TypeOK
  <2>2. call[v].of # i /\ call[v].key # k
    BY <1>1, <2>1 DEF CallsExclude, i, k
  <2>3. call[v].of \in Instructions
    BY <2>1 DEF TypeOK
  <2> QED BY <1>1, <1>2, <2>1, <2>2, <2>3 DEF TypeOK, CallRows
<1>6. CallsExclude' /\ PostedByEvents' /\ Finite'
  BY <1>2 DEF TypeOK, CallsExclude, PostedByEvents, Finite, ledgerVars, inboxVars
<1>7. CreditsBackedByMints'
  <2>1. CASE status' = [status EXCEPT ![i] = "failed"] /\ answered' = answered
    <3>1. \A j \in Instructions : status'[j] = "pending_confirmation" => status[j] = "pending_confirmation"
      BY <1>1, <2>1 DEF TypeOK
    <3> QED BY <1>2, <1>6, <2>1, <3>1, BackingKept DEF ledgerVars
  <2>2. CASE /\ status' = [status EXCEPT ![i] = "pending_confirmation"]
             /\ answered' = answered \cup {k}
             /\ call[w].at = "complete"
    <3> SUFFICES ASSUME NEW j \in Instructions
                 PROVE  Cardinality(PostingsOf(j)') + (IF status'[j] = "pending_confirmation" THEN 1 ELSE 0)
                          <= Cardinality(ConfirmableMints(j)')
      BY DEF CreditsBackedByMints
    <3>1. Cardinality(PostingsOf(j)) + (IF status[j] = "pending_confirmation" THEN 1 ELSE 0)
            <= Cardinality(ConfirmableMints(j))
      BY DEF CreditsBackedByMints
    <3>2. PostingsOf(j)' = PostingsOf(j)
      BY <1>2 DEF PostingsOf, ledgerVars
    <3>3. /\ Cardinality(PostingsOf(j)) \in Nat /\ IsFiniteSet(ConfirmableMints(j))
          /\ Cardinality(ConfirmableMints(j)) \in Nat
      BY Counts
    <3>4. IsFiniteSet(ConfirmableMints(j)') /\ Cardinality(ConfirmableMints(j)') \in Nat
      <4>1. ConfirmableMints(j)' \subseteq accepted
        BY <1>2 DEF ConfirmableMints
      <4> QED BY <4>1, FS_Subset, FS_CardinalityType DEF Finite
    <3>5. ConfirmableMints(j) \subseteq ConfirmableMints(j)'
      BY <1>2, <2>2 DEF ConfirmableMints
    <3>6. CASE j # i
      <4>1. status'[j] = status[j]
        BY <2>2, <3>6 DEF TypeOK
      <4>2. Cardinality(ConfirmableMints(j)) <= Cardinality(ConfirmableMints(j)')
        BY <3>4, <3>5, FS_Subset
      <4> QED BY <3>1, <3>2, <3>3, <3>4, <4>1, <4>2
    <3>7. CASE j = i
      <4> DEFINE x == [of |-> i, key |-> k, amount |-> call[w].amount]
      <4>1. x \in accepted /\ k \notin answered
        BY <1>1, <2>2 DEF CallRows, i, k
      <4>2. x \notin ConfirmableMints(j) /\ x \in ConfirmableMints(j)'
        BY <1>2, <2>2, <3>7, <4>1 DEF ConfirmableMints
      <4> HIDE DEF x
      <4>3. Cardinality(ConfirmableMints(j) \cup {x}) = Cardinality(ConfirmableMints(j)) + 1
        BY <3>3, <4>2, FS_AddElement
      <4>4. Cardinality(ConfirmableMints(j) \cup {x}) <= Cardinality(ConfirmableMints(j)')
        <5>1. ConfirmableMints(j) \cup {x} \subseteq ConfirmableMints(j)'
          BY <3>5, <4>2
        <5> QED BY <3>4, <5>1, FS_Subset
      <4> DEFINE c == Cardinality(PostingsOf(j))
                 d == Cardinality(ConfirmableMints(j))
                 dd == Cardinality(ConfirmableMints(j)')
      <4>5. c \in Nat /\ d \in Nat /\ dd \in Nat /\ c <= d /\ d + 1 <= dd
        <5>1. c <= d
          BY <3>1, <3>3
        <5> QED BY <3>3, <3>4, <4>3, <4>4, <5>1
      <4> HIDE DEF c, d, dd
      <4>6. c + (IF status'[j] = "pending_confirmation" THEN 1 ELSE 0) <= dd
        BY <4>5
      <4> QED BY <3>2, <4>6 DEF c, dd
    <3> QED BY <3>6, <3>7
  <2> QED BY <1>2, <2>1, <2>2
<1>8. RecordsAgree'
  <2>1. \A j \in Instructions : order'[j] = "completed" <=> order[j] = "completed"
    BY <1>1, <1>2 DEF TypeOK
  <2> QED BY <1>2, <2>1, RecordsKept
<1> QED BY <1>3, <1>4, <1>5, <1>6, <1>7, <1>8

-----------------------------------------------------------------------------
(* Events *)

\* A first event is behind no posting yet, and its row is not locked.
Received(e, kind, i, outcome) ==
  /\ status[i] # "absent" /\ ~Locked(i)
  /\ \A x \in journal : x.by # e
  /\ event' \in [Events -> {Unseen} \cup [kind : {"confirmation", "other"}, of : Instructions,
                                          status : {"processed", "failed"}]]
  /\ \A x \in journal : event'[x.by] = event[x.by]
  /\ event'[e] = [kind |-> kind, of |-> i, status |-> outcome]

LEMMA FirstEvent ==
  ASSUME IInv, NEW e \in Events, NEW i \in Instructions,
         NEW kind \in {"confirmation", "other"}, NEW outcome \in {"processed", "failed"},
         Record(e, kind, i, outcome)
  PROVE  Received(e, kind, i, outcome)
<1>1. \A x \in journal : x.by \in Events /\ event[x.by].status = "processed"
  BY DEF IInv, TypeOK, PostedByEvents
<1>2. \A x \in journal : x.by # e
  BY <1>1 DEF Record, Unseen
<1> QED BY <1>1, <1>2 DEF Record, Received, IInv, TypeOK

\* An event that posts nothing only sets a status that awaits nothing.
LEMMA EventKeeps ==
  ASSUME IInv, NEW e \in Events, NEW i \in Instructions,
         NEW kind \in {"confirmation", "other"}, NEW n \in Units,
         Mismatch(e, i, kind, n) \/ Stale(e, i, kind, n) \/ ProcessingFails(e, i, kind, n)
  PROVE  IInv'
<1> USE DEF IInv
<1>1. /\ \E outcome \in {"processed", "failed"} : Record(e, kind, i, outcome)
      /\ \/ status' = status
         \/ status' = [status EXCEPT ![i] = "exception_suspense"]
      /\ breaks' \subseteq Events
      /\ UNCHANGED <<destination, amount, credited, order, ledgerVars, mintVars, transition>>
  BY DEF Mismatch, Stale, ProcessingFails, instructionVars, TypeOK
<1>2. /\ status[i] # "absent"
      /\ event' \in [Events -> {Unseen} \cup [kind : {"confirmation", "other"}, of : Instructions,
                                              status : {"processed", "failed"}]]
      /\ \A x \in journal : event'[x.by] = event[x.by]
  <2>1. PICK outcome \in {"processed", "failed"} : Record(e, kind, i, outcome)
    BY <1>1
  <2>2. Received(e, kind, i, outcome)
    BY <2>1, FirstEvent
  <2> QED BY <2>2 DEF Received
<1>3. TypeOK'
  <2>1. status' \in [Instructions -> {"absent", "created", "route_resolved", "pending_confirmation",
                                  "failed", "posted_available", "exception_suspense", "cancelled"}]
    BY <1>1 DEF TypeOK
  <2> QED BY <1>1, <1>2, <2>1 DEF TypeOK, ledgerVars, mintVars
<1>4. InstructionRows' /\ TransitionRows' /\ CallRows' /\ CallsExclude'
  BY <1>1, <1>2 DEF TypeOK, InstructionRows, TransitionRows, CallRows, CallsExclude, mintVars
<1>5. PostedByEvents' /\ Finite'
  BY <1>1, <1>2 DEF PostedByEvents, Finite, ledgerVars, mintVars
<1>6. CreditsBackedByMints'
  <2>1. \A j \in Instructions : status'[j] = "pending_confirmation" => status[j] = "pending_confirmation"
    BY <1>1 DEF TypeOK
  <2> QED BY <1>1, <1>5, <2>1, BackingKept DEF ledgerVars, mintVars
<1>7. RecordsAgree'
  BY <1>1, RecordsKept
<1> QED BY <1>3, <1>4, <1>5, <1>6, <1>7

\* The event that credits a mint adds its posting to journal, balance and order
\* alike, and its instruction awaits nothing any more.
LEMMA FinalizeKeeps ==
  ASSUME IInv, NEW e \in Events, NEW i \in Instructions,
         NEW kind \in {"confirmation", "other"}, NEW n \in Units,
         Finalize(e, i, kind, n)
  PROVE  IInv'
<1> DEFINE a == destination[i]
           m == Confirmed(i, n)
           x == [of |-> i, by |-> e, amount |-> m]
<1> USE DEF IInv
<1>1. /\ Record(e, kind, i, "processed")
      /\ status[i] = "pending_confirmation"
      /\ status' = [status EXCEPT ![i] = "posted_available"]
      /\ order' = [order EXCEPT ![i] = "completed"]
      /\ credited' = [credited EXCEPT ![i] = @ + m]
      /\ journal' = journal \cup {x}
      /\ available' = [available EXCEPT ![a] = @ + m]
      /\ UNCHANGED <<destination, amount, breaks, mintVars, transition>>
  BY DEF Finalize, AwaitsConfirmation, Upserted
<1>2. /\ event' \in [Events -> {Unseen} \cup [kind : {"confirmation", "other"}, of : Instructions,
                                              status : {"processed", "failed"}]]
      /\ \A y \in journal : y.by # e /\ event'[y.by] = event[y.by]
      /\ event'[e].status = "processed" /\ event'[e].of = i
  <2>1. Received(e, kind, i, "processed")
    <3>1. ASSUME NEW outcome \in {"processed", "failed"}, outcome = "processed"
          PROVE  Received(e, kind, i, outcome)
      BY <1>1, <3>1, FirstEvent
    <3> QED BY <3>1
  <2> QED BY <2>1 DEF Received
<1>3. a \in Accounts /\ m \in Amounts /\ m \in Nat
  <2>1. a \in Accounts /\ amount[i] \in Amounts
    BY <1>1 DEF InstructionRows
  <2> QED BY <2>1, MaxUnitsNat DEF Confirmed, Units, Amounts
<1>4. x.of = i /\ x.by = e /\ x.amount = m /\ x \notin journal
      /\ x \in [of : Instructions, by : Events, amount : Amounts]
  BY <1>2, <1>3
<1> HIDE DEF a, m, x
<1>5. TypeOK'
  <2>1. /\ status' \in [Instructions -> {"absent", "created", "route_resolved", "pending_confirmation",
                                  "failed", "posted_available", "exception_suspense", "cancelled"}]
        /\ order' \in [Instructions -> {"absent", "created", "route_resolved", "pending_provider",
                                        "completed"}]
    BY <1>1 DEF TypeOK
  <2>2. credited' \in [Instructions -> Nat] /\ available' \in [Accounts -> Nat]
    BY <1>1, <1>3 DEF TypeOK
  <2>3. journal' \subseteq [of : Instructions, by : Events, amount : Amounts]
    BY <1>1, <1>4 DEF TypeOK
  <2> QED BY <1>1, <1>2, <2>1, <2>2, <2>3 DEF TypeOK, mintVars
<1>6. InstructionRows' /\ TransitionRows' /\ CallRows' /\ CallsExclude'
  BY <1>1 DEF TypeOK, InstructionRows, TransitionRows, CallRows, CallsExclude, mintVars
<1>7. PostedByEvents'
  BY <1>1, <1>2, <1>4 DEF PostedByEvents
<1>8. Finite'
  BY <1>1, FS_AddElement DEF Finite, mintVars
<1>9. CreditsBackedByMints'
  <2> SUFFICES ASSUME NEW j \in Instructions
               PROVE  Cardinality(PostingsOf(j)') + (IF status'[j] = "pending_confirmation" THEN 1 ELSE 0)
                        <= Cardinality(ConfirmableMints(j)')
    BY DEF CreditsBackedByMints
  <2>1. Cardinality(PostingsOf(j)) + (IF status[j] = "pending_confirmation" THEN 1 ELSE 0)
          <= Cardinality(ConfirmableMints(j))
    BY DEF CreditsBackedByMints
  <2>2. ConfirmableMints(j)' = ConfirmableMints(j)
    BY <1>1 DEF ConfirmableMints, mintVars
  <2>3. CASE j # i
    <3>1. status'[j] = status[j]
      BY <1>1, <2>3 DEF TypeOK
    <3>2. PostingsOf(j)' = PostingsOf(j)
      BY <1>1, <1>4, <2>3 DEF PostingsOf
    <3> QED BY <2>1, <2>2, <3>1, <3>2
  <2>4. CASE j = i
    <3>1. PostingsOf(j)' = PostingsOf(j) \cup {x} /\ x \notin PostingsOf(j)
      BY <1>1, <1>4, <2>4 DEF PostingsOf
    <3>2. Cardinality(PostingsOf(j)') = Cardinality(PostingsOf(j)) + 1
      BY <3>1, Counts, FS_AddElement
    <3>3. status[j] = "pending_confirmation" /\ status'[j] # "pending_confirmation"
      BY <1>1, <2>4 DEF TypeOK
    <3>4. Cardinality(PostingsOf(j)) \in Nat
      BY Counts
    <3> QED BY <2>1, <2>2, <3>2, <3>3, <3>4
  <2> QED BY <2>3, <2>4
<1>10. RecordsAgree'
  <2>1. BalanceMatchesJournal'
    <3> SUFFICES ASSUME NEW b \in Accounts
                 PROVE  available'[b] = Cardinality(UnitsTo(journal', b))
      BY <1>1 DEF BalanceMatchesJournal, UnitsTo
    <3>1. available[b] = Cardinality(UnitsTo(journal, b))
      BY DEF RecordsAgree, BalanceMatchesJournal, UnitsTo
    <3>2. /\ Cardinality(UnitsTo(journal, b)) \in Nat
          /\ Cardinality(UnitsTo(journal \cup {x}, b)) =
               Cardinality(UnitsTo(journal, b)) + (IF destination[x.of] = b THEN x.amount ELSE 0)
      BY <1>3, <1>4, UnitsOfPosting DEF Finite
    <3>3. available'[b] = available[b] + (IF a = b THEN m ELSE 0)
      BY <1>1, <1>3 DEF TypeOK
    <3> QED BY <1>1, <1>4, <3>1, <3>2, <3>3 DEF a
  <2>2. OrderCompletedWhenPosted'
    BY <1>1, <1>4 DEF TypeOK, RecordsAgree, OrderCompletedWhenPosted, PostingsOf
  <2> QED BY <2>1, <2>2 DEF RecordsAgree
<1> QED BY <1>5, <1>6, <1>7, <1>8, <1>9, <1>10

\* A retry only changes what its event reports of itself.
LEMMA ReprocessKeeps ==
  ASSUME IInv, NEW e \in Events, Reprocess(e)
  PROVE  IInv'
<1> USE DEF IInv, Reprocess, instructionVars, ledgerVars, mintVars
<1>1. event[e] \in [kind : {"confirmation", "other"}, of : Instructions, status : {"processed", "failed"}]
  BY DEF TypeOK, Unseen
<1>2. TypeOK'
  BY <1>1 DEF TypeOK
<1>3. PostedByEvents' /\ Finite'
  BY <1>1 DEF TypeOK, PostedByEvents, Finite
<1>4. InstructionRows' /\ TransitionRows' /\ CallRows' /\ CallsExclude'
  BY DEF InstructionRows, TransitionRows, CallRows, CallsExclude
<1>5. CreditsBackedByMints' /\ RecordsAgree'
  BY <1>3, BackingKept, RecordsKept
<1> QED BY <1>2, <1>3, <1>4, <1>5

LEMMA NextKeeps == IInv /\ [Next]_vars => IInv'
<1> SUFFICES ASSUME IInv, [Next]_vars PROVE IInv'
  OBVIOUS
<1>1. CASE UNCHANGED vars
  <2> USE <1>1 DEF IInv, vars, instructionVars, ledgerVars, inboxVars, mintVars
  <2>1. TypeOK' /\ InstructionRows' /\ TransitionRows' /\ CallRows' /\ CallsExclude'
    BY DEF TypeOK, InstructionRows, TransitionRows, CallRows, CallsExclude
  <2>2. PostedByEvents' /\ Finite'
    BY DEF PostedByEvents, Finite
  <2>3. CreditsBackedByMints' /\ RecordsAgree'
    BY <2>2, BackingKept, RecordsKept
  <2> QED BY <2>1, <2>2, <2>3
<1>2. ASSUME NEW i \in Instructions, NEW a \in Accounts, NEW n \in Amounts, Create(i, a, n) PROVE IInv'
  BY <1>2, CreateKeeps
<1>3. ASSUME NEW w \in Operators,
             \/ \E i \in Instructions, action \in {"cancel", "assign-route"} : ReadForTransition(w, i, action)
             \/ WriteTransition(w) \/ AbandonTransition(w)
      PROVE  IInv'
  BY <1>3, TransitionKeeps
<1>4. ASSUME NEW w \in Connections,
             \/ \E i \in Instructions, k \in Keys, n \in Amounts : StartMint(w, i, k, n)
             \/ \E answer \in {"complete", "failed"} : ProviderAccepts(w, answer)
             \/ ProviderRefuses(w)
             \/ LoseMint(w)
      PROVE  IInv'
  BY <1>4, CallKeeps
<1>5. ASSUME NEW w \in Connections, CommitMint(w) \/ CommitFailure(w) PROVE IInv'
  BY <1>5, EndKeeps
<1>6. ASSUME NEW e \in Events, NEW i \in Instructions, NEW kind \in {"confirmation", "other"},
             NEW n \in Units, Webhook(e, i, kind, n)
      PROVE  IInv'
  BY <1>6, EventKeeps, FinalizeKeeps DEF Webhook
<1>7. ASSUME NEW e \in Events, Reprocess(e) PROVE IInv'
  BY <1>7, ReprocessKeeps
<1> QED BY <1>1, <1>2, <1>3, <1>4, <1>5, <1>6, <1>7 DEF Next

LEMMA Invariance == Spec => []IInv
<1>1. Init => IInv
  BY InitEstablishes
<1>2. IInv /\ [Next]_vars => IInv'
  BY NextKeeps
<1> QED BY <1>1, <1>2, PTL DEF Spec

-----------------------------------------------------------------------------
(* Theorems *)

\* The rows the mint command and the events read and write keep their types.
THEOREM TypeCorrect == Spec => []TypeOK
<1>1. IInv => TypeOK
  BY DEF IInv
<1> QED BY <1>1, Invariance, PTL

\* An instruction is posted at most once per mint of it that the provider has
\* accepted and the database remembers, and waits for a confirmation only while
\* one of these is left (a count: amounts are not compared), however often
\* commands are retried under however many keys, with answers lost, transactions
\* rolled back and events in any order.
THEOREM CreditsBackedAlways == Spec => []CreditsBackedByMints
<1>1. IInv => CreditsBackedByMints
  BY DEF IInv
<1> QED BY <1>1, Invariance, PTL

\* The balance of every account is the sum of the postings of the journal to it,
\* and an order is completed exactly when its instruction has been posted,
\* though commands, transitions and events all write it.
THEOREM RecordsAgreeAlways == Spec => []RecordsAgree
<1>1. IInv => RecordsAgree
  BY DEF IInv
<1> QED BY <1>1, Invariance, PTL

\* An event credits at most one instruction, the one it was recorded for.
EventCreditsOnce ==
  \A x \in journal :
    event[x.by].of = x.of /\ \A y \in journal : x.by = y.by => x = y

\* However often an event is delivered or retried, it posts once at most.
THEOREM EventCreditsOnceAlways == Spec => []EventCreditsOnce
<1>1. IInv => EventCreditsOnce
  BY DEF IInv, PostedByEvents, EventCreditsOnce
<1> QED BY <1>1, Invariance, PTL

\* Two commands never work on one instruction or under one key at a time.
THEOREM CallsExcludeAlways == Spec => []CallsExclude
<1>1. IInv => CallsExclude
  BY DEF IInv
<1> QED BY <1>1, Invariance, PTL

\* While a command waits for the provider, no other commit touches the
\* instruction it has locked.
Untouched ==
  \A w \in Connections :
    call[w] # Idle /\ call'[w] # Idle =>
      LET i == call[w].of
      IN  status'[i] = status[i] /\ credited'[i] = credited[i] /\ order'[i] = order[i]

LEMMA StepLeavesLockedRows == IInv /\ [Next]_vars => Untouched
<1> SUFFICES ASSUME IInv, [Next]_vars, NEW w \in Connections, call[w] # Idle, call'[w] # Idle
             PROVE  /\ status'[call[w].of] = status[call[w].of]
                    /\ credited'[call[w].of] = credited[call[w].of]
                    /\ order'[call[w].of] = order[call[w].of]
  BY DEF Untouched
<1> DEFINE i == call[w].of
<1>1. i \in Instructions /\ status[i] # "absent" /\ Locked(i)
  BY DEF IInv, TypeOK, CallRows, Locked
<1>2. CASE UNCHANGED instructionVars
  BY <1>2 DEF instructionVars
<1>3. ASSUME NEW j \in Instructions, NEW a \in Accounts, NEW n \in Amounts, Create(j, a, n)
      PROVE  status'[i] = status[i] /\ credited'[i] = credited[i] /\ order'[i] = order[i]
  BY <1>1, <1>3 DEF Create, IInv, TypeOK
<1>4. ASSUME NEW v \in Operators, WriteTransition(v)
      PROVE  status'[i] = status[i] /\ credited'[i] = credited[i] /\ order'[i] = order[i]
  BY <1>1, <1>4 DEF WriteTransition, IInv, TypeOK
<1>5. ASSUME NEW v \in Connections, CommitMint(v) \/ CommitFailure(v)
      PROVE  status'[i] = status[i] /\ credited'[i] = credited[i] /\ order'[i] = order[i]
  <2>1. v # w /\ call[v] # Idle
    BY <1>5 DEF CommitMint, CommitFailure, EndMint, IInv, TypeOK, Idle
  <2>2. call[v].of # i
    BY <2>1 DEF IInv, CallsExclude
  <2> QED BY <1>1, <1>5, <2>2 DEF CommitMint, CommitFailure, EndMint, OrderPending, IInv, TypeOK
<1>6. ASSUME NEW e \in Events, NEW j \in Instructions, NEW kind \in {"confirmation", "other"},
             NEW n \in Units, Webhook(e, j, kind, n)
      PROVE  status'[i] = status[i] /\ credited'[i] = credited[i] /\ order'[i] = order[i]
  <2>1. ~Locked(j)
    BY <1>6 DEF Webhook, Mismatch, Stale, Finalize, ProcessingFails, Record
  <2>2. j # i
    BY <1>1, <2>1
  <2>3. /\ \A h \in Instructions : h # j => status'[h] = status[h]
        /\ \A h \in Instructions : h # j => credited'[h] = credited[h]
        /\ \A h \in Instructions : h # j => order'[h] = order[h]
    BY <1>6 DEF Webhook, Mismatch, Stale, Finalize, ProcessingFails, instructionVars, IInv, TypeOK
  <2> QED BY <1>1, <2>2, <2>3
<1>7. \/ UNCHANGED instructionVars
      \/ \E j \in Instructions, a \in Accounts, n \in Amounts : Create(j, a, n)
      \/ \E v \in Operators : WriteTransition(v)
      \/ \E v \in Connections : CommitMint(v) \/ CommitFailure(v)
      \/ \E e \in Events, j \in Instructions, kind \in {"confirmation", "other"}, n \in Units :
           Webhook(e, j, kind, n)
  <2>1. CASE UNCHANGED vars
    BY <2>1 DEF vars
  <2>2. CASE Next
    BY <2>2 DEF Next, ReadForTransition, AbandonTransition, StartMint, ProviderAccepts,
                ProviderRefuses, LoseMint, Reprocess
  <2> QED BY <2>1, <2>2
<1> QED BY <1>2, <1>3, <1>4, <1>5, <1>6, <1>7

\* The lock a mint command holds while the provider answers shields its
\* instruction from every other step of the system.
THEOREM ShieldedDuringMint == Spec => UntouchedDuringMint
<1>1. IInv /\ [Next]_vars => Untouched
  BY StepLeavesLockedRows
<1>2. Untouched =>
        [\A w \in Connections :
           call[w] # Idle /\ call'[w] # Idle =>
             LET i == call[w].of
             IN  status'[i] = status[i] /\ credited'[i] = credited[i] /\ order'[i] = order[i]]_vars
  BY DEF Untouched
<1> QED BY <1>1, <1>2, Invariance, PTL DEF Spec, UntouchedDuringMint

=============================================================================
