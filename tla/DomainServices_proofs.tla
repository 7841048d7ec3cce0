------------------------ MODULE DomainServices_proofs ------------------------
(***************************************************************************)
(* The properties of DomainServices, for all sets of accounts, payables,   *)
(* amounts, events, clients, calls and users, and every bound: each        *)
(* service keeps an invariant of its own.                                  *)
(***************************************************************************)
EXTENDS DomainServices, Sums, FiniteSetTheorems, SequenceTheorems, TLAPS

-----------------------------------------------------------------------------
(* Sums *)

LEMMA UnitsOf ==
  ASSUME NEW f
  PROVE  \A v : v \in Units(f) <=> \E x \in DOMAIN f : \E u \in 1 .. f[x] : v = <<x, u>>
BY DEF Units

LEMMA UnitsFinite ==
  ASSUME NEW A, IsFiniteSet(A), NEW f \in [A -> Nat]
  PROVE  IsFiniteSet(Units(f)) /\ Sum(f) \in Nat
<1>1. PICK S : S = {{x} \X (1 .. f[x]) : x \in A}
  OBVIOUS
<1>2. PICK h : h = [x \in A |-> {x} \X (1 .. f[x])]
  OBVIOUS
<1>3. h \in Surjection(A, S)
  BY <1>1, <1>2 DEF Surjection
<1>4. IsFiniteSet(S)
  BY <1>3, FS_Surjection
<1>5. ASSUME NEW T \in S PROVE IsFiniteSet(T)
  <2>1. PICK x \in A : T = {x} \X (1 .. f[x])
    BY <1>1
  <2>2. IsFiniteSet(1 .. f[x])
    <3>1. 1 \in Int /\ f[x] \in Int
      OBVIOUS
    <3> QED BY <3>1, FS_Interval
  <2>3. IsFiniteSet({x})
    BY FS_Singleton
  <2> QED BY <2>1, <2>2, <2>3, FS_Product
<1>6. IsFiniteSet(UNION S)
  BY <1>4, <1>5, FS_UNION
<1>7. Units(f) = UNION S
  BY <1>1 DEF Units
<1> QED BY <1>6, <1>7, FS_CardinalityType DEF Sum

\* One thing more adds its amount.
LEMMA SumAdds ==
  ASSUME NEW A, IsFiniteSet(A), NEW x, x \notin A, NEW B, B = A \cup {x},
         NEW f \in [A -> Nat], NEW g \in [B -> Nat], \A y \in A : g[y] = f[y]
  PROVE  Sum(g) = Sum(f) + g[x]
<1>1. PICK T : T = {x} \X (1 .. g[x])
  OBVIOUS
<1>2. IsFiniteSet(T) /\ Cardinality(T) = g[x]
  <2>1. IsFiniteSet({x}) /\ Cardinality({x}) = 1
    BY FS_Singleton
  <2>2. IsFiniteSet(1 .. g[x]) /\ Cardinality(1 .. g[x]) = g[x]
    BY FS_Interval
  <2>3. Cardinality(T) = 1 * g[x] /\ IsFiniteSet(T)
    BY <1>1, <2>1, <2>2, FS_Product
  <2>4. g[x] \in Nat
    OBVIOUS
  <2> QED BY <2>3, <2>4
<1>3. Units(g) = Units(f) \cup T
  <2>1. \A v : v \in T <=> \E u \in 1 .. g[x] : v = <<x, u>>
    BY <1>1
  <2>2. \A v : v \in Units(f) <=> \E y \in A : \E u \in 1 .. g[y] : v = <<y, u>>
    BY UnitsOf
  <2>3. \A v : v \in Units(g) <=> \E y \in B : \E u \in 1 .. g[y] : v = <<y, u>>
    BY UnitsOf
  <2> QED BY <2>1, <2>2, <2>3
<1>4. Units(f) \cap T = {}
  <2>1. ASSUME NEW v \in Units(f), v \in T PROVE FALSE
    <3>1. PICK y \in A : \E u \in 1 .. f[y] : v = <<y, u>>
      BY <2>1, UnitsOf
    <3>2. v[1] = y /\ v[1] = x
      BY <1>1, <2>1, <3>1
    <3> QED BY <3>2
  <2> QED BY <2>1
<1>5. IsFiniteSet(Units(f)) /\ Sum(f) \in Nat
  BY UnitsFinite
<1>6. Cardinality(Units(g)) = Cardinality(Units(f)) + Cardinality(T) - Cardinality({})
  BY <1>2, <1>3, <1>4, <1>5, FS_Union
<1> QED BY <1>2, <1>5, <1>6, FS_EmptySet DEF Sum

\* The same, of two functions.
LEMMA OneMoreAdds ==
  ASSUME NEW f, IsFiniteSet(DOMAIN f), f \in [DOMAIN f -> Nat], NEW g, g \in [DOMAIN g -> Nat],
         NEW x, x \notin DOMAIN f, DOMAIN g = DOMAIN f \cup {x}, \A y \in DOMAIN f : g[y] = f[y]
  PROVE  Sum(g) = Sum(f) + g[x]
<1>1. PICK A : A = DOMAIN f
  OBVIOUS
<1>2. PICK B : B = DOMAIN g
  OBVIOUS
<1>3. IsFiniteSet(A) /\ x \notin A /\ B = A \cup {x} /\ f \in [A -> Nat] /\ g \in [B -> Nat] /\ \A y \in A : g[y] = f[y]
  BY <1>1, <1>2
<1> QED BY <1>3, SumAdds

\* Nothing adds up to nothing.
LEMMA SumOfNone ==
  ASSUME NEW f, DOMAIN f = {} PROVE Sum(f) = 0
<1>1. Units(f) = {}
  BY DEF Units
<1> QED BY <1>1, FS_EmptySet DEF Sum

\* The instances of the operators are the operators.
LEMMA FundsSums == \A f : Funds!Sum(f) = Sum(f)
<1> SUFFICES ASSUME NEW f PROVE Funds!Sum(f) = Sum(f)
  OBVIOUS
<1>1. Funds!Units(f) = Units(f)
  BY DEF Funds!Units, Units
<1> QED BY <1>1 DEF Funds!Sum, Sum, Funds!Cardinality, Cardinality

LEMMA RebalancingSums == \A f : Rebalancing!Sum(f) = Sum(f)
<1> SUFFICES ASSUME NEW f PROVE Rebalancing!Sum(f) = Sum(f)
  OBVIOUS
<1>1. Rebalancing!Units(f) = Units(f)
  BY DEF Rebalancing!Units, Units
<1> QED BY <1>1 DEF Rebalancing!Sum, Sum, Rebalancing!Cardinality, Cardinality

LEMMA FiniteSetsOfInstances ==
  \A S : /\ (Funds!IsFiniteSet(S) <=> IsFiniteSet(S)) /\ (Rebalancing!IsFiniteSet(S) <=> IsFiniteSet(S))
         /\ Rebalancing!Cardinality(S) = Cardinality(S)
BY DEF Funds!IsFiniteSet, Rebalancing!IsFiniteSet, IsFiniteSet, Rebalancing!Cardinality, Cardinality

-----------------------------------------------------------------------------
(* DomainFunds *)

BalanceRows == [available : Nat, reserved : Nat, suspense : Nat]
ObligationRows ==
  [status : {"draft", "approved", "partially_funded", "fully_funded"}, required : Nat,
   funding : {"unfunded", "partially_funded", "fully_funded"}]
ReservationRows ==
  [obligation : Obligations, account : Accounts, amount : Amounts, status : {"active", "released", "expired", "cancelled"}]
EventRows == [status : {"queued", "dead_letter", "processed"}, valid : BOOLEAN, account : Accounts, deposit : DepositIds]
PaymentRows == [status : {"created", "settled"}, source : Accounts, destination : Accounts, amount : Amounts]
ExternalRows == [status : {"complete", "failed", "timeout"}, source : Accounts, amount : Amounts, fee : Nat, reversal : BOOLEAN]

\* The amounts of some of the reservations of a list.
AmountsOf(list, S) == [n \in S |-> list[n].amount]
Active(list, o) == {n \in DOMAIN list : list[n].obligation = o /\ list[n].status = "active"}
Held(list, gone, a) == {n \in DOMAIN list : list[n].account = a /\ (list[n].status = "active" \/ n \in gone)}
AllocatedTo(list, o) == Sum(AmountsOf(list, Active(list, o)))
HeldOn(list, gone, a) == Sum(AmountsOf(list, Held(list, gone, a)))

\* What an account has paid, by payments and by external payments.
Settled(map, a) == [k \in {k \in InternalKeys : map[k].status = "settled" /\ map[k].source = a} |-> map[k].amount]
Spent(map, a) == [k \in {k \in ExternalKeys : map[k] # Funds!None /\ map[k].source = a} |-> map[k].amount + map[k].fee]

\* The funding status of an obligation, and its place in their order.
Shown(funded, required) ==
  IF funded = 0 THEN "unfunded" ELSE IF funded >= required THEN "fully_funded" ELSE "partially_funded"
Rank(shown) == CHOOSE n \in 1 .. 3 : Funds!FundingStatuses[n] = shown

FundsTypes ==
  /\ opening \in [Accounts -> 0 .. MaxOpening] /\ balance \in [Accounts -> BalanceRows]
  /\ obligation \in [Obligations -> {Funds!None} \cup ObligationRows]
  /\ reservation \in Seq(ReservationRows) /\ Len(reservation) <= MaxReservations /\ refused \subseteq DOMAIN reservation
  /\ event \in [Events -> {Funds!None} \cup EventRows] /\ credits \in 0 .. MaxCredits
  /\ payment \in [InternalKeys -> {Funds!None} \cup PaymentRows]
  /\ external \in [ExternalKeys -> {Funds!None} \cup ExternalRows]

\* Reservations are of approved obligations; one whose release threw is not active.
ReservationsAreApproved ==
  /\ \A n \in DOMAIN reservation : obligation[reservation[n].obligation].status \notin {"none", "draft"}
  /\ \A n \in refused : reservation[n].status # "active"

FundingFits ==
  \A o \in Obligations : obligation[o] # Funds!None =>
    /\ AllocatedTo(reservation, o) <= obligation[o].required
    /\ Rank(Shown(AllocatedTo(reservation, o), obligation[o].required)) <= Rank(obligation[o].funding)
    /\ (\A n \in refused : reservation[n].obligation # o) =>
         obligation[o].funding = Shown(AllocatedTo(reservation, o), obligation[o].required)

PaidFor ==
  \A a \in Accounts :
    balance[a].reserved + Sum(Settled(payment, a)) + Sum(Spent(external, a)) <= HeldOn(reservation, refused, a)

FundsInv == FundsTypes /\ ReservationsAreApproved /\ FundingFits /\ PaidFor

LEMMA FundsConstants ==
  /\ \A amount \in Amounts : amount \in Nat /\ amount > 0
  /\ MaxOpening \in Nat /\ MaxReservations \in Nat /\ MaxCredits \in Nat
  /\ IsFiniteSet(InternalKeys) /\ IsFiniteSet(ExternalKeys)
<1>1. \A amount \in Amounts : amount \in Nat /\ amount # 0
  BY FundsAssumption DEF Funds!AmountsPositive
<1>2. IsFiniteSet(InternalKeys) /\ IsFiniteSet(ExternalKeys)
  BY FundsAssumption, FiniteSetsOfInstances DEF Funds!KeysFinite
<1> QED BY <1>1, <1>2, FundsAssumption DEF Funds!BoundsNat

LEMMA Ranks == Rank("unfunded") = 1 /\ Rank("partially_funded") = 2 /\ Rank("fully_funded") = 3
<1>1. Funds!FundingStatuses[1] = "unfunded" /\ Funds!FundingStatuses[2] = "partially_funded" /\ Funds!FundingStatuses[3] = "fully_funded"
  BY DEF Funds!FundingStatuses
<1>2. \A n \in 1 .. 3 : n = 1 \/ n = 2 \/ n = 3
  OBVIOUS
<1>3. 1 \in 1 .. 3 /\ 2 \in 1 .. 3 /\ 3 \in 1 .. 3
  OBVIOUS
<1>4. "unfunded" # "partially_funded" /\ "unfunded" # "fully_funded" /\ "partially_funded" # "fully_funded"
  OBVIOUS
<1>5. Rank("unfunded") = 1
  BY <1>1, <1>2, <1>3, <1>4, Zenon DEF Rank
<1>6. Rank("partially_funded") = 2
  BY <1>1, <1>2, <1>3, <1>4, Zenon DEF Rank
<1>7. Rank("fully_funded") = 3
  BY <1>1, <1>2, <1>3, <1>4, Zenon DEF Rank
<1> QED BY <1>5, <1>6, <1>7

\* Less allocated shows no more funding.
LEMMA LessShowsLess ==
  ASSUME NEW funded \in Nat, NEW less \in Nat, less <= funded, NEW required \in Nat
  PROVE  Rank(Shown(less, required)) <= Rank(Shown(funded, required))
         /\ Rank(Shown(less, required)) \in Nat /\ Rank(Shown(funded, required)) \in Nat
BY Ranks DEF Shown

LEMMA Reservations ==
  ASSUME NEW list \in Seq(ReservationRows), NEW S, S \subseteq DOMAIN list
  PROVE  IsFiniteSet(S) /\ AmountsOf(list, S) \in [S -> Nat] /\ Sum(AmountsOf(list, S)) \in Nat
<1>1. IsFiniteSet(DOMAIN list)
  <2>1. 1 \in Int /\ Len(list) \in Int /\ DOMAIN list = 1 .. Len(list)
    OBVIOUS
  <2> QED BY <2>1, FS_Interval
<1>2. IsFiniteSet(S)
  BY <1>1, FS_Subset
<1>3. ASSUME NEW n \in S PROVE list[n].amount \in Nat
  <2>1. list[n] \in ReservationRows
    OBVIOUS
  <2> QED BY <2>1, FundsConstants DEF ReservationRows
<1>4. AmountsOf(list, S) \in [S -> Nat]
  BY <1>3 DEF AmountsOf
<1> QED BY <1>2, <1>4, UnitsFinite

LEMMA AllocatedNumbers ==
  ASSUME NEW list \in Seq(ReservationRows)
  PROVE  \A x, gone : AllocatedTo(list, x) \in Nat /\ HeldOn(list, gone, x) \in Nat
<1> SUFFICES ASSUME NEW x, NEW gone PROVE AllocatedTo(list, x) \in Nat /\ HeldOn(list, gone, x) \in Nat
  OBVIOUS
<1>1. Active(list, x) \subseteq DOMAIN list /\ Held(list, gone, x) \subseteq DOMAIN list
  BY DEF Active, Held
<1> QED BY <1>1, Reservations DEF AllocatedTo, HeldOn

\* One reservation more.
LEMMA OneMoreReservation ==
  ASSUME NEW list \in Seq(ReservationRows), NEW next \in Seq(ReservationRows), NEW S, S \subseteq DOMAIN list,
         NEW n \in DOMAIN next, n \notin S, S \subseteq DOMAIN next, \A m \in S : next[m] = list[m]
  PROVE  Sum(AmountsOf(next, S \cup {n})) = Sum(AmountsOf(list, S)) + next[n].amount
<1>1. PICK more : more = S \cup {n}
  OBVIOUS
<1>2. PICK f : f = AmountsOf(list, S)
  OBVIOUS
<1>3. PICK g : g = AmountsOf(next, more)
  OBVIOUS
<1>4. IsFiniteSet(S) /\ f \in [S -> Nat]
  BY <1>2, Reservations
<1>5. more \subseteq DOMAIN next
  BY <1>1
<1>6. g \in [more -> Nat]
  BY <1>3, <1>5, Reservations
<1>7. g[n] = next[n].amount /\ \A m \in S : g[m] = f[m]
  BY <1>1, <1>2, <1>3 DEF AmountsOf
<1>8. Sum(g) = Sum(f) + g[n]
  <2>1. DOMAIN f = S /\ DOMAIN g = more
    BY <1>4, <1>6
  <2>2. IsFiniteSet(DOMAIN f) /\ f \in [DOMAIN f -> Nat] /\ g \in [DOMAIN g -> Nat]
    BY <1>4, <1>6, <2>1
  <2>3. n \notin DOMAIN f /\ DOMAIN g = DOMAIN f \cup {n} /\ \A m \in DOMAIN f : g[m] = f[m]
    BY <1>1, <1>7, <2>1
  <2> QED BY ONLY <2>2, <2>3, OneMoreAdds
<1> QED BY <1>1, <1>2, <1>3, <1>7, <1>8

LEMMA SameReservations ==
  ASSUME NEW list, NEW next, NEW S, \A m \in S : next[m] = list[m]
  PROVE  Sum(AmountsOf(next, S)) = Sum(AmountsOf(list, S))
<1>1. AmountsOf(next, S) = AmountsOf(list, S)
  BY DEF AmountsOf
<1> QED BY <1>1

\* What the payments of an account come to.
LEMMA PaymentsOf ==
  ASSUME NEW map \in [InternalKeys -> {Funds!None} \cup PaymentRows], NEW a
  PROVE  /\ IsFiniteSet(DOMAIN Settled(map, a)) /\ Settled(map, a) \in [DOMAIN Settled(map, a) -> Nat]
         /\ Sum(Settled(map, a)) \in Nat
<1>1. PICK S : S = DOMAIN Settled(map, a)
  OBVIOUS
<1>2. S \subseteq InternalKeys /\ \A k \in S : map[k].status = "settled"
  BY <1>1 DEF Settled
<1>3. IsFiniteSet(S)
  BY <1>2, FundsConstants, FS_Subset
<1>4. ASSUME NEW k \in S PROVE map[k].amount \in Nat
  <2>1. map[k] \in PaymentRows
    BY <1>2 DEF Funds!None
  <2> QED BY <2>1, FundsConstants DEF PaymentRows
<1>5. Settled(map, a) \in [S -> Nat]
  BY <1>1, <1>4 DEF Settled
<1> QED BY <1>1, <1>3, <1>5, UnitsFinite

LEMMA ExternalPaymentsOf ==
  ASSUME NEW map \in [ExternalKeys -> {Funds!None} \cup ExternalRows], NEW a
  PROVE  /\ IsFiniteSet(DOMAIN Spent(map, a)) /\ Spent(map, a) \in [DOMAIN Spent(map, a) -> Nat]
         /\ Sum(Spent(map, a)) \in Nat
<1>1. PICK S : S = DOMAIN Spent(map, a)
  OBVIOUS
<1>2. S \subseteq ExternalKeys /\ \A k \in S : map[k] # Funds!None
  BY <1>1 DEF Spent
<1>3. IsFiniteSet(S)
  BY <1>2, FundsConstants, FS_Subset
<1>4. ASSUME NEW k \in S PROVE map[k].amount + map[k].fee \in Nat
  <2>1. map[k] \in ExternalRows
    BY <1>2
  <2>2. map[k].amount \in Nat /\ map[k].fee \in Nat
    BY <2>1, FundsConstants DEF ExternalRows
  <2> QED BY <2>2
<1>5. Spent(map, a) \in [S -> Nat]
  BY <1>1, <1>4 DEF Spent
<1> QED BY <1>1, <1>3, <1>5, UnitsFinite

LEMMA PaidNumbers ==
  ASSUME FundsTypes, NEW a \in Accounts
  PROVE  /\ balance[a].reserved \in Nat /\ balance[a].available \in Nat /\ balance[a].suspense \in Nat
         /\ Sum(Settled(payment, a)) \in Nat /\ Sum(Spent(external, a)) \in Nat /\ HeldOn(reservation, refused, a) \in Nat
<1>1. balance[a].reserved \in Nat /\ balance[a].available \in Nat /\ balance[a].suspense \in Nat
  BY DEF FundsTypes, BalanceRows
<1>2. Sum(Settled(payment, a)) \in Nat
  BY PaymentsOf DEF FundsTypes
<1>3. Sum(Spent(external, a)) \in Nat
  BY ExternalPaymentsOf DEF FundsTypes
<1>4. HeldOn(reservation, refused, a) \in Nat
  BY AllocatedNumbers DEF FundsTypes
<1> QED BY <1>1, <1>2, <1>3, <1>4

\* The names of the instance.
LEMMA FundsAgree ==
  /\ \A list, o : Funds!Allocated(list, o) = AllocatedTo(list, o)
  /\ \A list, o : Funds!Funding(list, o) = Shown(AllocatedTo(list, o), obligation[o].required)
<1>1. \A list, o : Funds!Allocated(list, o) = AllocatedTo(list, o)
  BY FundsSums DEF Funds!Allocated, AllocatedTo, Active, AmountsOf
<1> QED BY <1>1 DEF Funds!Funding, Shown

LEMMA FundsInit == Funds!Init => FundsInv
<1> SUFFICES ASSUME Funds!Init PROVE FundsInv
  OBVIOUS
<1>1. reservation = <<>> /\ DOMAIN reservation = {} /\ refused = {}
  BY DEF Funds!Init
<1>2. FundsTypes
  <2>1. Funds!Zero \in BalanceRows /\ Funds!Zero.reserved = 0
    BY DEF Funds!Zero, BalanceRows
  <2>2. 0 \in 0 .. MaxOpening /\ 0 \in 0 .. MaxCredits
    BY FundsConstants
  <2>3. reservation \in Seq(ReservationRows) /\ Len(reservation) <= MaxReservations
    BY <1>1, FundsConstants
  <2> QED BY <1>1, <2>1, <2>2, <2>3 DEF Funds!Init, FundsTypes
<1>3. ReservationsAreApproved
  BY <1>1 DEF ReservationsAreApproved
<1>4. FundingFits
  BY DEF FundingFits, Funds!Init
<1>5. PaidFor
  <2> SUFFICES ASSUME NEW a \in Accounts
               PROVE  balance[a].reserved + Sum(Settled(payment, a)) + Sum(Spent(external, a)) <= HeldOn(reservation, refused, a)
    BY DEF PaidFor
  <2>1. balance[a].reserved = 0
    BY DEF Funds!Init, Funds!Zero
  <2>2. DOMAIN Settled(payment, a) = {}
    BY DEF Settled, Funds!Init, Funds!None
  <2>3. DOMAIN Spent(external, a) = {}
    BY DEF Spent, Funds!Init
  <2>4. Sum(Settled(payment, a)) = 0 /\ Sum(Spent(external, a)) = 0
    BY <2>2, <2>3, SumOfNone
  <2>5. HeldOn(reservation, refused, a) \in Nat
    BY <1>2, PaidNumbers
  <2> QED BY <2>1, <2>4, <2>5
<1> QED BY <1>2, <1>3, <1>4, <1>5 DEF FundsInv

\* Nothing more is reserved, and nothing is paid.
LEMMA BalancesMove ==
  ASSUME FundsInv, FundsTypes', UNCHANGED <<obligation, reservation, refused>>,
         \A a \in Accounts : /\ balance'[a].reserved <= balance[a].reserved
                             /\ Settled(payment', a) = Settled(payment, a) /\ Spent(external', a) = Spent(external, a)
  PROVE  FundsInv'
<1>1. ReservationsAreApproved' /\ FundingFits'
  BY DEF FundsInv, ReservationsAreApproved, FundingFits
<1>2. ASSUME NEW a \in Accounts
      PROVE  balance'[a].reserved + Sum(Settled(payment', a)) + Sum(Spent(external', a)) <= HeldOn(reservation, refused, a)
  <2>1. /\ balance[a].reserved \in Nat /\ Sum(Settled(payment, a)) \in Nat /\ Sum(Spent(external, a)) \in Nat
        /\ HeldOn(reservation, refused, a) \in Nat
    BY PaidNumbers DEF FundsInv
  <2>2. balance'[a].reserved \in Nat
    BY DEF FundsTypes, BalanceRows
  <2>3. balance[a].reserved + Sum(Settled(payment, a)) + Sum(Spent(external, a)) <= HeldOn(reservation, refused, a)
    BY DEF FundsInv, PaidFor
  <2>4. balance'[a].reserved <= balance[a].reserved
    OBVIOUS
  <2>5. Sum(Settled(payment', a)) = Sum(Settled(payment, a)) /\ Sum(Spent(external', a)) = Sum(Spent(external, a))
    OBVIOUS
  <2> QED BY <2>1, <2>2, <2>3, <2>4, <2>5
<1>3. PaidFor'
  BY <1>2 DEF PaidFor
<1> QED BY <1>1, <1>3 DEF FundsInv

LEMMA PostKeeps ==
  ASSUME FundsInv, NEW a \in Accounts, NEW amount \in Amounts, Funds!Post(a, amount)
  PROVE  FundsInv'
<1>1. /\ opening' = [opening EXCEPT ![a] = @ + amount] /\ opening[a] + amount <= MaxOpening
      /\ UNCHANGED <<balance, obligation, reservation, refused, event, deposit, credits, payment, external, redemption>>
  BY DEF Funds!Post, Funds!records, Funds!inbox, Funds!orders
<1>2. opening[a] + amount \in 0 .. MaxOpening
  BY <1>1, FundsConstants DEF FundsInv, FundsTypes
<1>3. FundsTypes'
  BY <1>1, <1>2 DEF FundsInv, FundsTypes
<1>4. \A b \in Accounts : balance[b].reserved <= balance[b].reserved
  BY PaidNumbers DEF FundsInv
<1> QED BY <1>1, <1>3, <1>4, BalancesMove

LEMMA ProjectKeeps ==
  ASSUME FundsInv, NEW a \in Accounts, Funds!Project(a)
  PROVE  FundsInv'
<1>1. PICK row : row = [Funds!Zero EXCEPT !.available = opening[a]]
  OBVIOUS
<1>2. row \in BalanceRows /\ row.reserved = 0
  <2>1. opening[a] \in Nat
    BY FundsConstants DEF FundsInv, FundsTypes
  <2> QED BY <1>1, <2>1 DEF Funds!Zero, BalanceRows
<1>3. /\ balance' = [balance EXCEPT ![a] = row]
      /\ UNCHANGED <<opening, obligation, reservation, refused, event, deposit, credits, payment, external, redemption>>
  BY <1>1 DEF Funds!Project, Funds!records, Funds!inbox, Funds!orders
<1>4. FundsTypes'
  BY <1>2, <1>3 DEF FundsInv, FundsTypes
<1>5. ASSUME NEW b \in Accounts PROVE balance'[b].reserved <= balance[b].reserved
  <2>1. balance[b].reserved \in Nat /\ balance'[b] = IF b = a THEN row ELSE balance[b]
    BY <1>3, PaidNumbers DEF FundsInv, FundsTypes
  <2> QED BY <1>2, <2>1
<1> QED BY <1>3, <1>4, <1>5, BalancesMove

\* Obligations change that have no reservations.
LEMMA ObligationsMove ==
  ASSUME FundsInv, NEW o \in Obligations, obligation[o].status \in {"none", "draft"},
         NEW row \in ObligationRows, obligation' = [obligation EXCEPT ![o] = row], row.funding = "unfunded",
         UNCHANGED <<opening, balance, reservation, refused, event, credits, payment, external>>
  PROVE  FundsInv'
<1>1. FundsTypes'
  BY DEF FundsInv, FundsTypes
<1>2. obligation'[o] = row /\ \A p \in Obligations \ {o} : obligation'[p] = obligation[p]
  BY DEF FundsInv, FundsTypes
<1>3. \A n \in DOMAIN reservation : reservation[n].obligation \in Obligations \ {o}
  <2> SUFFICES ASSUME NEW n \in DOMAIN reservation PROVE reservation[n].obligation \in Obligations \ {o}
    OBVIOUS
  <2>1. reservation[n] \in ReservationRows
    BY DEF FundsInv, FundsTypes
  <2>2. obligation[reservation[n].obligation].status \notin {"none", "draft"}
    BY DEF FundsInv, ReservationsAreApproved
  <2> QED BY <2>1, <2>2 DEF ReservationRows
<1>4. ReservationsAreApproved'
  BY <1>2, <1>3 DEF FundsInv, ReservationsAreApproved
<1>5. AllocatedTo(reservation, o) = 0
  <2>1. Active(reservation, o) = {}
    BY <1>3 DEF Active
  <2>2. DOMAIN AmountsOf(reservation, Active(reservation, o)) = {}
    BY <2>1 DEF AmountsOf
  <2> QED BY <2>2, SumOfNone DEF AllocatedTo
<1>6. FundingFits'
  <2> SUFFICES ASSUME NEW p \in Obligations, obligation'[p] # Funds!None
               PROVE  /\ AllocatedTo(reservation, p) <= obligation'[p].required
                      /\ Rank(Shown(AllocatedTo(reservation, p), obligation'[p].required)) <= Rank(obligation'[p].funding)
                      /\ (\A n \in refused : reservation[n].obligation # p) =>
                           obligation'[p].funding = Shown(AllocatedTo(reservation, p), obligation'[p].required)
    BY DEF FundingFits
  <2>1. CASE p = o
    <3>1. Shown(0, row.required) = "unfunded"
      BY DEF Shown
    <3>2. row.required \in Nat
      BY DEF ObligationRows
    <3> QED BY <1>2, <1>5, <2>1, <3>1, <3>2, Ranks
  <2>2. CASE p # o
    BY <1>2, <2>2 DEF FundsInv, FundingFits
  <2> QED BY <2>1, <2>2
<1>7. PaidFor'
  BY DEF FundsInv, PaidFor
<1> QED BY <1>1, <1>4, <1>6, <1>7 DEF FundsInv

LEMMA CreateKeeps ==
  ASSUME FundsInv, NEW o \in Obligations, NEW amount \in Amounts, NEW disputed \in {0, 1},
         Funds!CreateTradePayable(o, amount, disputed)
  PROVE  FundsInv'
<1>1. PICK row : row = [status |-> "draft", required |-> amount - disputed, funding |-> "unfunded"]
  OBVIOUS
<1>2. row \in ObligationRows /\ row.funding = "unfunded"
  <2>1. amount - disputed \in Nat
    BY FundsConstants DEF Funds!CreateTradePayable
  <2> QED BY <1>1, <2>1 DEF ObligationRows
<1>3. /\ obligation[o] = Funds!None /\ obligation' = [obligation EXCEPT ![o] = row]
      /\ UNCHANGED <<opening, balance, reservation, refused, event, credits, payment, external>>
  BY <1>1 DEF Funds!CreateTradePayable, Funds!inbox, Funds!orders
<1>4. obligation[o].status \in {"none", "draft"}
  BY <1>3 DEF Funds!None
<1> QED BY <1>2, <1>3, <1>4, ObligationsMove

LEMMA ApproveObligationKeeps ==
  ASSUME FundsInv, NEW o \in Obligations, Funds!ApproveObligation(o)
  PROVE  FundsInv'
<1>1. obligation[o].status = "draft"
  BY DEF Funds!ApproveObligation
<1>2. PICK due \in ObligationRows : due = obligation[o]
  BY <1>1 DEF FundsInv, FundsTypes, Funds!None
<1>3. PICK row : row = [due EXCEPT !.status = "approved"]
  OBVIOUS
<1>4. row \in ObligationRows /\ row.funding = due.funding
  BY <1>3 DEF ObligationRows
<1>5. /\ obligation' = [obligation EXCEPT ![o] = row]
      /\ UNCHANGED <<opening, balance, reservation, refused, event, credits, payment, external>>
  BY <1>2, <1>3 DEF Funds!ApproveObligation, Funds!inbox, Funds!orders
<1>6. due.funding = "unfunded"
  <2>1. \A n \in DOMAIN reservation : reservation[n].obligation # o
    BY <1>1 DEF FundsInv, ReservationsAreApproved
  <2>2. Active(reservation, o) = {}
    BY <2>1 DEF Active
  <2>3. DOMAIN AmountsOf(reservation, Active(reservation, o)) = {}
    BY <2>2 DEF AmountsOf
  <2>4. AllocatedTo(reservation, o) = 0
    BY <2>3, SumOfNone DEF AllocatedTo
  <2>5. obligation[o] # Funds!None
    BY <1>1 DEF Funds!None
  <2>6. refused \subseteq DOMAIN reservation
    BY DEF FundsInv, FundsTypes
  <2>7. obligation[o].funding = Shown(AllocatedTo(reservation, o), obligation[o].required)
    BY <2>1, <2>5, <2>6 DEF FundsInv, FundingFits
  <2> QED BY <1>2, <2>4, <2>7 DEF Shown
<1> QED BY <1>1, <1>4, <1>5, <1>6, ObligationsMove

\* The reservations of one obligation change, and its funding follows them.
LEMMA RefreshedFits ==
  ASSUME FundsInv, NEW o \in Obligations, NEW next \in Seq(ReservationRows), reservation' = next, refused' = refused,
         obligation' = Funds!Refreshed(next, o), obligation[o].status \notin {"none", "draft"},
         AllocatedTo(next, o) <= obligation[o].required,
         \A p \in Obligations \ {o} : AllocatedTo(next, p) = AllocatedTo(reservation, p),
         \A n \in DOMAIN reservation : n \in DOMAIN next /\ next[n].obligation = reservation[n].obligation,
         \A n \in DOMAIN next \ DOMAIN reservation : next[n].obligation = o,
         \A n \in refused : next[n] = reservation[n]
  PROVE  /\ obligation' \in [Obligations -> {Funds!None} \cup ObligationRows]
         /\ ReservationsAreApproved' /\ FundingFits'
<1>1. PICK due \in ObligationRows : due = obligation[o]
  BY DEF FundsInv, FundsTypes, Funds!None
<1>2. PICK open \in Nat : open = AllocatedTo(next, o)
  BY AllocatedNumbers
<1>3. PICK shown : shown = Shown(open, due.required)
  OBVIOUS
<1>4. PICK row : row = [due EXCEPT !.funding = shown, !.status = IF shown = "unfunded" THEN "approved" ELSE shown]
  OBVIOUS
<1>5. shown \in {"unfunded", "partially_funded", "fully_funded"}
  BY <1>3 DEF Shown
<1>6. row \in ObligationRows /\ row.funding = shown /\ row.required = due.required /\ row.status \notin {"none", "draft"}
  BY <1>4, <1>5 DEF ObligationRows
<1>7. obligation' = [obligation EXCEPT ![o] = row]
  <2>1. Funds!Funding(next, o) = shown
    BY <1>1, <1>2, <1>3, FundsAgree
  <2>2. obligation' = [obligation EXCEPT ![o] =
                         [obligation[o] EXCEPT !.funding = shown, !.status = IF shown = "unfunded" THEN "approved" ELSE shown]]
    BY <2>1 DEF Funds!Refreshed, FundsInv, FundsTypes
  <2> QED BY <1>1, <1>4, <2>2
<1>8. /\ obligation' \in [Obligations -> {Funds!None} \cup ObligationRows] /\ obligation'[o] = row
      /\ \A p \in Obligations \ {o} : obligation'[p] = obligation[p]
  BY <1>6, <1>7 DEF FundsInv, FundsTypes
<1>9. refused \subseteq DOMAIN reservation /\ reservation \in Seq(ReservationRows)
  BY DEF FundsInv, FundsTypes
<1>10. ASSUME NEW n \in DOMAIN next PROVE obligation'[next[n].obligation].status \notin {"none", "draft"}
  <2>1. next[n].obligation \in Obligations
    <3>1. next[n] \in ReservationRows
      OBVIOUS
    <3> QED BY <3>1 DEF ReservationRows
  <2>2. CASE next[n].obligation = o
    BY <1>6, <1>8, <2>2
  <2>3. CASE next[n].obligation # o
    <3>1. n \in DOMAIN reservation
      BY <2>3
    <3> QED BY <1>8, <2>1, <2>3, <3>1 DEF FundsInv, ReservationsAreApproved
  <2> QED BY <2>2, <2>3
<1>11. ReservationsAreApproved'
  BY <1>10 DEF FundsInv, ReservationsAreApproved
<1>12. FundingFits'
  <2> SUFFICES ASSUME NEW p \in Obligations, obligation'[p] # Funds!None
               PROVE  /\ AllocatedTo(next, p) <= obligation'[p].required
                      /\ Rank(Shown(AllocatedTo(next, p), obligation'[p].required)) <= Rank(obligation'[p].funding)
                      /\ (\A n \in refused : next[n].obligation # p) =>
                           obligation'[p].funding = Shown(AllocatedTo(next, p), obligation'[p].required)
    BY DEF FundingFits
  <2>1. CASE p = o
    <3>1. Rank(shown) <= Rank(shown)
      BY <1>5, Ranks
    <3> QED BY <1>1, <1>2, <1>3, <1>6, <1>8, <2>1, <3>1
  <2>2. CASE p # o
    <3>1. obligation'[p] = obligation[p] /\ AllocatedTo(next, p) = AllocatedTo(reservation, p)
      BY <1>8, <2>2
    <3>2. (\A n \in refused : next[n].obligation # p) => \A n \in refused : reservation[n].obligation # p
      OBVIOUS
    <3> QED BY <3>1, <3>2 DEF FundsInv, FundingFits
  <2> QED BY <2>1, <2>2
<1> QED BY <1>8, <1>11, <1>12

LEMMA ActivateKeeps ==
  ASSUME FundsInv, NEW o \in Obligations, NEW a \in Accounts, NEW amount \in Amounts,
         Funds!ActivateReservation(o, a, amount)
  PROVE  FundsInv'
<1>1. PICK list \in Seq(ReservationRows) : list = reservation
  BY DEF FundsInv, FundsTypes
<1>2. PICK length \in Nat : length = Len(list)
  OBVIOUS
<1>3. PICK new : new = [obligation |-> o, account |-> a, amount |-> amount, status |-> "active"]
  OBVIOUS
<1>4. /\ new \in ReservationRows /\ new.obligation = o /\ new.account = a /\ new.amount = amount /\ new.status = "active"
  BY <1>3 DEF ReservationRows
<1>5. PICK next : next = Append(list, new)
  OBVIOUS
<1>6. /\ next \in Seq(ReservationRows) /\ Len(next) = length + 1
      /\ DOMAIN list = 1 .. length /\ DOMAIN next = 1 .. length + 1
      /\ next[length + 1] = new /\ \A n \in 1 .. length : next[n] = list[n]
  BY <1>2, <1>4, <1>5
<1>7. length + 1 \notin DOMAIN list /\ DOMAIN next = DOMAIN list \cup {length + 1} /\ \A n \in DOMAIN list : next[n] = list[n]
  BY <1>6
<1>8. /\ length < MaxReservations /\ obligation[o].status \notin {"none", "draft"}
      /\ amount <= Funds!Reservable(o) /\ amount <= balance[a].available
      /\ reservation' = next /\ obligation' = Funds!Refreshed(next, o)
      /\ balance' = [balance EXCEPT ![a].available = @ - amount, ![a].reserved = @ + amount]
      /\ UNCHANGED <<opening, refused, event, credits, payment, external>>
  BY <1>1, <1>2, <1>3, <1>5 DEF Funds!ActivateReservation, Funds!inbox, Funds!orders
<1>9. amount \in Nat /\ amount > 0 /\ MaxReservations \in Nat
  BY FundsConstants
<1>10. PICK open \in Nat : open = AllocatedTo(list, o)
  BY AllocatedNumbers
<1>11. AllocatedTo(next, o) = open + amount
  <2>1. Active(next, o) = Active(list, o) \cup {length + 1}
    BY <1>4, <1>6, <1>7 DEF Active
  <2>2. Active(list, o) \subseteq DOMAIN list
    BY DEF Active
  <2>3. length + 1 \in DOMAIN next /\ length + 1 \notin Active(list, o) /\ Active(list, o) \subseteq DOMAIN next
    BY <1>7, <2>2
  <2>4. \A m \in Active(list, o) : next[m] = list[m]
    BY <1>7, <2>2
  <2>5. Sum(AmountsOf(next, Active(list, o) \cup {length + 1})) = Sum(AmountsOf(list, Active(list, o))) + next[length + 1].amount
    BY <1>6, <2>2, <2>3, <2>4, OneMoreReservation
  <2> QED BY <1>4, <1>6, <1>10, <2>1, <2>5 DEF AllocatedTo
<1>12. open + amount <= obligation[o].required
  <2>1. obligation[o].required \in Nat
    <3>1. obligation[o] \in ObligationRows
      BY <1>8 DEF FundsInv, FundsTypes, Funds!None
    <3> QED BY <3>1 DEF ObligationRows
  <2>2. Funds!Reservable(o) = IF obligation[o].required > open THEN obligation[o].required - open ELSE 0
    BY <1>1, <1>10, FundsAgree DEF Funds!Reservable
  <2> QED BY <1>8, <1>9, <2>1, <2>2
<1>13. ASSUME NEW p \in Obligations \ {o} PROVE AllocatedTo(next, p) = AllocatedTo(reservation, p)
  <2>1. Active(next, p) = Active(list, p)
    BY <1>4, <1>6, <1>7 DEF Active
  <2>2. \A m \in Active(list, p) : next[m] = list[m]
    BY <1>7 DEF Active
  <2>3. Sum(AmountsOf(next, Active(list, p))) = Sum(AmountsOf(list, Active(list, p)))
    BY <2>2, SameReservations
  <2> QED BY <1>1, <2>1, <2>3 DEF AllocatedTo
<1>14. refused \subseteq DOMAIN list
  BY <1>1 DEF FundsInv, FundsTypes
<1>15. /\ obligation' \in [Obligations -> {Funds!None} \cup ObligationRows]
       /\ ReservationsAreApproved' /\ FundingFits'
  <2>1. \A n \in DOMAIN reservation : n \in DOMAIN next /\ next[n].obligation = reservation[n].obligation
    BY <1>1, <1>7
  <2>2. \A n \in DOMAIN next \ DOMAIN reservation : next[n].obligation = o
    BY <1>1, <1>4, <1>6, <1>7
  <2>3. \A n \in refused : next[n] = reservation[n]
    BY <1>1, <1>7, <1>14
  <2>4. AllocatedTo(next, o) <= obligation[o].required /\ refused' = refused
    BY <1>8, <1>11, <1>12
  <2> QED BY <1>6, <1>8, <1>13, <2>1, <2>2, <2>3, <2>4, RefreshedFits
<1>16. PICK had \in BalanceRows : had = balance[a]
  BY DEF FundsInv, FundsTypes
<1>17. PICK left : left = [had EXCEPT !.available = had.available - amount, !.reserved = had.reserved + amount]
  OBVIOUS
<1>18. left \in BalanceRows /\ left.reserved = had.reserved + amount
  <2>1. had.available - amount \in Nat /\ had.reserved + amount \in Nat
    BY <1>8, <1>9, <1>16 DEF BalanceRows
  <2> QED BY <1>17, <2>1 DEF BalanceRows
<1>19. balance' = [balance EXCEPT ![a] = left]
  BY <1>8, <1>16, <1>17 DEF FundsInv, FundsTypes
<1>20. FundsTypes'
  <2>1. Len(next) <= MaxReservations /\ refused \subseteq DOMAIN next
    BY <1>2, <1>6, <1>7, <1>8, <1>9, <1>14
  <2> QED BY <1>6, <1>8, <1>15, <1>18, <1>19, <2>1 DEF FundsInv, FundsTypes
<1>21. ASSUME NEW b \in Accounts
       PROVE  balance'[b].reserved + Sum(Settled(payment, b)) + Sum(Spent(external, b)) <= HeldOn(next, refused, b)
  <2>1. balance[b].reserved + Sum(Settled(payment, b)) + Sum(Spent(external, b)) <= HeldOn(list, refused, b)
    BY <1>1 DEF FundsInv, PaidFor
  <2>2. /\ balance[b].reserved \in Nat /\ Sum(Settled(payment, b)) \in Nat /\ Sum(Spent(external, b)) \in Nat
        /\ HeldOn(list, refused, b) \in Nat
    BY <1>1, PaidNumbers DEF FundsInv
  <2>3. Held(list, refused, b) \subseteq DOMAIN list /\ \A m \in Held(list, refused, b) : next[m] = list[m]
    BY <1>7 DEF Held
  <2>4. CASE b = a
    <3>1. Held(next, refused, b) = Held(list, refused, b) \cup {length + 1}
      BY <1>4, <1>6, <1>7, <1>14, <2>4 DEF Held
    <3>2. /\ length + 1 \in DOMAIN next /\ length + 1 \notin Held(list, refused, b)
          /\ Held(list, refused, b) \subseteq DOMAIN next
      BY <1>7, <2>3
    <3>3. Sum(AmountsOf(next, Held(list, refused, b) \cup {length + 1}))
            = Sum(AmountsOf(list, Held(list, refused, b))) + next[length + 1].amount
      BY <1>6, <2>3, <3>2, OneMoreReservation
    <3>4. HeldOn(next, refused, b) = HeldOn(list, refused, b) + amount
      BY <1>4, <1>6, <3>1, <3>3 DEF HeldOn
    <3>5. balance'[b].reserved = balance[b].reserved + amount
      BY <1>16, <1>18, <1>19, <2>4 DEF FundsInv, FundsTypes
    <3> QED BY <1>9, <2>1, <2>2, <3>4, <3>5
  <2>5. CASE b # a
    <3>1. Held(next, refused, b) = Held(list, refused, b)
      BY <1>4, <1>6, <1>7, <1>14, <2>5 DEF Held
    <3>2. HeldOn(next, refused, b) = HeldOn(list, refused, b)
      BY <2>3, <3>1, SameReservations DEF HeldOn
    <3>3. balance'[b] = balance[b]
      BY <1>19, <2>5 DEF FundsInv, FundsTypes
    <3> QED BY <2>1, <3>2, <3>3
  <2> QED BY <2>4, <2>5
<1>22. PaidFor'
  BY <1>8, <1>21 DEF PaidFor
<1> QED BY <1>15, <1>20, <1>22 DEF FundsInv

\* One active reservation of a list ends.
LEMMA ReservationEnds ==
  ASSUME NEW list \in Seq(ReservationRows), NEW next \in Seq(ReservationRows), DOMAIN next = DOMAIN list,
         NEW n \in DOMAIN list, \A m \in DOMAIN list \ {n} : next[m] = list[m],
         list[n].status = "active", next[n].status # "active", NEW o, list[n].obligation = o, next[n].obligation = o
  PROVE  /\ AllocatedTo(list, o) = AllocatedTo(next, o) + list[n].amount
         /\ \A p : p # o => AllocatedTo(next, p) = AllocatedTo(list, p)
<1>1. AllocatedTo(list, o) = AllocatedTo(next, o) + list[n].amount
  <2>1. PICK S : S = Active(next, o)
    OBVIOUS
  <2>2. S \subseteq DOMAIN next /\ n \notin S
    BY <2>1 DEF Active
  <2>3. Active(list, o) = S \cup {n}
    BY <2>1 DEF Active
  <2>4. S \subseteq DOMAIN list /\ \A m \in S : list[m] = next[m]
    BY <2>2
  <2>5. Sum(AmountsOf(list, S \cup {n})) = Sum(AmountsOf(next, S)) + list[n].amount
    BY <2>2, <2>4, OneMoreReservation
  <2> QED BY <2>1, <2>3, <2>5 DEF AllocatedTo
<1>2. ASSUME NEW p, p # o PROVE AllocatedTo(next, p) = AllocatedTo(list, p)
  <2>1. PICK S : S = Active(next, p)
    OBVIOUS
  <2>2. Active(list, p) = S /\ \A m \in S : next[m] = list[m]
    BY <1>2, <2>1 DEF Active
  <2>3. Sum(AmountsOf(next, S)) = Sum(AmountsOf(list, S))
    BY <2>2, SameReservations
  <2> QED BY <2>1, <2>2, <2>3 DEF AllocatedTo
<1> QED BY <1>1, <1>2

\* A release that succeeds: what the reservation held is given back.
LEMMA GivingBackKeeps ==
  ASSUME FundsInv, NEW n \in DOMAIN reservation, NEW status \in {"released", "expired", "cancelled"},
         Funds!EndReservation(n, status), reservation[n].amount <= balance[reservation[n].account].reserved
  PROVE  FundsInv'
<1>1. PICK list \in Seq(ReservationRows) : list = reservation
  BY DEF FundsInv, FundsTypes
<1>2. PICK old \in ReservationRows : old = list[n]
  BY <1>1
<1>3. PICK new : new = [old EXCEPT !.status = status]
  OBVIOUS
<1>4. /\ new \in ReservationRows /\ new.status = status /\ new.obligation = old.obligation
      /\ new.account = old.account /\ new.amount = old.amount
  BY <1>3 DEF ReservationRows
<1>5. PICK next : next = [list EXCEPT ![n] = new]
  OBVIOUS
<1>6. PICK o \in Obligations : o = old.obligation
  BY DEF ReservationRows
<1>7. PICK a \in Accounts : a = old.account
  BY DEF ReservationRows
<1>8. PICK amount \in Nat : amount = old.amount
  BY FundsConstants DEF ReservationRows
<1>9. /\ old.status = "active" /\ reservation' = next /\ obligation' = Funds!Refreshed(next, o)
      /\ balance' = [balance EXCEPT ![a].available = @ + amount, ![a].reserved = @ - amount]
      /\ UNCHANGED <<opening, refused, event, credits, payment, external>>
  BY <1>1, <1>2, <1>3, <1>5, <1>6, <1>7, <1>8
     DEF Funds!EndReservation, Funds!GivenBack, Funds!inbox, Funds!orders
<1>10. /\ next \in Seq(ReservationRows) /\ Len(next) = Len(list) /\ DOMAIN next = DOMAIN list
       /\ next[n] = new /\ \A m \in DOMAIN list \ {n} : next[m] = list[m]
       /\ AllocatedTo(list, o) = AllocatedTo(next, o) + amount
       /\ \A p : p # o => AllocatedTo(next, p) = AllocatedTo(list, p)
  <2>1. /\ list \in Seq(ReservationRows) /\ next \in Seq(ReservationRows)
        /\ Len(next) = Len(list) /\ DOMAIN next = DOMAIN list /\ next[n] = new /\ n \in DOMAIN list /\ \A m \in DOMAIN list \ {n} : next[m] = list[m]
    BY <1>1, <1>4, <1>5
  <2>2. list[n].status = "active" /\ next[n].status # "active" /\ list[n].obligation = o /\ next[n].obligation = o
    BY <1>2, <1>4, <1>6, <1>9, <2>1
  <2>3. /\ AllocatedTo(list, o) = AllocatedTo(next, o) + list[n].amount
        /\ \A p : p # o => AllocatedTo(next, p) = AllocatedTo(list, p)
    BY ONLY <2>1, <2>2, ReservationEnds
  <2> QED BY <1>2, <1>8, <2>1, <2>3
<1>11. refused \subseteq DOMAIN list /\ n \notin refused
  BY <1>1, <1>2, <1>9 DEF FundsInv, FundsTypes, ReservationsAreApproved
<1>12. /\ obligation' \in [Obligations -> {Funds!None} \cup ObligationRows]
       /\ ReservationsAreApproved' /\ FundingFits'
  <2>1. obligation[o].status \notin {"none", "draft"}
    BY <1>1, <1>2, <1>6 DEF FundsInv, ReservationsAreApproved
  <2>2. AllocatedTo(next, o) <= obligation[o].required
    <3>1. AllocatedTo(next, o) \in Nat
      BY <1>10, AllocatedNumbers
    <3>2. obligation[o] \in ObligationRows /\ obligation[o] # Funds!None
      BY <2>1 DEF FundsInv, FundsTypes, Funds!None
    <3>3. obligation[o].required \in Nat
      BY <3>2 DEF ObligationRows
    <3>4. AllocatedTo(list, o) <= obligation[o].required
      BY <1>1, <3>2 DEF FundsInv, FundingFits
    <3> QED BY <1>10, <3>1, <3>3, <3>4
  <2>3. \A m \in DOMAIN reservation : m \in DOMAIN next /\ next[m].obligation = reservation[m].obligation
    BY <1>1, <1>2, <1>4, <1>10
  <2>4. \A m \in DOMAIN next \ DOMAIN reservation : next[m].obligation = o
    BY <1>1, <1>10
  <2>5. \A m \in refused : next[m] = reservation[m]
    BY <1>1, <1>10, <1>11
  <2>6. \A p \in Obligations \ {o} : AllocatedTo(next, p) = AllocatedTo(reservation, p)
    BY <1>1, <1>10
  <2>7. next \in Seq(ReservationRows) /\ reservation' = next /\ refused' = refused /\ obligation' = Funds!Refreshed(next, o)
    BY <1>9, <1>10
  <2> QED BY <2>1, <2>2, <2>3, <2>4, <2>5, <2>6, <2>7, RefreshedFits
<1>13. PICK had \in BalanceRows : had = balance[a]
  BY DEF FundsInv, FundsTypes
<1>14. PICK left : left = [had EXCEPT !.available = had.available + amount, !.reserved = had.reserved - amount]
  OBVIOUS
<1>15. left \in BalanceRows /\ left.reserved = had.reserved - amount
  <2>1. amount <= had.reserved
    BY <1>1, <1>2, <1>7, <1>8, <1>13
  <2>2. had.available + amount \in Nat /\ had.reserved - amount \in Nat
    BY <2>1 DEF BalanceRows
  <2> QED BY <1>14, <2>2 DEF BalanceRows
<1>16. balance' = [balance EXCEPT ![a] = left]
  BY <1>9, <1>13, <1>14 DEF FundsInv, FundsTypes
<1>17. FundsTypes'
  BY <1>1, <1>9, <1>10, <1>12, <1>15, <1>16 DEF FundsInv, FundsTypes
<1>18. ASSUME NEW b \in Accounts
       PROVE  balance'[b].reserved + Sum(Settled(payment, b)) + Sum(Spent(external, b)) <= HeldOn(next, refused, b)
  <2>1. balance[b].reserved + Sum(Settled(payment, b)) + Sum(Spent(external, b)) <= HeldOn(list, refused, b)
    BY <1>1 DEF FundsInv, PaidFor
  <2>2. /\ balance[b].reserved \in Nat /\ Sum(Settled(payment, b)) \in Nat /\ Sum(Spent(external, b)) \in Nat
        /\ HeldOn(next, refused, b) \in Nat
    BY <1>10, PaidNumbers, AllocatedNumbers DEF FundsInv
  <2>3. PICK S : S = Held(next, refused, b)
    OBVIOUS
  <2>4. S \subseteq DOMAIN next /\ n \notin S
    BY <1>4, <1>10, <1>11, <2>3 DEF Held
  <2>5. \A m \in S : list[m] = next[m]
    BY <1>10, <2>4
  <2>6. CASE b = a
    <3>1. Held(list, refused, b) = S \cup {n}
      BY <1>1, <1>2, <1>4, <1>7, <1>9, <1>10, <1>11, <2>3, <2>6 DEF Held
    <3>2. S \subseteq DOMAIN list /\ n \in DOMAIN list
      BY <1>1, <1>10, <2>4
    <3>3. Sum(AmountsOf(list, S \cup {n})) = Sum(AmountsOf(next, S)) + list[n].amount
      BY <1>10, <2>4, <2>5, <3>2, OneMoreReservation
    <3>4. HeldOn(list, refused, b) = HeldOn(next, refused, b) + amount
      BY <1>2, <1>8, <2>3, <3>1, <3>3 DEF HeldOn
    <3>5. balance'[b].reserved = balance[b].reserved - amount
      BY <1>13, <1>15, <1>16, <2>6 DEF FundsInv, FundsTypes
    <3> QED BY <2>1, <2>2, <3>4, <3>5
  <2>7. CASE b # a
    <3>1. Held(list, refused, b) = S
      BY <1>2, <1>7, <1>10, <2>3, <2>4, <2>7 DEF Held
    <3>2. HeldOn(next, refused, b) = HeldOn(list, refused, b)
      BY <2>3, <2>5, <3>1, SameReservations DEF HeldOn
    <3>3. balance'[b] = balance[b]
      BY <1>16, <2>7 DEF FundsInv, FundsTypes
    <3> QED BY <2>1, <3>2, <3>3
  <2> QED BY <2>6, <2>7
<1>19. PaidFor'
  BY <1>9, <1>18 DEF PaidFor
<1> QED BY <1>12, <1>17, <1>19 DEF FundsInv

\* A release that throws: the reservation has ended, and nothing else happened.
LEMMA ThrowingKeeps ==
  ASSUME FundsInv, NEW n \in DOMAIN reservation, NEW status \in {"released", "expired", "cancelled"},
         Funds!EndReservation(n, status), ~(reservation[n].amount <= balance[reservation[n].account].reserved)
  PROVE  FundsInv'
<1>1. PICK list \in Seq(ReservationRows) : list = reservation
  BY DEF FundsInv, FundsTypes
<1>2. PICK old \in ReservationRows : old = list[n]
  BY <1>1
<1>3. PICK new : new = [old EXCEPT !.status = IF status = "cancelled" THEN "released" ELSE status]
  OBVIOUS
<1>4. /\ new \in ReservationRows /\ new.status \in {"released", "expired"} /\ new.obligation = old.obligation
      /\ new.account = old.account /\ new.amount = old.amount
  BY <1>3 DEF ReservationRows
<1>5. PICK next : next = [list EXCEPT ![n] = new]
  OBVIOUS
<1>6. PICK o \in Obligations : o = old.obligation
  BY DEF ReservationRows
<1>7. PICK amount \in Nat : amount = old.amount
  BY FundsConstants DEF ReservationRows
<1>8. PICK gone : gone = refused \cup {n}
  OBVIOUS
<1>9. /\ old.status = "active" /\ reservation' = next /\ refused' = gone
      /\ UNCHANGED <<opening, balance, obligation, event, credits, payment, external>>
  BY <1>1, <1>2, <1>3, <1>5, <1>8 DEF Funds!EndReservation, Funds!inbox, Funds!orders
<1>10. /\ next \in Seq(ReservationRows) /\ Len(next) = Len(list) /\ DOMAIN next = DOMAIN list
       /\ next[n] = new /\ \A m \in DOMAIN list \ {n} : next[m] = list[m]
       /\ AllocatedTo(list, o) = AllocatedTo(next, o) + amount
       /\ \A p : p # o => AllocatedTo(next, p) = AllocatedTo(list, p)
  <2>1. /\ list \in Seq(ReservationRows) /\ next \in Seq(ReservationRows)
        /\ Len(next) = Len(list) /\ DOMAIN next = DOMAIN list /\ next[n] = new /\ n \in DOMAIN list /\ \A m \in DOMAIN list \ {n} : next[m] = list[m]
    BY <1>1, <1>4, <1>5
  <2>2. list[n].status = "active" /\ next[n].status # "active" /\ list[n].obligation = o /\ next[n].obligation = o
    BY <1>2, <1>4, <1>6, <1>9, <2>1
  <2>3. /\ AllocatedTo(list, o) = AllocatedTo(next, o) + list[n].amount
        /\ \A p : p # o => AllocatedTo(next, p) = AllocatedTo(list, p)
    BY ONLY <2>1, <2>2, ReservationEnds
  <2> QED BY <1>2, <1>7, <2>1, <2>3
<1>11. refused \subseteq DOMAIN list /\ gone \subseteq DOMAIN next
  BY <1>1, <1>8, <1>10 DEF FundsInv, FundsTypes
<1>12. FundsTypes'
  BY <1>1, <1>9, <1>10, <1>11 DEF FundsInv, FundsTypes
<1>13. ReservationsAreApproved'
  <2>1. \A m \in DOMAIN next : next[m].obligation = list[m].obligation
    BY <1>2, <1>4, <1>10
  <2>2. \A m \in gone : next[m].status # "active"
    BY <1>1, <1>4, <1>8, <1>10, <1>11 DEF FundsInv, ReservationsAreApproved
  <2> QED BY <1>1, <1>9, <1>10, <2>1, <2>2 DEF FundsInv, ReservationsAreApproved
<1>14. FundingFits'
  <2> SUFFICES ASSUME NEW p \in Obligations, obligation[p] # Funds!None
               PROVE  /\ AllocatedTo(next, p) <= obligation[p].required
                      /\ Rank(Shown(AllocatedTo(next, p), obligation[p].required)) <= Rank(obligation[p].funding)
                      /\ (\A m \in gone : next[m].obligation # p) =>
                           obligation[p].funding = Shown(AllocatedTo(next, p), obligation[p].required)
    BY <1>9 DEF FundingFits
  <2>1. /\ AllocatedTo(list, p) <= obligation[p].required
        /\ Rank(Shown(AllocatedTo(list, p), obligation[p].required)) <= Rank(obligation[p].funding)
        /\ (\A m \in refused : list[m].obligation # p) =>
             obligation[p].funding = Shown(AllocatedTo(list, p), obligation[p].required)
    BY <1>1 DEF FundsInv, FundingFits
  <2>2. CASE p = o
    <3>1. PICK less \in Nat : less = AllocatedTo(next, p)
      BY <1>10, AllocatedNumbers
    <3>2. PICK funded \in Nat : funded = AllocatedTo(list, p)
      BY AllocatedNumbers
    <3>3. PICK due \in ObligationRows : due = obligation[p]
      BY DEF FundsInv, FundsTypes
    <3>4. PICK need \in Nat : need = due.required
      BY DEF ObligationRows
    <3>5. less <= funded
      BY <1>10, <2>2, <3>1, <3>2
    <3>6. Rank(due.funding) \in Nat
      BY Ranks DEF ObligationRows
    <3>7. /\ Rank(Shown(less, need)) <= Rank(Shown(funded, need))
          /\ Rank(Shown(less, need)) \in Nat /\ Rank(Shown(funded, need)) \in Nat
      BY <3>5, LessShowsLess
    <3>8. less <= need /\ Rank(Shown(less, need)) <= Rank(due.funding)
      BY <2>1, <3>2, <3>3, <3>4, <3>5, <3>6, <3>7
    <3>9. next[n].obligation = p /\ n \in gone
      BY <1>4, <1>6, <1>8, <1>10, <2>2
    <3> QED BY <3>1, <3>3, <3>4, <3>8, <3>9
  <2>3. CASE p # o
    <3>1. AllocatedTo(next, p) = AllocatedTo(list, p)
      BY <1>10, <2>3
    <3>2. \A m \in refused : next[m].obligation = list[m].obligation
      BY <1>2, <1>4, <1>10, <1>11
    <3>3. (\A m \in gone : next[m].obligation # p) => \A m \in refused : list[m].obligation # p
      BY <1>8, <3>2
    <3> QED BY <2>1, <3>1, <3>3
  <2> QED BY <2>2, <2>3
<1>15. ASSUME NEW b \in Accounts
       PROVE  HeldOn(next, gone, b) = HeldOn(list, refused, b)
  <2>1. Held(next, gone, b) = Held(list, refused, b)
    BY <1>1, <1>2, <1>4, <1>8, <1>9, <1>10, <1>11 DEF Held
  <2>2. PICK S : S = Held(list, refused, b)
    OBVIOUS
  <2>3. \A m \in S : next[m].amount = list[m].amount
    BY <1>2, <1>4, <1>10, <2>2 DEF Held
  <2>4. AmountsOf(next, S) = AmountsOf(list, S)
    BY <2>3 DEF AmountsOf
  <2> QED BY <2>1, <2>2, <2>4 DEF HeldOn
<1>16. PaidFor'
  BY <1>1, <1>9, <1>15 DEF FundsInv, PaidFor
<1> QED BY <1>12, <1>13, <1>14, <1>16 DEF FundsInv

LEMMA ReceiveKeeps ==
  ASSUME FundsInv, NEW e \in Events, NEW a \in Accounts, NEW d \in DepositIds, NEW valid \in BOOLEAN,
         Funds!ReceiveWebhook(e, a, d, valid)
  PROVE  FundsInv'
<1>1. PICK row : row = [status |-> IF valid THEN "queued" ELSE "dead_letter", valid |-> valid, account |-> a, deposit |-> d]
  OBVIOUS
<1>2. row \in EventRows
  BY <1>1 DEF EventRows
<1>3. /\ event' = [event EXCEPT ![e] = row]
      /\ UNCHANGED <<opening, balance, obligation, reservation, refused, credits, payment, external>>
  BY <1>1 DEF Funds!ReceiveWebhook, Funds!records, Funds!orders
<1>4. FundsTypes'
  BY <1>2, <1>3 DEF FundsInv, FundsTypes
<1>5. \A b \in Accounts : balance[b].reserved <= balance[b].reserved
  BY PaidNumbers DEF FundsInv
<1> QED BY <1>3, <1>4, <1>5, BalancesMove

LEMMA ProcessKeeps ==
  ASSUME FundsInv, NEW e \in Events, NEW amount \in Amounts, Funds!ProcessDepositWebhook(e, amount)
  PROVE  FundsInv'
<1>1. PICK old \in EventRows : old = event[e]
  BY DEF FundsInv, FundsTypes, Funds!ProcessDepositWebhook
<1>2. PICK new \in EventRows : new = [old EXCEPT !.status = "processed"]
  BY DEF EventRows
<1>3. PICK a \in Accounts : a = old.account
  BY DEF EventRows
<1>4. PICK had \in BalanceRows : had = balance[a]
  BY DEF FundsInv, FundsTypes
<1>5. PICK row : row = [had EXCEPT !.available = had.available + amount]
  OBVIOUS
<1>6. row \in BalanceRows /\ row.reserved = had.reserved
  <2>1. had.available + amount \in Nat
    BY FundsConstants DEF BalanceRows
  <2> QED BY <1>5, <2>1 DEF BalanceRows
<1>7. /\ balance' = [balance EXCEPT ![a].available = @ + amount] /\ event' = [event EXCEPT ![e].status = "processed"]
      /\ credits < MaxCredits /\ credits' = credits + 1
      /\ UNCHANGED <<opening, obligation, reservation, refused, payment, external>>
  BY <1>1, <1>3 DEF Funds!ProcessDepositWebhook, Funds!records, Funds!orders
<1>8. balance' = [balance EXCEPT ![a] = row] /\ event' = [event EXCEPT ![e] = new]
  BY <1>1, <1>2, <1>4, <1>5, <1>7 DEF FundsInv, FundsTypes
<1>9. credits + 1 \in 0 .. MaxCredits
  BY <1>7, FundsConstants DEF FundsInv, FundsTypes
<1>10. FundsTypes'
  BY <1>6, <1>7, <1>8, <1>9 DEF FundsInv, FundsTypes
<1>11. ASSUME NEW b \in Accounts PROVE balance'[b].reserved <= balance[b].reserved
  <2>1. balance[b].reserved \in Nat /\ balance'[b] = IF b = a THEN row ELSE balance[b]
    BY <1>8, PaidNumbers DEF FundsInv, FundsTypes
  <2> QED BY <1>4, <1>6, <2>1
<1> QED BY <1>7, <1>10, <1>11, BalancesMove

LEMMA DeadLetterKeeps ==
  ASSUME FundsInv, NEW e \in Events, Funds!RecordDeadLetter(e)
  PROVE  FundsInv'
<1>1. PICK old \in EventRows : old = event[e]
  BY DEF FundsInv, FundsTypes, Funds!RecordDeadLetter
<1>2. PICK new \in EventRows : new = [old EXCEPT !.status = "dead_letter"]
  BY DEF EventRows
<1>3. /\ event' = [event EXCEPT ![e] = new]
      /\ UNCHANGED <<opening, balance, obligation, reservation, refused, credits, payment, external>>
  BY <1>1, <1>2 DEF Funds!RecordDeadLetter, Funds!records, Funds!orders, FundsInv, FundsTypes
<1>4. FundsTypes'
  BY <1>3 DEF FundsInv, FundsTypes
<1>5. \A b \in Accounts : balance[b].reserved <= balance[b].reserved
  BY PaidNumbers DEF FundsInv
<1> QED BY <1>3, <1>4, <1>5, BalancesMove

\* A payment that is not settled leaves what was paid.
LEMMA SettledStays ==
  ASSUME NEW map, NEW k \in InternalKeys, NEW row, row.status # "settled", map[k].status # "settled",
         NEW next, next[k] = row, \A j \in InternalKeys \ {k} : next[j] = map[j]
  PROVE  \A a : Settled(next, a) = Settled(map, a)
<1> SUFFICES ASSUME NEW a PROVE Settled(next, a) = Settled(map, a)
  OBVIOUS
<1>1. PICK S : S = {j \in InternalKeys : map[j].status = "settled" /\ map[j].source = a}
  OBVIOUS
<1>2. S = {j \in InternalKeys : next[j].status = "settled" /\ next[j].source = a} /\ \A j \in S : next[j] = map[j]
  BY <1>1
<1>3. [j \in S |-> next[j].amount] = [j \in S |-> map[j].amount]
  BY <1>2
<1> QED BY <1>1, <1>2, <1>3 DEF Settled

LEMMA CreatePaymentKeeps ==
  ASSUME FundsInv, NEW k \in InternalKeys, NEW a \in Accounts, NEW b \in Accounts, NEW amount \in Amounts,
         Funds!CreatePaymentInstruction(k, a, b, amount)
  PROVE  FundsInv'
<1>1. PICK row : row = [status |-> "created", source |-> a, destination |-> b, amount |-> amount]
  OBVIOUS
<1>2. row \in PaymentRows /\ row.status # "settled"
  BY <1>1 DEF PaymentRows
<1>3. /\ payment[k] = Funds!None /\ payment' = [payment EXCEPT ![k] = row]
      /\ UNCHANGED <<opening, balance, obligation, reservation, refused, event, credits, external>>
  BY <1>1 DEF Funds!CreatePaymentInstruction, Funds!records, Funds!inbox
<1>4. FundsTypes'
  BY <1>2, <1>3 DEF FundsInv, FundsTypes
<1>5. payment[k].status # "settled"
  BY <1>3 DEF Funds!None
<1>6. payment'[k] = row /\ \A j \in InternalKeys \ {k} : payment'[j] = payment[j]
  BY <1>3 DEF FundsInv, FundsTypes
<1>7. \A c \in Accounts : Settled(payment', c) = Settled(payment, c)
  <2>1. PICK next : next = payment'
    OBVIOUS
  <2> QED BY <1>2, <1>5, <1>6, <2>1, SettledStays
<1>8. \A c \in Accounts : balance[c].reserved <= balance[c].reserved
  BY PaidNumbers DEF FundsInv
<1> QED BY <1>3, <1>4, <1>7, <1>8, BalancesMove

\* A settled payment: what was reserved on its source is paid.
LEMMA SettleKeeps ==
  ASSUME FundsInv, NEW k \in InternalKeys, Funds!ExecuteInternalSettlement(k)
  PROVE  FundsInv'
<1>1. PICK old \in PaymentRows : old = payment[k]
  BY DEF FundsInv, FundsTypes, Funds!ExecuteInternalSettlement, Funds!None
<1>2. PICK from \in Accounts : from = old.source
  BY DEF PaymentRows
<1>3. PICK to \in Accounts : to = old.destination
  BY DEF PaymentRows
<1>4. PICK amount \in Nat : amount = old.amount
  BY FundsConstants DEF PaymentRows
<1>5. /\ old.status = "created" /\ amount <= balance[from].reserved
      /\ UNCHANGED <<opening, obligation, reservation, refused, event, credits, external>>
  BY <1>1, <1>2, <1>4 DEF Funds!ExecuteInternalSettlement, Funds!records, Funds!inbox
<1>6. PICK had \in BalanceRows : had = balance[from]
  BY DEF FundsInv, FundsTypes
<1>7. PICK left : left = [had EXCEPT !.reserved = had.reserved - amount]
  OBVIOUS
<1>8. left \in BalanceRows /\ left.reserved = had.reserved - amount /\ had.reserved \in Nat
  <2>1. had.reserved - amount \in Nat
    BY <1>5, <1>6 DEF BalanceRows
  <2> QED BY <1>7, <2>1 DEF BalanceRows
<1>9. CASE from = to
  <2>1. balance' = [balance EXCEPT ![from] = left] /\ payment' = payment
    BY <1>1, <1>2, <1>3, <1>4, <1>6, <1>7, <1>9 DEF Funds!ExecuteInternalSettlement, FundsInv, FundsTypes
  <2>2. FundsTypes'
    BY <1>5, <1>8, <2>1 DEF FundsInv, FundsTypes
  <2>3. ASSUME NEW b \in Accounts PROVE balance'[b].reserved <= balance[b].reserved
    <3>1. balance[b].reserved \in Nat /\ balance'[b] = IF b = from THEN left ELSE balance[b]
      BY <2>1, PaidNumbers DEF FundsInv, FundsTypes
    <3> QED BY <1>6, <1>8, <3>1
  <2> QED BY <1>5, <2>1, <2>2, <2>3, BalancesMove
<1>10. CASE from # to
  <2>1. PICK new : new = [old EXCEPT !.status = "settled"]
    OBVIOUS
  <2>2. new \in PaymentRows /\ new.status = "settled" /\ new.source = from /\ new.amount = amount
    BY <1>2, <1>4, <2>1 DEF PaymentRows
  <2>3. PICK other \in BalanceRows : other = balance[to]
    BY DEF FundsInv, FundsTypes
  <2>4. PICK got : got = [other EXCEPT !.available = other.available + amount]
    OBVIOUS
  <2>5. got \in BalanceRows /\ got.reserved = other.reserved
    <3>1. other.available + amount \in Nat
      BY DEF BalanceRows
    <3> QED BY <2>4, <3>1 DEF BalanceRows
  <2>6. /\ balance' = [balance EXCEPT ![from].reserved = @ - amount, ![to].available = @ + amount]
        /\ payment' = [payment EXCEPT ![k].status = "settled"]
    BY <1>1, <1>2, <1>3, <1>4, <1>10 DEF Funds!ExecuteInternalSettlement
  <2>7. /\ balance' \in [Accounts -> BalanceRows] /\ balance'[from] = left /\ balance'[to] = got
        /\ \A b \in Accounts \ {from, to} : balance'[b] = balance[b]
    BY <1>6, <1>7, <1>8, <1>10, <2>3, <2>4, <2>5, <2>6 DEF FundsInv, FundsTypes
  <2>8. PICK next : next = payment'
    OBVIOUS
  <2>9. PICK map \in [InternalKeys -> {Funds!None} \cup PaymentRows] : map = payment
    BY DEF FundsInv, FundsTypes
  <2>10. next = [map EXCEPT ![k] = new] /\ map[k] = old
    BY <1>1, <2>1, <2>6, <2>8, <2>9
  <2>11. /\ next \in [InternalKeys -> {Funds!None} \cup PaymentRows] /\ next[k] = new
         /\ \A j \in InternalKeys \ {k} : next[j] = map[j]
    BY <2>2, <2>9, <2>10
  <2>12. FundsTypes'
    BY <1>5, <2>7, <2>8, <2>11 DEF FundsInv, FundsTypes
  <2>13. ASSUME NEW b \in Accounts
         PROVE  Sum(Settled(next, b)) = Sum(Settled(map, b)) + IF b = from THEN amount ELSE 0
    <3>1. PICK f : f = Settled(map, b)
      OBVIOUS
    <3>2. PICK g : g = Settled(next, b)
      OBVIOUS
    <3>3. /\ IsFiniteSet(DOMAIN f) /\ f \in [DOMAIN f -> Nat] /\ g \in [DOMAIN g -> Nat] /\ Sum(f) \in Nat
      BY <2>9, <2>11, <3>1, <3>2, PaymentsOf
    <3>4. DOMAIN f = {j \in InternalKeys : map[j].status = "settled" /\ map[j].source = b}
      BY <3>1 DEF Settled
    <3>5. DOMAIN g = {j \in InternalKeys : next[j].status = "settled" /\ next[j].source = b}
      BY <3>2 DEF Settled
    <3>6. k \notin DOMAIN f
      BY <1>5, <2>10, <3>4
    <3>7. \A j \in DOMAIN f : f[j] = map[j].amount
      BY <3>1, <3>4 DEF Settled
    <3>8. \A j \in DOMAIN g : g[j] = next[j].amount
      BY <3>2, <3>5 DEF Settled
    <3>9. CASE b = from
      <4>1. DOMAIN g = DOMAIN f \cup {k}
        BY <2>2, <2>11, <3>4, <3>5, <3>6, <3>9
      <4>2. (\A j \in DOMAIN f : g[j] = f[j]) /\ g[k] = amount
        BY <2>2, <2>11, <3>4, <3>6, <3>7, <3>8, <4>1
      <4>3. Sum(g) = Sum(f) + g[k]
        BY ONLY <3>3, <3>6, <4>1, <4>2, OneMoreAdds
      <4> QED BY <3>1, <3>2, <3>9, <4>2, <4>3
    <3>10. CASE b # from
      <4>1. DOMAIN g = DOMAIN f
        BY <2>2, <2>11, <3>4, <3>5, <3>6, <3>10
      <4>2. \A j \in DOMAIN f : g[j] = f[j]
        BY <2>11, <3>4, <3>6, <3>7, <3>8, <4>1
      <4>3. g = f
        BY <3>3, <4>1, <4>2
      <4> QED BY <3>1, <3>2, <3>3, <3>10, <4>3
    <3> QED BY <3>9, <3>10
  <2>14. ASSUME NEW b \in Accounts
         PROVE  balance'[b].reserved + Sum(Settled(next, b)) + Sum(Spent(external, b)) <= HeldOn(reservation, refused, b)
    <3>1. balance[b].reserved + Sum(Settled(map, b)) + Sum(Spent(external, b)) <= HeldOn(reservation, refused, b)
      BY <2>9 DEF FundsInv, PaidFor
    <3>2. /\ balance[b].reserved \in Nat /\ Sum(Settled(map, b)) \in Nat /\ Sum(Spent(external, b)) \in Nat
          /\ HeldOn(reservation, refused, b) \in Nat
      BY <2>9, PaidNumbers DEF FundsInv
    <3>3. CASE b = from
      <4>1. balance'[b].reserved = balance[b].reserved - amount
        BY <1>6, <1>8, <2>7, <3>3
      <4>2. Sum(Settled(next, b)) = Sum(Settled(map, b)) + amount
        BY <2>13, <3>3
      <4> QED BY <3>1, <3>2, <4>1, <4>2
    <3>4. CASE b # from
      <4>1. balance'[b].reserved = balance[b].reserved
        BY <2>3, <2>5, <2>7, <3>4
      <4>2. Sum(Settled(next, b)) = Sum(Settled(map, b))
        BY <2>13, <3>2, <3>4
      <4> QED BY <3>1, <4>1, <4>2
    <3> QED BY <3>3, <3>4
  <2>15. ReservationsAreApproved' /\ FundingFits'
    BY <1>5 DEF FundsInv, ReservationsAreApproved, FundingFits
  <2>16. PaidFor'
    BY <1>5, <2>8, <2>14 DEF PaidFor
  <2> QED BY <2>12, <2>15, <2>16 DEF FundsInv
<1> QED BY <1>9, <1>10

\* An external payment takes its amount and its fee out of what is reserved,
\* and one that fails gives the amount back as available.
LEMMA SubmitExternalKeeps ==
  ASSUME FundsInv, NEW k \in ExternalKeys, NEW a \in Accounts, NEW amount \in Amounts, NEW fee \in {0, 1},
         NEW fails \in BOOLEAN, Funds!SubmitExternalPayment(k, a, amount, fee, fails)
  PROVE  FundsInv'
<1>1. amount \in Nat /\ fee \in Nat /\ amount + fee \in Nat
  BY FundsConstants
<1>2. PICK new : new = [status |-> IF fails THEN "failed" ELSE "complete", source |-> a, amount |-> amount, fee |-> fee,
                        reversal |-> fails]
  OBVIOUS
<1>3. new \in ExternalRows /\ new.source = a /\ new.amount = amount /\ new.fee = fee /\ new.status # "none"
  BY <1>1, <1>2 DEF ExternalRows
<1>4. PICK back \in Nat : back = IF fails THEN amount ELSE 0
  BY <1>1
<1>5. PICK had \in BalanceRows : had = balance[a]
  BY DEF FundsInv, FundsTypes
<1>6. PICK left : left = [had EXCEPT !.reserved = had.reserved - (amount + fee), !.available = had.available + back]
  OBVIOUS
<1>7. /\ external[k] = Funds!None /\ amount + fee <= balance[a].reserved
      /\ external' = [external EXCEPT ![k] = new]
      /\ balance' = [balance EXCEPT ![a].reserved = @ - (amount + fee), ![a].available = @ + back]
      /\ UNCHANGED <<opening, obligation, reservation, refused, event, credits, payment>>
  BY <1>2, <1>4 DEF Funds!SubmitExternalPayment, Funds!records, Funds!inbox
<1>8. left \in BalanceRows /\ left.reserved = had.reserved - (amount + fee) /\ had.reserved \in Nat
  <2>1. had.reserved - (amount + fee) \in Nat /\ had.available + back \in Nat
    BY <1>1, <1>5, <1>7 DEF BalanceRows
  <2> QED BY <1>6, <2>1 DEF BalanceRows
<1>9. balance' = [balance EXCEPT ![a] = left]
  BY <1>5, <1>6, <1>7 DEF FundsInv, FundsTypes
<1>10. PICK map \in [ExternalKeys -> {Funds!None} \cup ExternalRows] : map = external
  BY DEF FundsInv, FundsTypes
<1>11. PICK next : next = external'
  OBVIOUS
<1>12. /\ next \in [ExternalKeys -> {Funds!None} \cup ExternalRows] /\ next[k] = new /\ map[k] = Funds!None
       /\ \A j \in ExternalKeys \ {k} : next[j] = map[j]
  BY <1>3, <1>7, <1>10, <1>11
<1>13. FundsTypes'
  BY <1>7, <1>8, <1>9, <1>11, <1>12 DEF FundsInv, FundsTypes
<1>14. ASSUME NEW b \in Accounts
       PROVE  Sum(Spent(next, b)) = Sum(Spent(map, b)) + IF b = a THEN amount + fee ELSE 0
  <2>1. PICK f : f = Spent(map, b)
    OBVIOUS
  <2>2. PICK g : g = Spent(next, b)
    OBVIOUS
  <2>3. /\ IsFiniteSet(DOMAIN f) /\ f \in [DOMAIN f -> Nat] /\ g \in [DOMAIN g -> Nat] /\ Sum(f) \in Nat
    BY <1>10, <1>12, <2>1, <2>2, ExternalPaymentsOf
  <2>4. DOMAIN f = {j \in ExternalKeys : map[j] # Funds!None /\ map[j].source = b}
    BY <2>1 DEF Spent
  <2>5. DOMAIN g = {j \in ExternalKeys : next[j] # Funds!None /\ next[j].source = b}
    BY <2>2 DEF Spent
  <2>6. k \notin DOMAIN f
    BY <1>12, <2>4
  <2>7. \A j \in DOMAIN f : f[j] = map[j].amount + map[j].fee
    BY <2>1, <2>4 DEF Spent
  <2>8. \A j \in DOMAIN g : g[j] = next[j].amount + next[j].fee
    BY <2>2, <2>5 DEF Spent
  <2>9. new # Funds!None
    BY <1>3 DEF Funds!None
  <2>10. CASE b = a
    <3>1. DOMAIN g = DOMAIN f \cup {k}
      BY <1>3, <1>12, <2>4, <2>5, <2>6, <2>9, <2>10
    <3>2. (\A j \in DOMAIN f : g[j] = f[j]) /\ g[k] = amount + fee
      BY <1>3, <1>12, <2>4, <2>6, <2>7, <2>8, <3>1
    <3>3. Sum(g) = Sum(f) + g[k]
      BY ONLY <2>3, <2>6, <3>1, <3>2, OneMoreAdds
    <3> QED BY <2>1, <2>2, <2>10, <3>2, <3>3
  <2>11. CASE b # a
    <3>1. DOMAIN g = DOMAIN f
      BY <1>3, <1>12, <2>4, <2>5, <2>6, <2>11
    <3>2. \A j \in DOMAIN f : g[j] = f[j]
      BY <1>12, <2>4, <2>6, <2>7, <2>8, <3>1
    <3>3. g = f
      BY <2>3, <3>1, <3>2
    <3> QED BY <2>1, <2>2, <2>3, <2>11, <3>3
  <2> QED BY <2>10, <2>11
<1>15. ASSUME NEW b \in Accounts
       PROVE  balance'[b].reserved + Sum(Settled(payment, b)) + Sum(Spent(next, b)) <= HeldOn(reservation, refused, b)
  <2>1. balance[b].reserved + Sum(Settled(payment, b)) + Sum(Spent(map, b)) <= HeldOn(reservation, refused, b)
    BY <1>10 DEF FundsInv, PaidFor
  <2>2. /\ balance[b].reserved \in Nat /\ Sum(Settled(payment, b)) \in Nat /\ Sum(Spent(map, b)) \in Nat
        /\ HeldOn(reservation, refused, b) \in Nat
    BY <1>10, PaidNumbers DEF FundsInv
  <2>3. CASE b = a
    <3>1. balance'[b].reserved = balance[b].reserved - (amount + fee)
      BY <1>5, <1>8, <1>9, <2>3 DEF FundsInv, FundsTypes
    <3>2. Sum(Spent(next, b)) = Sum(Spent(map, b)) + (amount + fee)
      BY <1>14, <2>3
    <3> QED BY <1>1, <2>1, <2>2, <3>1, <3>2
  <2>4. CASE b # a
    <3>1. balance'[b].reserved = balance[b].reserved
      BY <1>9, <2>4 DEF FundsInv, FundsTypes
    <3>2. Sum(Spent(next, b)) = Sum(Spent(map, b))
      BY <1>14, <2>2, <2>4
    <3> QED BY <2>1, <3>1, <3>2
  <2> QED BY <2>3, <2>4
<1>16. ReservationsAreApproved' /\ FundingFits'
  BY <1>7 DEF FundsInv, ReservationsAreApproved, FundingFits
<1>17. PaidFor'
  BY <1>7, <1>11, <1>15 DEF PaidFor
<1> QED BY <1>13, <1>16, <1>17 DEF FundsInv

LEMMA TimeoutKeeps ==
  ASSUME FundsInv, NEW k \in ExternalKeys, Funds!TimeoutExternalPayment(k)
  PROVE  FundsInv'
<1>1. PICK old \in ExternalRows : old = external[k]
  BY DEF FundsInv, FundsTypes, Funds!TimeoutExternalPayment
<1>2. PICK new : new = [old EXCEPT !.status = "timeout"]
  OBVIOUS
<1>3. new \in ExternalRows /\ new.source = old.source /\ new.amount = old.amount /\ new.fee = old.fee /\ new.status = "timeout"
  BY <1>2 DEF ExternalRows
<1>4. /\ external[k] # Funds!None /\ external' = [external EXCEPT ![k] = new]
      /\ UNCHANGED <<opening, balance, obligation, reservation, refused, event, credits, payment>>
  BY <1>1, <1>2 DEF Funds!TimeoutExternalPayment, Funds!records, Funds!inbox
<1>5. FundsTypes'
  BY <1>3, <1>4 DEF FundsInv, FundsTypes
<1>6. PICK map : map = external
  OBVIOUS
<1>7. PICK next : next = external'
  OBVIOUS
<1>8. map[k] = old /\ next[k] = new /\ \A j \in ExternalKeys \ {k} : next[j] = map[j]
  BY <1>1, <1>4, <1>6, <1>7 DEF FundsInv, FundsTypes
<1>9. old # Funds!None /\ new # Funds!None
  BY <1>1, <1>3, <1>4 DEF Funds!None
<1>10. ASSUME NEW b \in Accounts PROVE Spent(next, b) = Spent(map, b)
  <2>1. PICK S : S = {j \in ExternalKeys : map[j] # Funds!None /\ map[j].source = b}
    OBVIOUS
  <2>2. S = {j \in ExternalKeys : next[j] # Funds!None /\ next[j].source = b}
    BY <1>3, <1>8, <1>9, <2>1
  <2>3. \A j \in S : next[j].amount = map[j].amount /\ next[j].fee = map[j].fee
    BY <1>3, <1>8, <2>1
  <2>4. [j \in S |-> next[j].amount + next[j].fee] = [j \in S |-> map[j].amount + map[j].fee]
    BY <2>3
  <2> QED BY <2>1, <2>2, <2>4 DEF Spent
<1>11. \A b \in Accounts : balance[b].reserved <= balance[b].reserved
  BY PaidNumbers DEF FundsInv
<1> QED BY <1>4, <1>5, <1>6, <1>7, <1>10, <1>11, BalancesMove

LEMMA SubmitRedemptionKeeps ==
  ASSUME FundsInv, NEW k \in RedemptionKeys, NEW a \in Accounts, NEW amount \in Amounts, NEW unknown \in BOOLEAN,
         Funds!SubmitRedemption(k, a, amount, unknown)
  PROVE  FundsInv'
<1>1. PICK held \in Nat : held = IF unknown THEN amount ELSE 0
  BY FundsConstants
<1>2. PICK had \in BalanceRows : had = balance[a]
  BY DEF FundsInv, FundsTypes
<1>3. PICK row : row = [had EXCEPT !.available = had.available - amount, !.suspense = had.suspense + held]
  OBVIOUS
<1>4. /\ amount <= had.available
      /\ balance' = [balance EXCEPT ![a].available = @ - amount, ![a].suspense = @ + held]
      /\ UNCHANGED <<opening, obligation, reservation, refused, event, credits, payment, external>>
  BY <1>1, <1>2 DEF Funds!SubmitRedemption, Funds!records, Funds!inbox
<1>5. row \in BalanceRows /\ row.reserved = had.reserved
  <2>1. had.available - amount \in Nat /\ had.suspense + held \in Nat
    BY <1>4, FundsConstants DEF BalanceRows
  <2> QED BY <1>3, <2>1 DEF BalanceRows
<1>6. balance' = [balance EXCEPT ![a] = row]
  BY <1>2, <1>3, <1>4 DEF FundsInv, FundsTypes
<1>7. FundsTypes'
  BY <1>4, <1>5, <1>6 DEF FundsInv, FundsTypes
<1>8. ASSUME NEW b \in Accounts PROVE balance'[b].reserved <= balance[b].reserved
  <2>1. balance[b].reserved \in Nat /\ balance'[b] = IF b = a THEN row ELSE balance[b]
    BY <1>6, PaidNumbers DEF FundsInv, FundsTypes
  <2> QED BY <1>2, <1>5, <2>1
<1> QED BY <1>4, <1>7, <1>8, BalancesMove

\* Steps that leave everything the invariant is about.
LEMMA FundsStay ==
  ASSUME FundsInv, UNCHANGED <<opening, balance, obligation, reservation, refused, event, credits, payment, external>>
  PROVE  FundsInv'
BY DEF FundsInv, FundsTypes, ReservationsAreApproved, FundingFits, PaidFor

LEMMA FundsKeeps ==
  ASSUME FundsInv, [Funds!Next]_fundsVars PROVE FundsInv'
<1>1. CASE UNCHANGED fundsVars
  BY <1>1, FundsStay DEF fundsVars
<1>2. CASE \E a \in Accounts : Funds!Project(a) \/ \E amount \in Amounts : Funds!Post(a, amount)
  BY <1>2, ProjectKeeps, PostKeeps
<1>3. CASE \E o \in Obligations :
             \/ \E amount \in Amounts, disputed \in {0, 1} : Funds!CreateTradePayable(o, amount, disputed)
             \/ Funds!ApproveObligation(o)
             \/ \E a \in Accounts, amount \in Amounts : Funds!ActivateReservation(o, a, amount)
  BY <1>3, CreateKeeps, ApproveObligationKeeps, ActivateKeeps
<1>4. CASE \E n \in DOMAIN reservation, status \in {"released", "expired", "cancelled"} : Funds!EndReservation(n, status)
  BY <1>4, GivingBackKeeps, ThrowingKeeps
<1>5. CASE \E e \in Events :
             \/ \E a \in Accounts, d \in DepositIds, valid \in BOOLEAN : Funds!ReceiveWebhook(e, a, d, valid)
             \/ \E amount \in Amounts : Funds!ProcessDepositWebhook(e, amount)
             \/ Funds!RecordDeadLetter(e)
  BY <1>5, ReceiveKeeps, ProcessKeeps, DeadLetterKeeps
<1>6. CASE \E k \in InternalKeys :
             \/ \E a, b \in Accounts, amount \in Amounts : Funds!CreatePaymentInstruction(k, a, b, amount)
             \/ Funds!ExecuteInternalSettlement(k)
  BY <1>6, CreatePaymentKeeps, SettleKeeps
<1>7. CASE \E k \in ExternalKeys :
             \/ \E a \in Accounts, amount \in Amounts, fee \in {0, 1}, fails \in BOOLEAN :
                  Funds!SubmitExternalPayment(k, a, amount, fee, fails)
             \/ Funds!TimeoutExternalPayment(k)
  BY <1>7, SubmitExternalKeeps, TimeoutKeeps
<1>8. ASSUME NEW k \in RedemptionKeys,
             \/ \E a \in Accounts, amount \in Amounts, unknown \in BOOLEAN : Funds!SubmitRedemption(k, a, amount, unknown)
             \/ \E status \in {"complete", "failed"} : Funds!ManualStatusRefresh(k, status)
      PROVE  FundsInv'
  <2>1. CASE \E status \in {"complete", "failed"} : Funds!ManualStatusRefresh(k, status)
    <3>1. UNCHANGED <<opening, balance, obligation, reservation, refused, event, credits, payment, external>>
      BY <2>1 DEF Funds!ManualStatusRefresh, Funds!records, Funds!inbox
    <3> QED BY <3>1, FundsStay
  <2> QED BY <1>8, <2>1, SubmitRedemptionKeeps
<1> QED BY <1>1, <1>2, <1>3, <1>4, <1>5, <1>6, <1>7, <1>8 DEF Funds!Next

LEMMA FundsInvIsEnough ==
  ASSUME FundsInv
  PROVE  /\ Funds!TypeOK /\ Funds!NeverOverfunded /\ Funds!FundingNotUnderstated /\ Funds!PaidFromReservations
<1>1. Funds!TypeOK
  <2>1. \A x \in {"unfunded", "partially_funded", "fully_funded"} : x \in {Funds!FundingStatuses[n] : n \in 1 .. 3}
    <3>1. /\ "unfunded" = Funds!FundingStatuses[1] /\ "partially_funded" = Funds!FundingStatuses[2]
          /\ "fully_funded" = Funds!FundingStatuses[3] /\ 1 \in 1 .. 3 /\ 2 \in 1 .. 3 /\ 3 \in 1 .. 3
      BY DEF Funds!FundingStatuses
    <3> QED BY <3>1
  <2>2. \A o \in Obligations : obligation[o] # Funds!None =>
          /\ obligation[o].status \in {"draft", "approved", "partially_funded", "fully_funded"}
          /\ obligation[o].funding \in {"unfunded", "partially_funded", "fully_funded"}
    BY DEF FundsInv, FundsTypes, ObligationRows
  <2> QED BY <2>1, <2>2 DEF FundsInv, FundsTypes, BalanceRows, Funds!TypeOK
<1>2. Funds!NeverOverfunded
  BY FundsAgree DEF FundsInv, FundingFits, Funds!NeverOverfunded
<1>3. Funds!FundingNotUnderstated
  BY FundsAgree DEF FundsInv, FundingFits, Rank, Funds!FundingNotUnderstated
<1>4. Funds!PaidFromReservations
  BY FundsSums DEF FundsInv, PaidFor, HeldOn, Held, AmountsOf, Settled, Spent, Funds!PaidFromReservations
<1> QED BY <1>1, <1>2, <1>3, <1>4

-----------------------------------------------------------------------------
(* DomainRebalancing *)

FundRows == [available : Nat, reserved : Nat]
InstructionRows ==
  [source : Holders, destination : Holders, amount : Nat, fee : Nat, createdBy : Users,
   approvedBy : Users \cup {"none"}, approvalRequired : BOOLEAN, status : {"pending_approval", "approved", "executed"}]
BreakRows == [run : Nat, account : Holders, delta : Int, status : {"open", "assigned", "resolved"}]

\* The movements of the executed instructions of a list, from an account and to it.
Executed(list) == {n \in DOMAIN list : list[n].status = "executed"}
Sent(list, a) == [n \in {n \in Executed(list) : list[n].source = a} |-> list[n].amount + list[n].fee]
Received(list, a) == [n \in {n \in Executed(list) : list[n].destination = a} |-> list[n].amount]

Balanced(list) == \A a \in Holders : Rebalancing!Total(a) + Sum(Sent(list, a)) = outside[a] + Sum(Received(list, a))

\* An instruction moves funds between two accounts; it waits or was seen by two
\* users if its recommendation required an approval.
InstructionsAreSeen ==
  \A n \in DOMAIN instruction :
    /\ instruction[n].source # instruction[n].destination
    /\ instruction[n].approvalRequired /\ instruction[n].status # "pending_approval"
         => instruction[n].approvedBy \in Users \ {instruction[n].createdBy}

RebalancingTypes ==
  /\ funds \in [Holders -> FundRows] /\ outside \in [Holders -> Int] /\ buffer \in [Holders -> Nat]
  /\ instruction \in Seq(InstructionRows) /\ Len(instruction) <= MaxInstructions /\ broken \subseteq DOMAIN instruction
  /\ reported \in [Holders -> {Rebalancing!NotReported} \cup Nat]
  /\ break \in Seq(BreakRows) /\ Len(break) <= MaxBreaks
  /\ runs \in Nat /\ runs <= MaxRuns /\ moved \subseteq Holders

\* The latest run has a break for every difference that has stood since.
RunsReport ==
  \A a \in Rebalancing!Mismatched \ moved :
    \E n \in DOMAIN break : break[n].run = runs /\ break[n].account = a /\ break[n].delta = Rebalancing!Delta(a)

RebalancingInv == RebalancingTypes /\ InstructionsAreSeen /\ Balanced(instruction) /\ RunsReport

LEMMA RebalancingConstants ==
  /\ IsFiniteSet(Holders) /\ MaxBreaks \in Nat /\ MaxRuns \in Nat /\ MaxInstructions \in Nat
  /\ Fees \subseteq Nat /\ Thresholds \subseteq Nat
  /\ Targets \subseteq Nat /\ Buffers \subseteq Nat /\ Reports \subseteq Nat
BY RebalancingAssumption, FiniteSetsOfInstances DEF Rebalancing!RebalancingAssumption

LEMMA Instructions ==
  ASSUME NEW list \in Seq(InstructionRows), NEW n \in DOMAIN list
  PROVE  /\ list[n] \in InstructionRows
         /\ list[n].source \in Holders /\ list[n].destination \in Holders /\ list[n].amount \in Nat /\ list[n].fee \in Nat
         /\ list[n].createdBy \in Users /\ list[n].status \in {"pending_approval", "approved", "executed"}
<1>1. list[n] \in InstructionRows
  OBVIOUS
<1> QED BY <1>1 DEF InstructionRows

LEMMA MovesAreNumbers ==
  ASSUME NEW list \in Seq(InstructionRows), NEW a
  PROVE  /\ IsFiniteSet(DOMAIN Sent(list, a)) /\ Sent(list, a) \in [DOMAIN Sent(list, a) -> Nat]
         /\ IsFiniteSet(DOMAIN Received(list, a)) /\ Received(list, a) \in [DOMAIN Received(list, a) -> Nat]
         /\ Sum(Sent(list, a)) \in Nat /\ Sum(Received(list, a)) \in Nat
<1>1. DOMAIN list = 1 .. Len(list) /\ Len(list) \in Nat
  OBVIOUS
<1>2. IsFiniteSet(1 .. Len(list))
  <2>1. 1 \in Int /\ Len(list) \in Int
    BY <1>1
  <2> QED BY <2>1, FS_Interval
<1>3. DOMAIN Sent(list, a) \subseteq DOMAIN list /\ DOMAIN Received(list, a) \subseteq DOMAIN list
  BY DEF Sent, Received, Executed
<1>4. IsFiniteSet(DOMAIN Sent(list, a)) /\ IsFiniteSet(DOMAIN Received(list, a))
  BY <1>1, <1>2, <1>3, FS_Subset
<1>5. \A n \in DOMAIN Sent(list, a) : list[n].amount + list[n].fee \in Nat
  BY <1>3, Instructions
<1>6. \A n \in DOMAIN Received(list, a) : list[n].amount \in Nat
  BY <1>3, Instructions
<1>7. Sent(list, a) \in [DOMAIN Sent(list, a) -> Nat]
  BY <1>5 DEF Sent
<1>8. Received(list, a) \in [DOMAIN Received(list, a) -> Nat]
  BY <1>6 DEF Received
<1> QED BY <1>4, <1>7, <1>8, UnitsFinite

\* Lists with the same executed instructions move the same.
LEMMA SameMoves ==
  ASSUME NEW list, NEW next, Executed(next) = Executed(list), \A n \in Executed(list) : next[n] = list[n]
  PROVE  \A a : Sent(next, a) = Sent(list, a) /\ Received(next, a) = Received(list, a)
BY DEF Sent, Received

LEMMA BalancedAgrees == Balanced(instruction) <=> Rebalancing!BalancesMatchRebalances
BY RebalancingSums DEF Balanced, Sent, Received, Executed, Rebalancing!BalancesMatchRebalances

LEMMA RebalancingInit == Rebalancing!Init => RebalancingInv
<1> SUFFICES ASSUME Rebalancing!Init PROVE RebalancingInv
  OBVIOUS
<1>1. instruction = <<>> /\ break = <<>> /\ DOMAIN instruction = {}
  BY DEF Rebalancing!Init
<1>2. RebalancingTypes
  BY <1>1, RebalancingConstants DEF Rebalancing!Init, RebalancingTypes, FundRows
<1>3. InstructionsAreSeen
  BY <1>1 DEF InstructionsAreSeen
<1>4. \A a : Sum(Sent(instruction, a)) = 0 /\ Sum(Received(instruction, a)) = 0
  <2>1. \A a : DOMAIN Sent(instruction, a) = {} /\ DOMAIN Received(instruction, a) = {}
    BY <1>1 DEF Sent, Received, Executed
  <2> QED BY <2>1, SumOfNone
<1>5. \A a \in Holders : Rebalancing!Total(a) = 0 /\ outside[a] = 0
  BY DEF Rebalancing!Init, Rebalancing!Total
<1>6. Balanced(instruction)
  BY <1>4, <1>5 DEF Balanced
<1>7. RunsReport
  BY DEF Rebalancing!Init, RunsReport, Rebalancing!Mismatched
<1> QED BY <1>2, <1>3, <1>6, <1>7 DEF RebalancingInv

\* An account's difference is new only if its balance or its report was set.
LEMMA ReportsStand ==
  ASSUME RunsReport, UNCHANGED <<runs, break>>, moved \subseteq moved',
         \A a \in Holders \ moved' : Rebalancing!Total(a)' = Rebalancing!Total(a) /\ reported'[a] = reported[a]
  PROVE  RunsReport'
<1>1. ASSUME NEW a \in Holders \ moved'
      PROVE  Rebalancing!Delta(a)' = Rebalancing!Delta(a)
  BY <1>1 DEF Rebalancing!Delta
<1>2. ASSUME NEW a \in Rebalancing!Mismatched' \ moved'
      PROVE  a \in Rebalancing!Mismatched \ moved /\ Rebalancing!Delta(a)' = Rebalancing!Delta(a)
  BY <1>1, <1>2 DEF Rebalancing!Mismatched
<1> QED BY <1>2 DEF RunsReport

\* Neither the balances nor the reports change.
LEMMA LedgerStays ==
  ASSUME RebalancingInv, UNCHANGED <<funds, outside, instruction>>, RebalancingTypes', RunsReport' PROVE RebalancingInv'
BY DEF RebalancingInv, InstructionsAreSeen, Balanced, Rebalancing!Total

LEMMA ElsewhereKeeps ==
  ASSUME RebalancingInv, NEW a \in Holders, NEW available \in Nat, NEW reserved \in Nat,
         Rebalancing!Elsewhere(a, available, reserved)
  PROVE  RebalancingInv'
<1>1. PICK new \in FundRows : new = [available |-> available, reserved |-> reserved]
  BY DEF FundRows
<1>2. new.available = available /\ new.reserved = reserved
  BY <1>1
<1>3. /\ funds' = [funds EXCEPT ![a] = new] /\ moved' = moved \cup {a}
      /\ UNCHANGED <<buffer, instruction, broken, reported, runs, break>>
  BY <1>1 DEF Rebalancing!Elsewhere, Rebalancing!reconciliation
<1>4. PICK total : total = Rebalancing!Total(a)
  OBVIOUS
<1>5. total \in Nat
  BY <1>4 DEF Rebalancing!Total, RebalancingInv, RebalancingTypes, FundRows
<1>6. outside' = [outside EXCEPT ![a] = outside[a] + available + reserved - total]
  BY <1>4 DEF Rebalancing!Elsewhere, RebalancingInv, RebalancingTypes
<1>7. outside[a] \in Int
  BY DEF RebalancingInv, RebalancingTypes
<1>8. RebalancingTypes'
  BY <1>3, <1>5, <1>6, <1>7 DEF RebalancingInv, RebalancingTypes
<1>9. ASSUME NEW b \in Holders
      PROVE  Rebalancing!Total(b)' + Sum(Sent(instruction, b)) = outside'[b] + Sum(Received(instruction, b))
  <2>1. Rebalancing!Total(b) + Sum(Sent(instruction, b)) = outside[b] + Sum(Received(instruction, b))
    BY DEF RebalancingInv, Balanced
  <2>2. Sum(Sent(instruction, b)) \in Nat /\ Sum(Received(instruction, b)) \in Nat
    BY MovesAreNumbers DEF RebalancingInv, RebalancingTypes
  <2>3. CASE b = a
    <3>1. Rebalancing!Total(b)' = available + reserved
      BY <1>2, <1>3, <2>3 DEF Rebalancing!Total, RebalancingInv, RebalancingTypes
    <3>2. outside'[b] = outside[a] + available + reserved - total
      BY <1>6, <2>3 DEF RebalancingInv, RebalancingTypes
    <3> QED BY <1>4, <1>5, <1>7, <2>1, <2>2, <2>3, <3>1, <3>2
  <2>4. CASE b # a
    <3>1. Rebalancing!Total(b)' = Rebalancing!Total(b)
      BY <1>3, <2>4 DEF Rebalancing!Total, RebalancingInv, RebalancingTypes
    <3>2. outside'[b] = outside[b]
      BY <1>6, <2>4 DEF RebalancingInv, RebalancingTypes
    <3> QED BY <2>1, <3>1, <3>2
  <2> QED BY <2>3, <2>4
<1>10. Balanced(instruction)'
  BY <1>3, <1>9 DEF Balanced
<1>11. InstructionsAreSeen'
  BY <1>3 DEF RebalancingInv, InstructionsAreSeen
<1>12. \A b \in Holders \ moved' : Rebalancing!Total(b)' = Rebalancing!Total(b)
  BY <1>3 DEF RebalancingInv, RebalancingTypes, Rebalancing!Total
<1>13. RunsReport'
  BY <1>3, <1>12, ReportsStand DEF RebalancingInv
<1> QED BY <1>8, <1>10, <1>11, <1>13 DEF RebalancingInv

\* Instructions change that are not executed.
LEMMA InstructionsMove ==
  ASSUME RebalancingInv, UNCHANGED <<funds, outside, reported, runs, break, moved>>, RebalancingTypes', InstructionsAreSeen',
         Executed(instruction') = Executed(instruction),
         \A n \in Executed(instruction) : instruction'[n] = instruction[n]
  PROVE  RebalancingInv'
<1>1. PICK next : next = instruction'
  OBVIOUS
<1>2. \A a : Sent(next, a) = Sent(instruction, a) /\ Received(next, a) = Received(instruction, a)
  BY <1>1, SameMoves
<1>3. Balanced(instruction)'
  BY <1>1, <1>2 DEF RebalancingInv, Balanced, Rebalancing!Total
<1>4. RunsReport'
  BY ReportsStand DEF RebalancingInv, Rebalancing!Total
<1> QED BY <1>3, <1>4 DEF RebalancingInv

LEMMA RecommendKeeps ==
  ASSUME RebalancingInv, NEW user \in Users, NEW a \in Holders, NEW target \in Targets, NEW permitted \in SUBSET Holders,
         NEW threshold \in Thresholds, NEW fee \in Fees,
         Rebalancing!RecommendForShortfall(user, a, target, permitted, threshold, fee)
  PROVE  RebalancingInv'
<1>1. PICK shortfall : shortfall = target - funds[a].available
  OBVIOUS
<1>2. PICK source \in Rebalancing!Eligible(permitted, a, shortfall, fee) :
        instruction' = Append(instruction,
          [source |-> source, destination |-> a, amount |-> shortfall, fee |-> fee, createdBy |-> user,
           approvedBy |-> "none", approvalRequired |-> shortfall > threshold,
           status |-> IF shortfall > threshold THEN "pending_approval" ELSE "approved"])
  BY <1>1 DEF Rebalancing!RecommendForShortfall
<1>3. source \in Holders /\ source # a
  BY <1>2 DEF Rebalancing!Eligible
<1>4. shortfall \in Nat /\ threshold \in Nat /\ fee \in Nat
  <2>1. target \in Nat /\ funds[a].available \in Nat
    BY RebalancingConstants DEF RebalancingInv, RebalancingTypes, FundRows
  <2>2. shortfall > 0
    BY <1>1 DEF Rebalancing!RecommendForShortfall
  <2> QED BY <1>1, <2>1, <2>2, RebalancingConstants
<1>5. PICK new :
        new = [source |-> source, destination |-> a, amount |-> shortfall, fee |-> fee, createdBy |-> user,
               approvedBy |-> "none", approvalRequired |-> shortfall > threshold,
               status |-> IF shortfall > threshold THEN "pending_approval" ELSE "approved"]
  OBVIOUS
<1>6. /\ new \in InstructionRows /\ new.source = source /\ new.destination = a
      /\ new.approvalRequired => new.status = "pending_approval"
      /\ new.status # "executed"
  <2>1. CASE shortfall > threshold
    <3>1. new = [source |-> source, destination |-> a, amount |-> shortfall, fee |-> fee, createdBy |-> user,
                 approvedBy |-> "none", approvalRequired |-> TRUE, status |-> "pending_approval"]
      BY <1>5, <2>1
    <3> QED BY <1>3, <1>4, <3>1 DEF InstructionRows
  <2>2. CASE ~(shortfall > threshold)
    <3>1. (shortfall > threshold) = FALSE
      BY <1>4, <2>2
    <3>2. new = [source |-> source, destination |-> a, amount |-> shortfall, fee |-> fee, createdBy |-> user,
                 approvedBy |-> "none", approvalRequired |-> FALSE, status |-> "approved"]
      BY <1>5, <3>1
    <3> QED BY <1>3, <1>4, <3>2 DEF InstructionRows
  <2> QED BY <2>1, <2>2
<1>7. /\ instruction \in Seq(InstructionRows) /\ instruction' = Append(instruction, new)
      /\ Len(instruction) < MaxInstructions /\ UNCHANGED <<funds, outside, buffer, broken, reported, runs, break, moved>>
  BY <1>2, <1>5 DEF Rebalancing!RecommendForShortfall, Rebalancing!ledger, Rebalancing!reconciliation, RebalancingInv, RebalancingTypes
<1>8. PICK length \in Nat : length = Len(instruction)
  BY <1>7
<1>9. /\ instruction' \in Seq(InstructionRows) /\ Len(instruction') = length + 1
      /\ DOMAIN instruction = 1 .. length /\ DOMAIN instruction' = 1 .. length + 1
      /\ instruction'[length + 1] = new /\ \A n \in 1 .. length : instruction'[n] = instruction[n]
  BY <1>6, <1>7, <1>8
<1>10. RebalancingTypes'
  <2>1. length + 1 <= MaxInstructions
    BY <1>7, <1>8, RebalancingConstants
  <2>2. DOMAIN instruction \subseteq DOMAIN instruction'
    BY <1>9
  <2> QED BY <1>7, <1>9, <2>1, <2>2 DEF RebalancingInv, RebalancingTypes
<1>11. InstructionsAreSeen'
  <2> SUFFICES ASSUME NEW n \in 1 .. length + 1
               PROVE  /\ instruction'[n].source # instruction'[n].destination
                      /\ instruction'[n].approvalRequired /\ instruction'[n].status # "pending_approval"
                           => instruction'[n].approvedBy \in Users \ {instruction'[n].createdBy}
    BY <1>9 DEF InstructionsAreSeen
  <2>1. CASE n \in 1 .. length
    BY <1>9, <2>1 DEF RebalancingInv, InstructionsAreSeen
  <2>2. CASE n = length + 1
    BY <1>3, <1>4, <1>6, <1>9, <2>2
  <2> QED BY <1>8, <2>1, <2>2
<1>12. new.status # "executed"
  BY <1>6
<1>13. Executed(instruction') = Executed(instruction)
  <2>1. length + 1 \notin DOMAIN instruction
    BY <1>8, <1>9
  <2>2. DOMAIN instruction' = DOMAIN instruction \cup {length + 1}
    BY <1>8, <1>9
  <2>3. \A n \in DOMAIN instruction : instruction'[n] = instruction[n]
    BY <1>9
  <2> QED BY <1>9, <1>12, <2>1, <2>2, <2>3 DEF Executed
<1>14. \A n \in Executed(instruction) : instruction'[n] = instruction[n]
  BY <1>9 DEF Executed
<1> QED BY <1>7, <1>10, <1>11, <1>13, <1>14, InstructionsMove

LEMMA ApproveKeeps ==
  ASSUME RebalancingInv, NEW user \in Users, NEW n \in DOMAIN instruction, Rebalancing!ApproveRebalance(user, n)
  PROVE  RebalancingInv'
<1>1. PICK old \in InstructionRows : old = instruction[n]
  BY DEF RebalancingInv, RebalancingTypes
<1>2. PICK new : new = [old EXCEPT !.approvedBy = user, !.status = "approved"]
  OBVIOUS
<1>3. /\ new \in InstructionRows /\ new.source = old.source /\ new.destination = old.destination
      /\ new.createdBy = old.createdBy /\ new.approvedBy = user /\ new.approvalRequired = old.approvalRequired /\ new.status = "approved"
  BY <1>2 DEF InstructionRows
<1>4. /\ instruction \in Seq(InstructionRows) /\ instruction' = [instruction EXCEPT ![n] = new]
      /\ old.createdBy # user /\ old.status = "pending_approval"
      /\ UNCHANGED <<funds, outside, buffer, broken, reported, runs, break, moved>>
  BY <1>1, <1>2 DEF Rebalancing!ApproveRebalance, Rebalancing!Checker, Rebalancing!ledger, Rebalancing!reconciliation,
                    RebalancingInv, RebalancingTypes
<1>5. /\ instruction' \in Seq(InstructionRows) /\ Len(instruction') = Len(instruction)
      /\ DOMAIN instruction' = DOMAIN instruction /\ instruction'[n] = new
      /\ \A m \in DOMAIN instruction \ {n} : instruction'[m] = instruction[m]
  BY <1>3, <1>4
<1>6. RebalancingTypes'
  BY <1>4, <1>5 DEF RebalancingInv, RebalancingTypes
<1>7. InstructionsAreSeen'
  <2> SUFFICES ASSUME NEW m \in DOMAIN instruction
               PROVE  /\ instruction'[m].source # instruction'[m].destination
                      /\ instruction'[m].approvalRequired /\ instruction'[m].status # "pending_approval"
                           => instruction'[m].approvedBy \in Users \ {instruction'[m].createdBy}
    BY <1>5 DEF InstructionsAreSeen
  <2>1. CASE m = n
    BY <1>1, <1>3, <1>4, <1>5, <2>1 DEF RebalancingInv, InstructionsAreSeen
  <2>2. CASE m # n
    BY <1>5, <2>2 DEF RebalancingInv, InstructionsAreSeen
  <2> QED BY <2>1, <2>2
<1>8. Executed(instruction') = Executed(instruction) /\ \A m \in Executed(instruction) : instruction'[m] = instruction[m]
  <2>1. n \notin Executed(instruction)
    BY <1>1, <1>4 DEF Executed
  <2>2. n \notin Executed(instruction')
    BY <1>3, <1>5 DEF Executed
  <2> QED BY <1>5, <2>1, <2>2 DEF Executed
<1> QED BY <1>4, <1>6, <1>7, <1>8, InstructionsMove

\* An execution takes the amount and the fee from one account, gives the amount
\* to another, and is one executed instruction more.
LEMMA ExecuteKeeps ==
  ASSUME RebalancingInv, NEW n \in DOMAIN instruction, Rebalancing!ExecuteRebalance(n)
  PROVE  RebalancingInv'
<1>1. PICK old \in InstructionRows : old = instruction[n]
  BY DEF RebalancingInv, RebalancingTypes
<1>2. PICK new : new = [old EXCEPT !.status = "executed"]
  OBVIOUS
<1>3. /\ new \in InstructionRows /\ new.source = old.source /\ new.destination = old.destination /\ new.amount = old.amount /\ new.fee = old.fee
      /\ new.createdBy = old.createdBy /\ new.approvedBy = old.approvedBy
      /\ new.approvalRequired = old.approvalRequired /\ new.status = "executed"
  BY <1>2 DEF InstructionRows
<1>4. PICK from \in Holders : from = old.source
  BY DEF InstructionRows
<1>5. PICK to \in Holders : to = old.destination
  BY DEF InstructionRows
<1>6. PICK amount \in Nat, fee \in Nat : amount = old.amount /\ fee = old.fee
  BY DEF InstructionRows
<1>7. from # to
  BY <1>1, <1>4, <1>5 DEF RebalancingInv, InstructionsAreSeen
<1>8. /\ old.status = "approved" /\ funds[from].available >= amount + fee
      /\ funds' = [funds EXCEPT ![from].available = @ - (amount + fee), ![to].available = @ + amount]
      /\ instruction' = [instruction EXCEPT ![n] = new] /\ moved' = moved \cup {from, to}
      /\ UNCHANGED <<outside, buffer, broken, reported, runs, break>>
  BY <1>1, <1>2, <1>4, <1>5, <1>6
     DEF Rebalancing!ExecuteRebalance, Rebalancing!Covered, Rebalancing!Executed, Rebalancing!reconciliation
<1>9. PICK list \in Seq(InstructionRows) : list = instruction
  BY DEF RebalancingInv, RebalancingTypes
<1>10. PICK next : next = instruction'
  OBVIOUS
<1>11. /\ next \in Seq(InstructionRows) /\ Len(next) = Len(list) /\ DOMAIN next = DOMAIN list /\ next[n] = new
       /\ \A m \in DOMAIN list \ {n} : next[m] = list[m]
  BY <1>3, <1>8, <1>9, <1>10
<1>12. PICK left \in FundRows : left = [funds[from] EXCEPT !.available = funds[from].available - (amount + fee)]
  <2>1. PICK row \in FundRows : row = funds[from]
    BY DEF RebalancingInv, RebalancingTypes
  <2>2. row.available - (amount + fee) \in Nat
    BY <1>8, <2>1, RebalancingConstants DEF FundRows
  <2> QED BY <2>1, <2>2 DEF FundRows
<1>13. PICK got \in FundRows : got = [funds[to] EXCEPT !.available = funds[to].available + amount]
  <2>1. PICK row \in FundRows : row = funds[to]
    BY DEF RebalancingInv, RebalancingTypes
  <2>2. row.available + amount \in Nat
    BY <2>1 DEF FundRows
  <2> QED BY <2>1, <2>2 DEF FundRows
<1>14. /\ funds' \in [Holders -> FundRows] /\ funds'[from] = left /\ funds'[to] = got
       /\ \A a \in Holders \ {from, to} : funds'[a] = funds[a]
  BY <1>7, <1>8, <1>12, <1>13 DEF RebalancingInv, RebalancingTypes
<1>15. RebalancingTypes'
  BY <1>8, <1>9, <1>10, <1>11, <1>14 DEF RebalancingInv, RebalancingTypes
<1>16. InstructionsAreSeen'
  <2> SUFFICES ASSUME NEW m \in DOMAIN list
               PROVE  /\ next[m].source # next[m].destination
                      /\ next[m].approvalRequired /\ next[m].status # "pending_approval"
                           => next[m].approvedBy \in Users \ {next[m].createdBy}
    BY <1>10, <1>11 DEF InstructionsAreSeen
  <2>1. CASE m = n
    BY <1>1, <1>3, <1>8, <1>11, <2>1 DEF RebalancingInv, InstructionsAreSeen
  <2>2. CASE m # n
    BY <1>9, <1>11, <2>2 DEF RebalancingInv, InstructionsAreSeen
  <2> QED BY <2>1, <2>2
<1>17. n \notin Executed(list) /\ Executed(next) = Executed(list) \cup {n} /\ \A m \in Executed(list) : next[m] = list[m]
  <2>1. n \notin Executed(list)
    BY <1>1, <1>8, <1>9 DEF Executed
  <2>2. n \in Executed(next)
    BY <1>3, <1>9, <1>11 DEF Executed
  <2>3. \A m \in DOMAIN list \ {n} : m \in Executed(next) <=> m \in Executed(list)
    BY <1>11 DEF Executed
  <2>4. Executed(next) \subseteq DOMAIN list /\ Executed(list) \subseteq DOMAIN list
    BY <1>11 DEF Executed
  <2>5. \A m \in Executed(list) : next[m] = list[m]
    BY <1>11, <2>1, <2>4
  <2> QED BY <2>1, <2>2, <2>3, <2>4, <2>5
<1>18. ASSUME NEW a \in Holders
       PROVE  Sum(Sent(next, a)) = Sum(Sent(list, a)) + IF a = from THEN amount + fee ELSE 0
  <2>1. CASE a = from
    <3>1. n \notin DOMAIN Sent(list, a) /\ DOMAIN Sent(next, a) = DOMAIN Sent(list, a) \cup {n}
      BY <1>3, <1>4, <1>11, <1>17, <2>1 DEF Sent
    <3>2. n \in DOMAIN Sent(next, a) /\ Sent(next, a)[n] = amount + fee
      <4>1. n \in DOMAIN Sent(next, a)
        BY <3>1
      <4> QED BY <1>3, <1>6, <1>11, <4>1 DEF Sent
    <3>3. \A m \in DOMAIN Sent(list, a) : Sent(next, a)[m] = Sent(list, a)[m]
      BY <1>17, <3>1 DEF Sent
    <3>4. PICK f : f = Sent(list, a)
      OBVIOUS
    <3>5. PICK g : g = Sent(next, a)
      OBVIOUS
    <3>6. IsFiniteSet(DOMAIN f) /\ f \in [DOMAIN f -> Nat] /\ g \in [DOMAIN g -> Nat]
      BY <1>11, <3>4, <3>5, MovesAreNumbers
    <3>7. Sum(g) = Sum(f) + g[n]
      BY <3>1, <3>3, <3>4, <3>5, <3>6, OneMoreAdds
    <3> QED BY <2>1, <3>2, <3>4, <3>5, <3>7
  <2>2. CASE a # from
    <3>1. Sent(next, a) = Sent(list, a)
      BY <1>3, <1>4, <1>11, <1>17, <2>2 DEF Sent
    <3>2. Sum(Sent(list, a)) \in Nat
      BY MovesAreNumbers
    <3> QED BY <2>2, <3>1, <3>2
  <2> QED BY <2>1, <2>2
<1>19. ASSUME NEW a \in Holders
       PROVE  Sum(Received(next, a)) = Sum(Received(list, a)) + IF a = to THEN amount ELSE 0
  <2>1. CASE a = to
    <3>1. n \notin DOMAIN Received(list, a) /\ DOMAIN Received(next, a) = DOMAIN Received(list, a) \cup {n}
      BY <1>3, <1>5, <1>11, <1>17, <2>1 DEF Received
    <3>2. n \in DOMAIN Received(next, a) /\ Received(next, a)[n] = amount
      <4>1. n \in DOMAIN Received(next, a)
        BY <3>1
      <4> QED BY <1>3, <1>6, <1>11, <4>1 DEF Received
    <3>3. \A m \in DOMAIN Received(list, a) : Received(next, a)[m] = Received(list, a)[m]
      BY <1>17, <3>1 DEF Received
    <3>4. PICK f : f = Received(list, a)
      OBVIOUS
    <3>5. PICK g : g = Received(next, a)
      OBVIOUS
    <3>6. IsFiniteSet(DOMAIN f) /\ f \in [DOMAIN f -> Nat] /\ g \in [DOMAIN g -> Nat]
      BY <1>11, <3>4, <3>5, MovesAreNumbers
    <3>7. Sum(g) = Sum(f) + g[n]
      BY <3>1, <3>3, <3>4, <3>5, <3>6, OneMoreAdds
    <3> QED BY <2>1, <3>2, <3>4, <3>5, <3>7
  <2>2. CASE a # to
    <3>1. Received(next, a) = Received(list, a)
      BY <1>3, <1>5, <1>11, <1>17, <2>2 DEF Received
    <3>2. Sum(Received(list, a)) \in Nat
      BY MovesAreNumbers
    <3> QED BY <2>2, <3>1, <3>2
  <2> QED BY <2>1, <2>2
<1>20. ASSUME NEW a \in Holders
       PROVE  Rebalancing!Total(a)' = Rebalancing!Total(a) + (IF a = to THEN amount ELSE 0) - (IF a = from THEN amount + fee ELSE 0)
  <2>1. funds[a].available \in Nat /\ funds[a].reserved \in Nat
    BY DEF RebalancingInv, RebalancingTypes, FundRows
  <2>2. CASE a = from
    <3>1. left.available = funds[a].available - (amount + fee) /\ left.reserved = funds[a].reserved
      BY <1>12, <2>2 DEF RebalancingInv, RebalancingTypes, FundRows
    <3> QED BY <1>7, <1>14, <2>1, <2>2, <3>1, RebalancingConstants DEF Rebalancing!Total
  <2>3. CASE a = to
    <3>1. got.available = funds[a].available + amount /\ got.reserved = funds[a].reserved
      BY <1>13, <2>3 DEF RebalancingInv, RebalancingTypes, FundRows
    <3> QED BY <1>7, <1>14, <2>1, <2>3, <3>1 DEF Rebalancing!Total
  <2>4. CASE a # from /\ a # to
    BY <1>14, <2>1, <2>4 DEF Rebalancing!Total
  <2> QED BY <2>2, <2>3, <2>4
<1>21. ASSUME NEW a \in Holders
       PROVE  Rebalancing!Total(a)' + Sum(Sent(next, a)) = outside[a] + Sum(Received(next, a))
  <2>1. PICK total : total = Rebalancing!Total(a)
    OBVIOUS
  <2>2. PICK sent \in Nat : sent = Sum(Sent(list, a))
    BY MovesAreNumbers
  <2>3. PICK received \in Nat : received = Sum(Received(list, a))
    BY MovesAreNumbers
  <2>4. total \in Nat /\ outside[a] \in Int /\ total + sent = outside[a] + received
    <3>1. outside[a] \in Int
      BY DEF RebalancingInv, RebalancingTypes
    <3>2. funds[a].available \in Nat /\ funds[a].reserved \in Nat
      BY DEF RebalancingInv, RebalancingTypes, FundRows
    <3>3. total \in Nat
      BY <2>1, <3>2 DEF Rebalancing!Total
    <3> QED BY <1>9, <2>1, <2>2, <2>3, <3>1, <3>3 DEF RebalancingInv, Balanced
  <2>5. PICK out \in Nat : out = IF a = from THEN amount + fee ELSE 0
    BY RebalancingConstants
  <2>6. PICK in \in Nat : in = IF a = to THEN amount ELSE 0
    OBVIOUS
  <2>7. Rebalancing!Total(a)' = total + in - out
    BY <1>20, <2>1, <2>5, <2>6
  <2>8. Sum(Sent(next, a)) = sent + out /\ Sum(Received(next, a)) = received + in
    BY <1>18, <1>19, <2>2, <2>3, <2>5, <2>6
  <2> QED BY <2>4, <2>7, <2>8
<1>22. Balanced(instruction)'
  BY <1>8, <1>10, <1>21 DEF Balanced
<1>23. \A a \in Holders \ moved' : Rebalancing!Total(a)' = Rebalancing!Total(a)
  BY <1>8, <1>14 DEF Rebalancing!Total
<1>24. RunsReport'
  BY <1>8, <1>23, ReportsStand DEF RebalancingInv
<1> QED BY <1>15, <1>16, <1>22, <1>24 DEF RebalancingInv

\* A run reports every difference there is, behind the breaks of earlier runs.
LEMMA ReconciliationKeeps ==
  ASSUME RebalancingInv, Rebalancing!RunDailyReconciliation
  PROVE  RebalancingInv'
<1>1. PICK found : found = Rebalancing!Mismatched
  OBVIOUS
<1>2. PICK count \in Nat : count = Rebalancing!Cardinality(found)
  <2>1. found \subseteq Holders
    BY <1>1 DEF Rebalancing!Mismatched
  <2> QED BY <2>1, RebalancingConstants, FiniteSetsOfInstances, FS_Subset, FS_CardinalityType
<1>3. PICK order \in [1 .. count -> found] :
        /\ \A a \in found : \E n \in DOMAIN order : order[n] = a
        /\ break' = break \o [n \in DOMAIN order |->
             [run |-> runs + 1, account |-> order[n], delta |-> Rebalancing!Delta(order[n]), status |-> "open"]]
  BY <1>1, <1>2 DEF Rebalancing!RunDailyReconciliation, Rebalancing!ToReport
<1>4. PICK more : more = [n \in 1 .. count |->
        [run |-> runs + 1, account |-> order[n], delta |-> Rebalancing!Delta(order[n]), status |-> "open"]]
  OBVIOUS
<1>5. runs \in Nat
  BY DEF RebalancingInv, RebalancingTypes
<1>6. ASSUME NEW n \in 1 .. count PROVE more[n] \in BreakRows
  <2>1. PICK a \in Holders : a = order[n]
    BY <1>1 DEF Rebalancing!Mismatched
  <2>2. funds[a].available \in Nat /\ funds[a].reserved \in Nat
    BY DEF RebalancingInv, RebalancingTypes, FundRows
  <2>3. reported[a] \in Int
    BY DEF RebalancingInv, RebalancingTypes, Rebalancing!NotReported
  <2>4. Rebalancing!Delta(a) \in Int
    BY <2>2, <2>3 DEF Rebalancing!Delta, Rebalancing!Total
  <2> QED BY <1>4, <1>5, <2>1, <2>4 DEF BreakRows
<1>7. more \in Seq(BreakRows) /\ Len(more) = count
  BY <1>4, <1>6
<1>8. break \in Seq(BreakRows) /\ break' = break \o more
  BY <1>3, <1>4 DEF RebalancingInv, RebalancingTypes
<1>9. PICK length \in Nat : length = Len(break)
  BY <1>8
<1>10. /\ break' \in Seq(BreakRows) /\ Len(break') = length + count
       /\ \A n \in 1 .. count : length + n \in DOMAIN break' /\ break'[length + n] = more[n]
  <2>1. /\ Len(break') = length + count /\ break' \in Seq(BreakRows)
        /\ \A n \in 1 .. length + count : break'[n] = IF n <= length THEN break[n] ELSE more[n - length]
    BY <1>7, <1>8, <1>9, ConcatProperties
  <2>2. ASSUME NEW n \in 1 .. count PROVE length + n \in DOMAIN break' /\ break'[length + n] = more[n]
    <3>1. n \in Nat /\ n > 0 /\ n <= count
      OBVIOUS
    <3>2. length + n \in 1 .. length + count /\ ~(length + n <= length) /\ (length + n) - length = n
      BY <3>1
    <3> QED BY <2>1, <3>2
  <2> QED BY <2>1, <2>2
<1>11. /\ length + count <= MaxBreaks /\ runs < MaxRuns /\ runs' = runs + 1 /\ moved' = {}
       /\ UNCHANGED <<funds, outside, movements, buffer, instruction, broken, reported>>
  BY <1>1, <1>2, <1>9 DEF Rebalancing!RunDailyReconciliation, Rebalancing!ToReport, Rebalancing!ledger
<1>12. runs' \in Nat /\ runs' <= MaxRuns
  BY <1>5, <1>11, RebalancingConstants
<1>13. RebalancingTypes'
  BY <1>10, <1>11, <1>12 DEF RebalancingInv, RebalancingTypes
<1>14. ASSUME NEW a \in found
       PROVE  \E n \in DOMAIN break' : break'[n].run = runs' /\ break'[n].account = a /\ break'[n].delta = Rebalancing!Delta(a)
  <2>1. PICK n \in 1 .. count : order[n] = a
    BY <1>3
  <2>2. break'[length + n] = [run |-> runs + 1, account |-> a, delta |-> Rebalancing!Delta(a), status |-> "open"]
    BY <1>4, <1>10, <2>1
  <2> QED BY <1>10, <1>11, <2>2
<1>15. Rebalancing!Mismatched' = found /\ \A a : Rebalancing!Delta(a)' = Rebalancing!Delta(a)
  BY <1>1, <1>11 DEF Rebalancing!Mismatched, Rebalancing!Delta, Rebalancing!Total
<1>16. RunsReport'
  BY <1>14, <1>15 DEF RunsReport
<1> QED BY <1>11, <1>13, <1>16, LedgerStays

LEMMA TreatKeeps ==
  ASSUME RebalancingInv, NEW n \in DOMAIN break, NEW state \in {"assigned", "resolved"}, Rebalancing!TreatBreak(n, state)
  PROVE  RebalancingInv'
<1>1. PICK old \in BreakRows : old = break[n]
  BY DEF RebalancingInv, RebalancingTypes
<1>2. PICK new \in BreakRows : new = [old EXCEPT !.status = state]
  BY DEF BreakRows
<1>3. /\ break \in Seq(BreakRows) /\ break' = [break EXCEPT ![n] = new]
      /\ UNCHANGED <<funds, outside, movements, buffer, instruction, broken, reported, runs, moved>>
  BY <1>1, <1>2 DEF Rebalancing!TreatBreak, Rebalancing!ledger, RebalancingInv, RebalancingTypes
<1>4. /\ break' \in Seq(BreakRows) /\ Len(break') = Len(break) /\ DOMAIN break' = DOMAIN break
      /\ break'[n] = new /\ \A m \in DOMAIN break \ {n} : break'[m] = break[m]
  BY <1>3
<1>5. RebalancingTypes'
  BY <1>3, <1>4 DEF RebalancingInv, RebalancingTypes
<1>6. new.run = old.run /\ new.account = old.account /\ new.delta = old.delta
  BY <1>2 DEF BreakRows
<1>7. \A m \in DOMAIN break :
        break'[m].run = break[m].run /\ break'[m].account = break[m].account /\ break'[m].delta = break[m].delta
  BY <1>1, <1>4, <1>6
<1>8. Rebalancing!Mismatched' = Rebalancing!Mismatched /\ \A a : Rebalancing!Delta(a)' = Rebalancing!Delta(a)
  BY <1>3 DEF Rebalancing!Mismatched, Rebalancing!Delta, Rebalancing!Total
<1>9. RunsReport
  BY DEF RebalancingInv
<1>10. RunsReport'
  BY <1>3, <1>4, <1>7, <1>8, <1>9 DEF RunsReport
<1> QED BY <1>3, <1>5, <1>10, LedgerStays

LEMMA RebalancingKeeps ==
  ASSUME RebalancingInv, [Rebalancing!Next]_rebalancingVars
  PROVE  RebalancingInv'
<1>1. CASE UNCHANGED rebalancingVars
  <2>1. UNCHANGED <<funds, buffer, instruction, broken, reported, runs, break, moved, outside, movements>>
    BY <1>1 DEF rebalancingVars
  <2>2. RebalancingTypes'
    BY <2>1 DEF RebalancingInv, RebalancingTypes
  <2>3. RunsReport'
    BY <2>1, ReportsStand DEF RebalancingInv, Rebalancing!Total
  <2> QED BY <2>1, <2>2, <2>3, LedgerStays
<1>2. ASSUME NEW a \in Holders, NEW available \in 0 .. MaxBalance, NEW reserved \in 0 .. MaxReserved,
             Rebalancing!Elsewhere(a, available, reserved)
      PROVE  RebalancingInv'
  <2>1. available \in Nat /\ reserved \in Nat
    BY RebalancingAssumption DEF Rebalancing!RebalancingAssumption
  <2> QED BY <1>2, <2>1, ElsewhereKeeps
<1>3. ASSUME NEW a \in Holders, NEW minimum \in Buffers, Rebalancing!SetPolicy(a, minimum)
      PROVE  RebalancingInv'
  <2>1. /\ buffer' = [buffer EXCEPT ![a] = minimum]
        /\ UNCHANGED <<funds, outside, movements, instruction, broken, reported, runs, break, moved>>
    BY <1>3 DEF Rebalancing!SetPolicy, Rebalancing!ledger, Rebalancing!reconciliation
  <2>2. RebalancingTypes'
    BY <2>1, RebalancingConstants DEF RebalancingInv, RebalancingTypes
  <2>3. RunsReport'
    BY <2>1, ReportsStand DEF RebalancingInv, Rebalancing!Total
  <2> QED BY <2>1, <2>2, <2>3, LedgerStays
<1>4. ASSUME NEW a \in Holders, NEW amount \in Reports, Rebalancing!CaptureCircleBalanceSnapshot(a, amount)
      PROVE  RebalancingInv'
  <2>1. /\ reported' = [reported EXCEPT ![a] = amount] /\ moved' = moved \cup {a}
        /\ UNCHANGED <<funds, outside, movements, buffer, instruction, broken, runs, break>>
    BY <1>4 DEF Rebalancing!CaptureCircleBalanceSnapshot, Rebalancing!ledger, Rebalancing!reconciliation
  <2>2. RebalancingTypes'
    BY <2>1, RebalancingConstants DEF RebalancingInv, RebalancingTypes
  <2>3. \A b \in Holders \ moved' : reported'[b] = reported[b]
    BY <2>1 DEF RebalancingInv, RebalancingTypes
  <2>4. RunsReport'
    BY <2>1, <2>3, ReportsStand DEF RebalancingInv, Rebalancing!Total
  <2> QED BY <2>1, <2>2, <2>4, LedgerStays
<1>5. ASSUME NEW a \in Holders, NEW user \in Users, NEW target \in Targets, NEW permitted \in SUBSET Holders,
             NEW threshold \in Thresholds, NEW fee \in Fees,
             Rebalancing!RecommendForShortfall(user, a, target, permitted, threshold, fee)
      PROVE  RebalancingInv'
  BY <1>5, RecommendKeeps
<1>6. ASSUME NEW n \in DOMAIN instruction, NEW user \in Users, Rebalancing!ApproveRebalance(user, n)
      PROVE  RebalancingInv'
  BY <1>6, ApproveKeeps
<1>7. ASSUME NEW n \in DOMAIN instruction, Rebalancing!ExecuteRebalance(n)
      PROVE  RebalancingInv'
  BY <1>7, ExecuteKeeps
<1>8. ASSUME NEW n \in DOMAIN instruction, Rebalancing!MarkPositionSnapshotBroken(n)
      PROVE  RebalancingInv'
  <2>1. broken' = broken \cup {n} /\ UNCHANGED <<funds, outside, movements, buffer, instruction, reported, runs, break, moved>>
    BY <1>8 DEF Rebalancing!MarkPositionSnapshotBroken, Rebalancing!ledger, Rebalancing!reconciliation
  <2>2. RebalancingTypes'
    BY <2>1 DEF RebalancingInv, RebalancingTypes
  <2>3. RunsReport'
    BY <2>1, ReportsStand DEF RebalancingInv, Rebalancing!Total
  <2> QED BY <2>1, <2>2, <2>3, LedgerStays
<1>9. CASE Rebalancing!RunDailyReconciliation
  BY <1>9, ReconciliationKeeps
<1>10. ASSUME NEW n \in DOMAIN break, NEW state \in {"assigned", "resolved"}, Rebalancing!TreatBreak(n, state)
       PROVE  RebalancingInv'
  BY <1>10, TreatKeeps
<1> QED BY <1>1, <1>2, <1>3, <1>4, <1>5, <1>6, <1>7, <1>8, <1>9, <1>10 DEF Rebalancing!Next

LEMMA RebalancingKeepsTypes ==
  ASSUME RebalancingInv
  PROVE  /\ Rebalancing!TypeOK /\ Rebalancing!BalancesMatchRebalances
         /\ Rebalancing!RequiredApprovalsHaveTwoUsers /\ Rebalancing!ReadyCloseIsReviewed
<1>1. Rebalancing!TypeOK
  BY Instructions DEF RebalancingInv, RebalancingTypes, FundRows, Rebalancing!TypeOK
<1>2. Rebalancing!RequiredApprovalsHaveTwoUsers
  BY DEF RebalancingInv, InstructionsAreSeen, Rebalancing!RequiredApprovalsHaveTwoUsers
<1>3. Rebalancing!ReadyCloseIsReviewed
  BY DEF RebalancingInv, RunsReport, Rebalancing!ReadyCloseIsReviewed, Rebalancing!DailyCloseReady
<1> QED BY <1>1, <1>2, <1>3, BalancedAgrees DEF RebalancingInv

-----------------------------------------------------------------------------
(* DomainOnboarding *)

Stages == {"draft", "submitted", "approved"}
ClientRows == [status : Stages, circle : CircleIds \cup {"none"} \cup Applications, key : Keys]
ApplicationRows == [status : Stages, client : Clients, dated : BOOLEAN]
Creating == [kind : {"create"}, client : Clients]
Awaiting == [kind : {"submit", "poll"}, id : Applications, read : ApplicationRows, answer : {"none"} \cup Stages]

\* An application is known to the provider and is of a client there is; approved,
\* it has been approved there.
ApplicationsAreFiled ==
  \A x \in Applications : application[x] # Onboarding!None =>
    /\ provider[x] # "none"
    /\ client[application[x].client] # Onboarding!None
    /\ application[x].status = "approved" => x \in approvals

\* A call has read a client, or the client of the application it will store, which
\* never changes; told that it is approved, it has been.
CallsHaveRead ==
  \A p \in Calls :
    /\ pending[p].kind = "create" => client[pending[p].client] # Onboarding!None
    /\ pending[p].kind \in {"submit", "poll"} =>
         /\ application[pending[p].id] # Onboarding!None
         /\ pending[p].read.client = application[pending[p].id].client
         /\ pending[p].answer = "approved" => pending[p].id \in approvals

OnboardingTypes ==
  /\ client \in [Clients -> {Onboarding!None} \cup ClientRows]
  /\ application \in [Applications -> {Onboarding!None} \cup ApplicationRows]
  /\ provider \in [Applications -> {"none"} \cup Stages]
  /\ pending \in [Calls -> {Onboarding!Idle} \cup Creating \cup Awaiting]
  /\ account \subseteq Applications /\ approvals \subseteq Applications

OnboardingInv ==
  /\ OnboardingTypes
  /\ ApplicationsAreFiled
  /\ CallsHaveRead
  /\ \A x \in account : application[x] # Onboarding!None
  /\ Onboarding!AccountsFollowApprovals

LEMMA RowsOfOnboarding ==
  /\ Onboarding!None.status = "none" /\ Onboarding!Idle.kind = "idle"
  /\ \A v \in ClientRows : v.status \in Stages /\ v.key \in Keys /\ v # Onboarding!None
  /\ \A v \in ApplicationRows : v.status \in Stages /\ v.client \in Clients /\ v # Onboarding!None
  /\ \A v \in Creating : v.kind = "create" /\ v.client \in Clients
  /\ \A v \in Awaiting :
       v.kind \in {"submit", "poll"} /\ v.id \in Applications /\ v.read \in ApplicationRows
       /\ v.answer \in {"none"} \cup Stages
BY DEF Onboarding!None, Onboarding!Idle, ClientRows, ApplicationRows, Creating, Awaiting, Stages

LEMMA PendingCalls ==
  ASSUME OnboardingTypes, NEW p \in Calls
  PROVE  /\ pending[p].kind = "create" => pending[p] \in Creating
         /\ pending[p].kind \in {"submit", "poll"} => pending[p] \in Awaiting
BY RowsOfOnboarding DEF OnboardingTypes

LEMMA OnboardingInit == Onboarding!Init => OnboardingInv
<1> SUFFICES ASSUME Onboarding!Init PROVE OnboardingInv
  OBVIOUS
<1>1. OnboardingTypes
  BY DEF Onboarding!Init, OnboardingTypes
<1>2. ApplicationsAreFiled /\ CallsHaveRead /\ account = {}
  BY RowsOfOnboarding DEF Onboarding!Init, ApplicationsAreFiled, CallsHaveRead
<1> QED BY <1>1, <1>2 DEF OnboardingInv, Onboarding!AccountsFollowApprovals

LEMMA CreateClientKeeps ==
  ASSUME OnboardingInv, NEW k \in Keys, NEW c \in Clients, NEW stage \in Stages, NEW circle \in CircleIds \cup {"none"},
         Onboarding!CreateBusinessClient(k, c, stage, circle)
  PROVE  OnboardingInv'
<1>1. PICK new \in ClientRows : new = [status |-> stage, circle |-> circle, key |-> k]
  BY DEF ClientRows
<1>2. client' = [client EXCEPT ![c] = new] /\ UNCHANGED <<account, application, provider, pending, approvals>>
  BY <1>1 DEF Onboarding!CreateBusinessClient
<1>3. client[c] = Onboarding!None /\ new # Onboarding!None
  BY RowsOfOnboarding DEF Onboarding!CreateBusinessClient
<1>4. OnboardingTypes'
  BY <1>2 DEF OnboardingInv, OnboardingTypes
<1>5. \A d \in Clients : client[d] # Onboarding!None => client'[d] = client[d]
  BY <1>2, <1>3 DEF OnboardingInv, OnboardingTypes
<1>6. \A d \in Clients : client[d] # Onboarding!None => client'[d] # Onboarding!None
  BY <1>5
<1>7. ApplicationsAreFiled'
  BY <1>2, <1>6, RowsOfOnboarding DEF OnboardingInv, OnboardingTypes, ApplicationsAreFiled
<1>8. CallsHaveRead'
  BY <1>2, <1>6, PendingCalls, RowsOfOnboarding DEF OnboardingInv, CallsHaveRead
<1>9. Onboarding!AccountsFollowApprovals'
  <2>1. ASSUME NEW x \in account PROVE client'[application[x].client] = client[application[x].client]
    BY <1>5, RowsOfOnboarding DEF OnboardingInv, OnboardingTypes, ApplicationsAreFiled
  <2> QED BY <1>2, <2>1 DEF OnboardingInv, Onboarding!AccountsFollowApprovals
<1> QED BY <1>2, <1>4, <1>7, <1>8, <1>9 DEF OnboardingInv

LEMMA BeginKeeps ==
  ASSUME OnboardingInv, NEW p \in Calls, NEW v \in Creating \cup Awaiting, pending' = [pending EXCEPT ![p] = v],
         v \in Creating => client[v.client] # Onboarding!None,
         v \in Awaiting => application[v.id] # Onboarding!None /\ v.read = application[v.id] /\ v.answer = "none",
         UNCHANGED <<client, account, application, provider, approvals>>
  PROVE  OnboardingInv'
<1>1. OnboardingTypes' /\ pending'[p] = v /\ \A q \in Calls \ {p} : pending'[q] = pending[q]
  BY DEF OnboardingInv, OnboardingTypes
<1>2. ApplicationsAreFiled' /\ Onboarding!AccountsFollowApprovals'
  BY DEF OnboardingInv, ApplicationsAreFiled, Onboarding!AccountsFollowApprovals
<1>3. v.kind = "create" => v \in Creating
  BY RowsOfOnboarding
<1>4. v.kind \in {"submit", "poll"} => v \in Awaiting
  BY RowsOfOnboarding
<1>5. CallsHaveRead'
  BY <1>1, <1>3, <1>4 DEF OnboardingInv, CallsHaveRead
<1> QED BY <1>1, <1>2, <1>5 DEF OnboardingInv

\* The provider's ids are new, so that no application is replaced by another's.
LEMMA EndCreateKeeps ==
  ASSUME OnboardingInv, NEW p \in Calls, NEW x \in Applications, Onboarding!EndCreate(p, x)
  PROVE  OnboardingInv'
<1>1. PICK old \in Creating : pending[p] = old
  BY PendingCalls DEF OnboardingInv, Onboarding!EndCreate
<1>2. PICK new \in ApplicationRows : new = [status |-> "draft", client |-> old.client, dated |-> FALSE]
  BY RowsOfOnboarding DEF ApplicationRows, Stages
<1>3. /\ provider' = [provider EXCEPT ![x] = "draft"] /\ application' = [application EXCEPT ![x] = new]
      /\ pending' = [pending EXCEPT ![p] = Onboarding!Idle] /\ UNCHANGED <<client, account, approvals>>
  BY <1>1, <1>2 DEF Onboarding!EndCreate, Onboarding!sprint1
<1>4. application[x] = Onboarding!None
  BY DEF OnboardingInv, ApplicationsAreFiled, Onboarding!EndCreate
<1>5. OnboardingTypes'
  BY <1>3 DEF OnboardingInv, OnboardingTypes, Stages
<1>6. \A y \in Applications : application[y] # Onboarding!None => application'[y] = application[y]
  BY <1>3, <1>4 DEF OnboardingInv, OnboardingTypes
<1>7. new.client = old.client /\ new.status = "draft"
  BY <1>2
<1>8. ApplicationsAreFiled'
  <2>1. client[old.client] # Onboarding!None
    BY <1>1, RowsOfOnboarding DEF OnboardingInv, CallsHaveRead
  <2> SUFFICES ASSUME NEW y \in Applications, application'[y] # Onboarding!None
               PROVE  /\ provider'[y] # "none" /\ client[application'[y].client] # Onboarding!None
                      /\ application'[y].status = "approved" => y \in approvals
    BY <1>3 DEF ApplicationsAreFiled
  <2>2. CASE y = x
    <3>1. application'[y] = new /\ provider'[y] = "draft"
      BY <1>3, <2>2 DEF OnboardingInv, OnboardingTypes
    <3> QED BY <1>7, <2>1, <3>1
  <2>3. CASE y # x
    BY <1>3, <2>3 DEF OnboardingInv, OnboardingTypes, ApplicationsAreFiled
  <2> QED BY <2>2, <2>3
<1>9. CallsHaveRead'
  <2> SUFFICES ASSUME NEW q \in Calls, q # p
               PROVE  /\ pending[q].kind = "create" => client[pending[q].client] # Onboarding!None
                      /\ pending[q].kind \in {"submit", "poll"} =>
                           /\ application'[pending[q].id] # Onboarding!None
                           /\ pending[q].read.client = application'[pending[q].id].client
                           /\ pending[q].answer = "approved" => pending[q].id \in approvals
    BY <1>3, RowsOfOnboarding DEF OnboardingInv, OnboardingTypes, CallsHaveRead
  <2> QED BY <1>6, PendingCalls, RowsOfOnboarding DEF OnboardingInv, CallsHaveRead
<1>10. \A y \in account : application'[y] = application[y] /\ y \in Applications
  BY <1>6 DEF OnboardingInv, OnboardingTypes
<1>11. Onboarding!AccountsFollowApprovals'
  BY <1>3, <1>10 DEF OnboardingInv, Onboarding!AccountsFollowApprovals
<1> QED BY <1>3, <1>5, <1>8, <1>9, <1>10, <1>11 DEF OnboardingInv

LEMMA ProviderKeeps ==
  ASSUME OnboardingInv, NEW p \in Calls, Onboarding!Provider(p)
  PROVE  OnboardingInv'
<1>1. PICK old \in Awaiting : pending[p] = old
  BY PendingCalls DEF OnboardingInv, Onboarding!Provider
<1>2. PICK stage : stage = Onboarding!Answer(old.kind, provider[old.id])
  OBVIOUS
<1>3. stage \in Stages
  <2>1. provider[old.id] \in Stages
    BY <1>1, RowsOfOnboarding DEF OnboardingInv, OnboardingTypes, CallsHaveRead, ApplicationsAreFiled
  <2> QED BY <1>2, <2>1 DEF Onboarding!Answer, Stages
<1>4. PICK new : new = [old EXCEPT !.answer = stage]
  OBVIOUS
<1>5. new \in Awaiting /\ new.kind = old.kind /\ new.id = old.id /\ new.read = old.read /\ new.answer = stage
  BY <1>3, <1>4 DEF Awaiting
<1>6. /\ provider' = [provider EXCEPT ![old.id] = stage] /\ pending' = [pending EXCEPT ![p] = new]
      /\ UNCHANGED <<client, account, application>>
      /\ approvals' = IF stage = "approved" THEN approvals \cup {old.id} ELSE approvals
  BY <1>1, <1>2, <1>4 DEF Onboarding!Provider, Onboarding!sprint1
<1>7. old.id \in Applications
  BY RowsOfOnboarding
<1>8. OnboardingTypes' /\ pending'[p] = new /\ \A q \in Calls \ {p} : pending'[q] = pending[q]
  BY <1>3, <1>5, <1>6, <1>7 DEF OnboardingInv, OnboardingTypes
<1>9. approvals \subseteq approvals' /\ (stage = "approved" => old.id \in approvals')
  BY <1>6
<1>10. ApplicationsAreFiled'
  <2>1. \A x \in Applications : provider[x] # "none" => provider'[x] # "none"
    BY <1>3, <1>6 DEF OnboardingInv, OnboardingTypes, Stages
  <2> QED BY <1>6, <1>9, <2>1 DEF OnboardingInv, ApplicationsAreFiled
<1>11. CallsHaveRead'
  <2> SUFFICES ASSUME NEW q \in Calls
               PROVE  /\ pending'[q].kind = "create" => client[pending'[q].client] # Onboarding!None
                      /\ pending'[q].kind \in {"submit", "poll"} =>
                           /\ application[pending'[q].id] # Onboarding!None
                           /\ pending'[q].read.client = application[pending'[q].id].client
                           /\ pending'[q].answer = "approved" => pending'[q].id \in approvals'
    BY <1>6 DEF CallsHaveRead
  <2>1. CASE q = p
    BY <1>1, <1>5, <1>8, <1>9, <2>1, RowsOfOnboarding DEF OnboardingInv, CallsHaveRead
  <2>2. CASE q # p
    BY <1>8, <1>9, <2>2 DEF OnboardingInv, CallsHaveRead
  <2> QED BY <2>1, <2>2
<1>12. Onboarding!AccountsFollowApprovals'
  BY <1>6, <1>9 DEF OnboardingInv, Onboarding!AccountsFollowApprovals
<1> QED BY <1>6, <1>8, <1>10, <1>11, <1>12 DEF OnboardingInv

\* A copy that is stored is of the client the application always had.
LEMMA EndKeeps ==
  ASSUME OnboardingInv, NEW p \in Calls, Onboarding!End(p)
  PROVE  OnboardingInv'
<1>1. PICK old \in Awaiting : pending[p] = old /\ old.answer # "none"
  BY PendingCalls DEF OnboardingInv, Onboarding!End
<1>2. PICK dated \in BOOLEAN : dated = (old.read.dated \/ (old.kind = "poll" /\ old.answer = "approved"))
  OBVIOUS
<1>3. PICK x \in Applications : x = old.id
  BY RowsOfOnboarding
<1>4. PICK read \in ApplicationRows : read = old.read
  BY RowsOfOnboarding
<1>5. PICK new : new = [read EXCEPT !.status = old.answer, !.dated = dated]
  OBVIOUS
<1>6. new \in ApplicationRows /\ new.client = read.client /\ new.status = old.answer
  <2>1. old.answer \in Stages
    BY <1>1, RowsOfOnboarding
  <2> QED BY <1>5, <2>1 DEF ApplicationRows
<1>7. application' = [application EXCEPT ![x] = new] /\ pending' = [pending EXCEPT ![p] = Onboarding!Idle]
      /\ UNCHANGED <<client, account, provider, approvals>>
  <2>1. Onboarding!Stored(old) = new
    BY <1>2, <1>4, <1>5 DEF Onboarding!Stored
  <2> QED BY <1>1, <1>3, <2>1 DEF Onboarding!End, Onboarding!sprint1
<1>8. OnboardingTypes'
  BY <1>6, <1>7 DEF OnboardingInv, OnboardingTypes
<1>9. /\ application[x] # Onboarding!None /\ new.client = application[x].client
      /\ new.status = "approved" => x \in approvals
  BY <1>1, <1>3, <1>4, <1>6, RowsOfOnboarding DEF OnboardingInv, CallsHaveRead
<1>10. /\ application'[x] = new /\ new # Onboarding!None
       /\ \A y \in Applications \ {x} : application'[y] = application[y]
  BY <1>6, <1>7, RowsOfOnboarding DEF OnboardingInv, OnboardingTypes
<1>11. \A y \in Applications : application[y] # Onboarding!None =>
         application'[y] # Onboarding!None /\ application'[y].client = application[y].client
  BY <1>9, <1>10
<1>12. ApplicationsAreFiled'
  <2> SUFFICES ASSUME NEW y \in Applications, application'[y] # Onboarding!None
               PROVE  /\ provider[y] # "none" /\ client[application'[y].client] # Onboarding!None
                      /\ application'[y].status = "approved" => y \in approvals
    BY <1>7 DEF ApplicationsAreFiled
  <2>1. CASE y = x
    BY <1>9, <1>10, <2>1 DEF OnboardingInv, ApplicationsAreFiled
  <2>2. CASE y # x
    BY <1>10, <2>2 DEF OnboardingInv, ApplicationsAreFiled
  <2> QED BY <2>1, <2>2
<1>13. CallsHaveRead'
  <2> SUFFICES ASSUME NEW q \in Calls, q # p
               PROVE  /\ pending[q].kind = "create" => client[pending[q].client] # Onboarding!None
                      /\ pending[q].kind \in {"submit", "poll"} =>
                           /\ application'[pending[q].id] # Onboarding!None
                           /\ pending[q].read.client = application'[pending[q].id].client
                           /\ pending[q].answer = "approved" => pending[q].id \in approvals
    BY <1>7, RowsOfOnboarding DEF OnboardingInv, OnboardingTypes, CallsHaveRead
  <2> QED BY <1>11, PendingCalls, RowsOfOnboarding DEF OnboardingInv, CallsHaveRead
<1>14. \A y \in account : application'[y] # Onboarding!None /\ application'[y].client = application[y].client
  BY <1>11 DEF OnboardingInv, OnboardingTypes
<1>15. Onboarding!AccountsFollowApprovals'
  BY <1>7, <1>14 DEF OnboardingInv, Onboarding!AccountsFollowApprovals
<1> QED BY <1>7, <1>8, <1>12, <1>13, <1>14, <1>15 DEF OnboardingInv

\* A submitted client has no account yet: those who have one are approved.
LEMMA MapKeeps ==
  ASSUME OnboardingInv, NEW x \in Applications, Onboarding!MapApprovedApplication(x)
  PROVE  OnboardingInv'
<1>1. /\ application[x] # Onboarding!None /\ application[x].status = "approved"
      /\ client[application[x].client].status = "submitted"
  BY DEF Onboarding!MapApprovedApplication, Onboarding!Approved, Onboarding!Submitted
<1>2. PICK c \in Clients : c = application[x].client
  BY <1>1, RowsOfOnboarding DEF OnboardingInv, OnboardingTypes
<1>3. PICK old \in ClientRows : client[c] = old
  BY <1>1, <1>2, RowsOfOnboarding DEF OnboardingInv, OnboardingTypes
<1>4. PICK new : new = [old EXCEPT !.status = "approved", !.circle = x]
  OBVIOUS
<1>5. new \in ClientRows /\ new.status = "approved" /\ new.circle = x /\ new # Onboarding!None
  <2>1. new \in ClientRows /\ new.status = "approved" /\ new.circle = x
    BY <1>4 DEF ClientRows, Stages
  <2> QED BY <2>1, RowsOfOnboarding
<1>6. client' = [client EXCEPT ![c] = new] /\ account' = account \cup {x}
      /\ UNCHANGED <<application, provider, pending, approvals>>
  BY <1>2, <1>3, <1>4 DEF Onboarding!MapApprovedApplication, OnboardingInv, OnboardingTypes
<1>7. OnboardingTypes' /\ client'[c] = new /\ \A d \in Clients \ {c} : client'[d] = client[d]
  BY <1>5, <1>6 DEF OnboardingInv, OnboardingTypes
<1>8. \A d \in Clients : client[d] # Onboarding!None => client'[d] # Onboarding!None
  BY <1>5, <1>7
<1>9. ApplicationsAreFiled'
  BY <1>6, <1>8, RowsOfOnboarding DEF OnboardingInv, OnboardingTypes, ApplicationsAreFiled
<1>10. CallsHaveRead'
  BY <1>6, <1>8, PendingCalls, RowsOfOnboarding DEF OnboardingInv, CallsHaveRead
<1>11. ASSUME NEW y \in account PROVE application[y].client \in Clients \ {c}
  <2>1. application[y].client \in Clients
    BY RowsOfOnboarding DEF OnboardingInv, OnboardingTypes
  <2>2. client[application[y].client].status = "approved"
    BY DEF OnboardingInv, Onboarding!AccountsFollowApprovals
  <2> QED BY <1>1, <1>2, <2>1, <2>2
<1>12. x \in approvals
  BY <1>1 DEF OnboardingInv, ApplicationsAreFiled
<1>13. Onboarding!AccountsFollowApprovals'
  <2>1. ASSUME NEW y \in account'
        PROVE  y \in approvals' /\ client'[application'[y].client].status = "approved" /\ client'[application'[y].client].circle = y
    <3>1. CASE y = x
      BY <1>2, <1>5, <1>6, <1>7, <1>12, <3>1
    <3>2. CASE y \in account
      BY <1>6, <1>7, <1>11, <3>2 DEF OnboardingInv, Onboarding!AccountsFollowApprovals
    <3> QED BY <1>6, <3>1, <3>2
  <2>2. ASSUME NEW y \in account', NEW z \in account', application'[y].client = application'[z].client
        PROVE  y = z
    BY <1>2, <1>6, <1>11, <2>2 DEF OnboardingInv, Onboarding!AccountsFollowApprovals
  <2> QED BY <2>1, <2>2 DEF Onboarding!AccountsFollowApprovals
<1>14. \A y \in account' : application'[y] # Onboarding!None
  BY <1>1, <1>6 DEF OnboardingInv
<1> QED BY <1>7, <1>9, <1>10, <1>13, <1>14 DEF OnboardingInv

LEMMA OnboardingKeeps ==
  ASSUME OnboardingInv, [Onboarding!Next]_onboardingVars
  PROVE  OnboardingInv'
<1>1. CASE UNCHANGED onboardingVars
  <2>1. UNCHANGED <<client, account, application, provider, pending, approvals>>
    BY <1>1 DEF onboardingVars
  <2> QED BY <2>1 DEF OnboardingInv, OnboardingTypes, ApplicationsAreFiled, CallsHaveRead, Onboarding!AccountsFollowApprovals
<1>2. ASSUME NEW k \in Keys, NEW c \in Clients, NEW stage \in {"draft", "submitted", "approved"},
             NEW circle \in CircleIds \cup {"none"}, Onboarding!CreateBusinessClient(k, c, stage, circle)
      PROVE  OnboardingInv'
  BY <1>2, CreateClientKeeps DEF Stages
<1>3. ASSUME NEW p \in Calls, NEW c \in Clients, Onboarding!BeginCreate(p, c) PROVE OnboardingInv'
  <2>1. PICK v \in Creating : v = [kind |-> "create", client |-> c]
    BY DEF Creating
  <2>2. v.client = c /\ v \notin Awaiting
    BY <2>1, RowsOfOnboarding
  <2> QED BY <1>3, <2>1, <2>2, BeginKeeps DEF Onboarding!BeginCreate, Onboarding!sprint1
<1>4. ASSUME NEW p \in Calls, NEW kind \in {"submit", "poll"}, NEW x \in Applications, Onboarding!Begin(p, kind, x)
      PROVE  OnboardingInv'
  <2>1. PICK read \in ApplicationRows : read = application[x]
    BY <1>4 DEF Onboarding!Begin, OnboardingInv, OnboardingTypes
  <2>2. PICK v \in Awaiting : v = [kind |-> kind, id |-> x, read |-> read, answer |-> "none"]
    BY DEF Awaiting
  <2>3. v.id = x /\ v.read = read /\ v.answer = "none" /\ v \notin Creating
    BY <2>2, RowsOfOnboarding
  <2> QED BY <1>4, <2>1, <2>2, <2>3, BeginKeeps DEF Onboarding!Begin, Onboarding!sprint1
<1>5. ASSUME NEW p \in Calls, NEW x \in Applications, Onboarding!EndCreate(p, x) PROVE OnboardingInv'
  BY <1>5, EndCreateKeeps
<1>6. ASSUME NEW p \in Calls, Onboarding!Provider(p) \/ Onboarding!End(p) PROVE OnboardingInv'
  BY <1>6, ProviderKeeps, EndKeeps
<1>7. ASSUME NEW x \in Applications, Onboarding!MapApprovedApplication(x) PROVE OnboardingInv'
  BY <1>7, MapKeeps
<1> QED BY <1>1, <1>2, <1>3, <1>4, <1>5, <1>6, <1>7 DEF Onboarding!Next

LEMMA OnboardingKeepsTypes == OnboardingInv => Onboarding!TypeOK
BY RowsOfOnboarding DEF OnboardingInv, OnboardingTypes, Onboarding!TypeOK, Stages

-----------------------------------------------------------------------------
(* The services side by side *)

ServicesInv == FundsInv /\ RebalancingInv /\ OnboardingInv

\* A step of one service leaves the others as they are.
LEMMA OneServiceSteps ==
  [Next]_vars => [Funds!Next]_fundsVars /\ [Rebalancing!Next]_rebalancingVars /\ [Onboarding!Next]_onboardingVars
BY DEF Next, FundsStep, RebalancingStep, OnboardingStep, vars

\* The invariants of the three services hold in every reachable state of the
\* domain services, however many accounts, payables and clients there are.
THEOREM Invariant == Spec => []ServicesInv
<1>1. Init => ServicesInv
  BY FundsInit, RebalancingInit, OnboardingInit DEF Init, ServicesInv
<1>2. ServicesInv /\ [Next]_vars => ServicesInv'
  BY OneServiceSteps, FundsKeeps, RebalancingKeeps, OnboardingKeeps DEF ServicesInv
<1> QED BY <1>1, <1>2, PTL DEF Spec

\* Active reservations never exceed what an obligation needs, the funding it
\* shows never falls behind them, and payments spend only what reservations have
\* set aside (sprint3/obligations.ts, sprint5, sprint6): also when a release
\* throws half-way, and whatever is paid, projected and received in between.
THEOREM FundsAddUpAlways == Spec => []FundsAddUp
<1>1. ServicesInv => FundsAddUp
  BY FundsInvIsEnough DEF ServicesInv, FundsAddUp
<1> QED BY <1>1, Invariant, PTL

\* Balances account for every executed rebalance, once, movements whose
\* recommendation required an approval were seen by two users, and accounts
\* follow the provider's approvals (sprint7, sprint2/onboarding.ts), whatever is
\* asked twice or at the wrong time.
THEOREM MovesFollowApprovalsAlways == Spec => []MovesFollowApprovals
<1>1. ServicesInv => Types
  BY FundsInvIsEnough, RebalancingKeepsTypes, OnboardingKeepsTypes DEF ServicesInv, Types
<1>2. ServicesInv => MovesFollowApprovals
  BY <1>1, RebalancingKeepsTypes DEF ServicesInv, OnboardingInv, MovesFollowApprovals
<1> QED BY <1>2, Invariant, PTL

\* When the daily close is ready, the mismatches of the latest run that still
\* stand were resolved, each with its present difference (sprint7): breaks of
\* earlier runs never stand in for them.
THEOREM ReadyCloseIsReviewedAlways == Spec => []ReadyCloseIsReviewed
<1>1. ServicesInv => ReadyCloseIsReviewed
  BY RebalancingKeepsTypes DEF ServicesInv, ReadyCloseIsReviewed
<1> QED BY <1>1, Invariant, PTL
=============================================================================
