-------------------- MODULE ReservationTransactions_proofs --------------------
(***************************************************************************)
(* For every set of connections, obligations, accounts and (finitely many) *)
(* reservations and every bound on amounts: the invariants of              *)
(* FundingReservations, whose commands are one step each, and then that    *)
(* the row locks of ReservationTransactions make the commands atomic and   *)
(* are taken in one order.                                                 *)
(***************************************************************************)
EXTENDS ReservationTransactions, FiniteSetTheorems, TLAPS

-----------------------------------------------------------------------------
(* Sets of units *)

\* Units lo + 1 to hi of a reservation.
Slice(r, lo, hi) == {r} \X (lo + 1 .. hi)

\* A slice holds as many units as its ends are apart.
LEMMA SliceCardinality ==
  ASSUME NEW r, NEW lo \in Nat, NEW hi \in Nat, lo <= hi
  PROVE  IsFiniteSet(Slice(r, lo, hi)) /\ Cardinality(Slice(r, lo, hi)) = hi - lo
<1> DEFINE I == lo + 1 .. hi
<1>1. IsFiniteSet({r}) /\ Cardinality({r}) = 1
  BY FS_Singleton
<1>2. IsFiniteSet(I) /\ Cardinality(I) = hi - lo
  <2>1. lo + 1 \in Int /\ hi \in Int /\ (lo + 1 > hi <=> hi = lo)
    OBVIOUS
  <2> QED BY <2>1, FS_Interval
<1>3. IsFiniteSet({r} \X I) /\ Cardinality({r} \X I) = Cardinality({r}) * Cardinality(I)
  BY <1>1, <1>2, FS_Product
<1>4. Cardinality({r}) * Cardinality(I) = hi - lo
  BY <1>1, <1>2
<1> QED BY <1>3, <1>4 DEF Slice

\* Every set of units of reservations is finite.
LEMMA UnitsFinite ==
  ASSUME NEW U \in SUBSET (Reservations \X Amounts)
  PROVE  IsFiniteSet(U) /\ Cardinality(U) \in Nat
<1>1. IsFiniteSet(Amounts)
  BY FS_Interval, MaxUnitsNat DEF Amounts
<1>2. IsFiniteSet(Reservations \X Amounts)
  BY <1>1, FS_Product, ReservationsFinite
<1> QED BY <1>2, FS_Subset, FS_CardinalityType

\* Adding units a set does not have adds their number.
LEMMA CardinalityOfUnion ==
  ASSUME NEW S, NEW T, IsFiniteSet(S), IsFiniteSet(T), S \cap T = {}
  PROVE  Cardinality(S \cup T) = Cardinality(S) + Cardinality(T)
<1>1. Cardinality(S \cup T) = Cardinality(S) + Cardinality(T) - Cardinality(S \cap T)
  BY FS_Union
<1>2. Cardinality(S \cap T) = 0
  BY FS_EmptySet
<1>3. Cardinality(S) \in Nat /\ Cardinality(T) \in Nat
  BY FS_CardinalityType
<1> QED BY <1>1, <1>2, <1>3

\* Taking away units a set has takes away their number, which it has.
LEMMA CardinalityOfDifference ==
  ASSUME NEW S, NEW T, IsFiniteSet(S), T \subseteq S
  PROVE  /\ Cardinality(S \ T) = Cardinality(S) - Cardinality(T)
         /\ Cardinality(T) <= Cardinality(S)
<1>1. Cardinality(S \ T) = Cardinality(S) - Cardinality(S \cap T)
  BY FS_Difference
<1>2. S \cap T = T
  OBVIOUS
<1>3. Cardinality(T) <= Cardinality(S)
  BY FS_Subset
<1> QED BY <1>1, <1>2, <1>3

-----------------------------------------------------------------------------
(* The inductive invariant *)

\* A row that exists names the obligation and the account it was inserted for
\* and has spent no more than its amount; an active one still holds something.
ReservationRows ==
  /\ reservationStatus \in [Reservations -> ReservationStatus]
  /\ forObligation \in [Reservations -> Obligations \cup {None}]
  /\ onAccount \in [Reservations -> Accounts \cup {None}]
  /\ amount \in [Reservations -> Units]
  /\ consumed \in [Reservations -> Units]
  /\ \A r \in Reservations :
       /\ consumed[r] <= amount[r]
       /\ reservationStatus[r] = "absent" => amount[r] = 0
       /\ reservationStatus[r] = "active" => onAccount[r] \in Accounts /\ consumed[r] < amount[r]

\* The balances account for every unit the reservations hold or have spent.
\* With ReservationRows it bounds available and reserved by credited.
BalanceRows ==
  /\ available \in [Accounts -> Nat]
  /\ reserved \in [Accounts -> Nat]
  /\ credited \in [Accounts -> Units]
  /\ ReservedIsHeld
  /\ NothingCreatedOrLost

\* An obligation row that has not been inserted has no amounts to fulfil.
ObligationRows ==
  /\ obligationStatus \in [Obligations -> ObligationStatus]
  /\ principal \in [Obligations -> Units]
  /\ fulfilled \in [Obligations -> Units]
  /\ \A o \in Obligations :
       obligationStatus[o] = "absent" => principal[o] = 0 /\ fulfilled[o] = 0
  /\ StatusMatchesFulfilment

IInv == ReservationRows /\ BalanceRows /\ ObligationRows /\ CancelledHoldsNothing

\* The units of an account are sets of pairs of a reservation and a number.
LEMMA UnitsOfAccount ==
  ASSUME NEW a
  PROVE  /\ HeldUnits(a) \subseteq Reservations \X Amounts
         /\ SpentUnits(a) \subseteq Reservations \X Amounts
         /\ HeldUnits(a)' \subseteq Reservations \X Amounts
         /\ SpentUnits(a)' \subseteq Reservations \X Amounts
BY DEF HeldUnits, SpentUnits

\* A reservation that is inserted adds its units to those held on its account
\* and leaves the units of other accounts alone.
LEMMA CreateHolds ==
  ASSUME IInv, NEW r \in Reservations, NEW o \in Obligations, NEW a \in Accounts, NEW n \in Amounts,
         CreateReservation(r, o, a, n)
  PROVE  /\ \A b \in Accounts :
              HeldUnits(b)' = IF b = a THEN HeldUnits(b) \cup Slice(r, 0, n) ELSE HeldUnits(b)
         /\ \A b \in Accounts : SpentUnits(b)' = SpentUnits(b)
         /\ HeldUnits(a) \cap Slice(r, 0, n) = {}
         /\ Slice(r, 0, n) \subseteq Reservations \X Amounts
<1> USE MaxUnitsNat DEF Units, Amounts
<1>1. consumed[r] = 0 /\ reservationStatus[r] = "absent"
  BY DEF IInv, ReservationRows, CreateReservation
<1>2. /\ reservationStatus' = [reservationStatus EXCEPT ![r] = "active"]
      /\ onAccount' = [onAccount EXCEPT ![r] = a]
      /\ amount' = [amount EXCEPT ![r] = n]
      /\ consumed' = consumed
  BY DEF CreateReservation
<1>3. Slice(r, 0, n) \subseteq Reservations \X Amounts
  BY DEF Slice
<1>4. HeldUnits(a) \cap Slice(r, 0, n) = {}
  BY <1>1 DEF HeldUnits, Slice
<1>5. ASSUME NEW b \in Accounts
      PROVE  HeldUnits(b)' = IF b = a THEN HeldUnits(b) \cup Slice(r, 0, n) ELSE HeldUnits(b)
  BY <1>1, <1>2, <1>3, <1>5 DEF HeldUnits, Slice, IInv, ReservationRows
<1>6. ASSUME NEW b \in Accounts
      PROVE  SpentUnits(b)' = SpentUnits(b)
  BY <1>1, <1>2 DEF SpentUnits, IInv, ReservationRows
<1> QED BY <1>3, <1>4, <1>5, <1>6

\* Consuming moves the next n units of the reservation from held to spent.
LEMMA ConsumeSpends ==
  ASSUME IInv, NEW r \in Reservations, NEW n \in Amounts, ConsumeRows(r, n)
  PROVE  LET s == Slice(r, consumed[r], consumed[r] + n)
         IN  /\ \A b \in Accounts : HeldUnits(b)' =
                   IF b = onAccount[r] THEN HeldUnits(b) \ s ELSE HeldUnits(b)
             /\ \A b \in Accounts : SpentUnits(b)' =
                   IF b = onAccount[r] THEN SpentUnits(b) \cup s ELSE SpentUnits(b)
             /\ s \subseteq HeldUnits(onAccount[r])
             /\ SpentUnits(onAccount[r]) \cap s = {}
<1> USE MaxUnitsNat DEF Units, Amounts
<1> DEFINE s == Slice(r, consumed[r], consumed[r] + n)
<1>1. /\ reservationStatus[r] = "active"
      /\ consumed[r] \in Units /\ amount[r] \in Units
      /\ consumed[r] + n <= amount[r]
  BY DEF IInv, ReservationRows, ConsumeRows, IsActive, Releasable
<1>2. /\ consumed' = [consumed EXCEPT ![r] = @ + n]
      /\ reservationStatus' = [reservationStatus EXCEPT ![r] =
                                 IF consumed[r] + n >= amount[r] THEN "consumed" ELSE "active"]
      /\ onAccount' = onAccount /\ amount' = amount
  BY DEF ConsumeRows
<1>3. s \subseteq HeldUnits(onAccount[r])
  BY <1>1 DEF Slice, HeldUnits
<1>4. SpentUnits(onAccount[r]) \cap s = {}
  BY <1>1 DEF Slice, SpentUnits
<1>5. ASSUME NEW b \in Accounts
      PROVE  HeldUnits(b)' = IF b = onAccount[r] THEN HeldUnits(b) \ s ELSE HeldUnits(b)
  BY <1>1, <1>2 DEF Slice, HeldUnits, IInv, ReservationRows
<1>6. ASSUME NEW b \in Accounts
      PROVE  SpentUnits(b)' = IF b = onAccount[r] THEN SpentUnits(b) \cup s ELSE SpentUnits(b)
  BY <1>1, <1>2 DEF Slice, SpentUnits, IInv, ReservationRows
<1> QED BY <1>3, <1>4, <1>5, <1>6

\* Ending a reservation gives back what it still holds and spends nothing.
LEMMA EndGivesBack ==
  ASSUME IInv, NEW r \in Reservations, NEW next \in {"released", "expired", "cancelled"},
         EndReservation(r, next)
  PROVE  LET s == Slice(r, consumed[r], amount[r])
         IN  /\ \A b \in Accounts : HeldUnits(b)' =
                   IF b = onAccount[r] THEN HeldUnits(b) \ s ELSE HeldUnits(b)
             /\ \A b \in Accounts : SpentUnits(b)' = SpentUnits(b)
             /\ s \subseteq HeldUnits(onAccount[r])
<1> USE MaxUnitsNat DEF Units, Amounts
<1> DEFINE s == Slice(r, consumed[r], amount[r])
<1>1. /\ reservationStatus[r] = "active"
      /\ consumed[r] \in Units /\ amount[r] \in Units
  BY DEF IInv, ReservationRows, EndReservation, IsActive
<1>2. /\ reservationStatus' = [reservationStatus EXCEPT ![r] = next]
      /\ onAccount' = onAccount /\ amount' = amount /\ consumed' = consumed
  BY DEF EndReservation
<1>3. s \subseteq HeldUnits(onAccount[r])
  BY <1>1 DEF Slice, HeldUnits
<1>4. ASSUME NEW b \in Accounts
      PROVE  HeldUnits(b)' = IF b = onAccount[r] THEN HeldUnits(b) \ s ELSE HeldUnits(b)
  BY <1>1, <1>2 DEF Slice, HeldUnits, IInv, ReservationRows
<1>5. ASSUME NEW b \in Accounts
      PROVE  SpentUnits(b)' = SpentUnits(b)
  BY <1>2 DEF SpentUnits
<1> QED BY <1>3, <1>4, <1>5

-----------------------------------------------------------------------------
(* Every step keeps it *)

\* The tables start empty.
LEMMA InitEstablishes == Init => IInv
<1> SUFFICES ASSUME Init PROVE IInv
  OBVIOUS
<1> USE MaxUnitsNat DEF Init, Units
<1>1. ReservationRows
  BY DEF ReservationRows, ReservationStatus
<1>2. ObligationRows
  BY DEF ObligationRows, ObligationStatus, StatusMatchesFulfilment
<1>3. CancelledHoldsNothing
  BY DEF CancelledHoldsNothing
<1>4. ASSUME NEW a \in Accounts
      PROVE  Cardinality(HeldUnits(a)) = 0 /\ Cardinality(SpentUnits(a)) = 0
  <2>1. HeldUnits(a) = {} /\ SpentUnits(a) = {}
    BY DEF HeldUnits, SpentUnits, Amounts
  <2> QED BY <2>1, FS_EmptySet
<1>5. BalanceRows
  BY <1>4 DEF BalanceRows, ReservedIsHeld, NothingCreatedOrLost
<1> QED BY <1>1, <1>2, <1>3, <1>5 DEF IInv

\* Crediting an account adds what it makes available.
LEMMA CreditKeeps ==
  ASSUME IInv, NEW a \in Accounts, NEW n \in Amounts, CreditAvailable(a, n)
  PROVE  IInv'
<1> USE MaxUnitsNat DEF Units, Amounts
<1>1. UNCHANGED <<obligationVars, reservationVars>>
  BY DEF CreditAvailable
<1>2. ReservationRows' /\ ObligationRows' /\ CancelledHoldsNothing'
  BY <1>1 DEF IInv, ReservationRows, ObligationRows, CancelledHoldsNothing, ActiveFor, IsActive,
              StatusMatchesFulfilment, obligationVars, reservationVars
<1>3. \A b \in Accounts : HeldUnits(b)' = HeldUnits(b) /\ SpentUnits(b)' = SpentUnits(b)
  BY <1>1 DEF HeldUnits, SpentUnits, reservationVars
<1>4. \A b \in Accounts : Cardinality(HeldUnits(b)) \in Nat /\ Cardinality(SpentUnits(b)) \in Nat
  BY UnitsOfAccount, UnitsFinite
<1>5. BalanceRows'
  BY <1>3, <1>4 DEF BalanceRows, IInv, CreditAvailable, ReservedIsHeld, NothingCreatedOrLost
<1> QED BY <1>2, <1>5 DEF IInv

\* An obligation is inserted open and unfulfilled.
LEMMA CreateObligationKeeps ==
  ASSUME IInv, NEW o \in Obligations, NEW p \in Amounts, NEW initial \in {"draft", "reserved"},
         CreateObligation(o, p, initial)
  PROVE  IInv'
<1> USE MaxUnitsNat DEF Units, Amounts
<1>1. UNCHANGED <<reservationVars, balanceVars>>
  BY DEF CreateObligation
<1>2. ReservationRows' /\ BalanceRows'
  BY <1>1 DEF IInv, ReservationRows, BalanceRows, ReservedIsHeld, NothingCreatedOrLost, HeldUnits,
              SpentUnits, reservationVars, balanceVars
<1>3. ObligationRows'
  BY DEF IInv, ObligationRows, CreateObligation, ObligationStatus, StatusMatchesFulfilment
<1>4. CancelledHoldsNothing'
  BY <1>1 DEF IInv, ObligationRows, CancelledHoldsNothing, CreateObligation, ActiveFor, IsActive,
              reservationVars
<1> QED BY <1>2, <1>3, <1>4 DEF IInv

\* A reservation takes from available exactly the units it holds.
LEMMA CreateReservationKeeps ==
  ASSUME IInv, NEW r \in Reservations, NEW o \in Obligations, NEW a \in Accounts, NEW n \in Amounts,
         CreateReservation(r, o, a, n)
  PROVE  IInv'
<1> USE MaxUnitsNat DEF Units, Amounts
<1>1. ReservationRows'
  BY DEF IInv, ReservationRows, CreateReservation, ReservationStatus
<1>2. ObligationRows'
  BY DEF IInv, ObligationRows, CreateReservation, ObligationStatus, StatusMatchesFulfilment
<1>3. CancelledHoldsNothing'
  BY DEF IInv, ReservationRows, ObligationRows, CancelledHoldsNothing, CreateReservation, ActiveFor,
         IsActive, TerminalObligation
<1>4. BalanceRows'
  <2>1. IsFiniteSet(Slice(r, 0, n)) /\ Cardinality(Slice(r, 0, n)) = n
    BY SliceCardinality
  <2>2. \A b \in Accounts :
          /\ IsFiniteSet(HeldUnits(b)) /\ Cardinality(HeldUnits(b)) \in Nat
          /\ Cardinality(SpentUnits(b)) \in Nat
    BY UnitsOfAccount, UnitsFinite
  <2>3. Cardinality(HeldUnits(a)') = Cardinality(HeldUnits(a)) + n
    BY <2>1, <2>2, CreateHolds, CardinalityOfUnion
  <2>4. \A b \in Accounts \ {a} : HeldUnits(b)' = HeldUnits(b)
    BY CreateHolds
  <2>5. \A b \in Accounts : SpentUnits(b)' = SpentUnits(b)
    BY CreateHolds
  <2>6. /\ available' = [available EXCEPT ![a] = @ - n]
        /\ reserved' = [reserved EXCEPT ![a] = @ + n]
        /\ credited' = credited
        /\ n <= available[a]
    BY DEF CreateReservation, Covers
  <2> QED BY <2>2, <2>3, <2>4, <2>5, <2>6
          DEF IInv, BalanceRows, ReservedIsHeld, NothingCreatedOrLost
<1> QED BY <1>1, <1>2, <1>3, <1>4 DEF IInv

\* The consume branch on its own: the obligations and which of them an active
\* reservation is for are the caller's.
LEMMA ConsumeRowsKeeps ==
  ASSUME IInv, NEW r \in Reservations, NEW n \in Amounts, ConsumeRows(r, n)
  PROVE  /\ ReservationRows' /\ BalanceRows'
         /\ \A o \in Obligations : ActiveFor(o)' \subseteq ActiveFor(o)
<1> USE MaxUnitsNat DEF Units, Amounts
<1> DEFINE s == Slice(r, consumed[r], consumed[r] + n)
<1>1. /\ reservationStatus[r] = "active" /\ onAccount[r] \in Accounts
      /\ consumed[r] \in Units /\ amount[r] \in Units /\ consumed[r] + n <= amount[r]
  BY DEF IInv, ReservationRows, ConsumeRows, IsActive, Releasable
<1>a. PICK a \in Accounts : a = onAccount[r]
  BY <1>1
<1>2. ReservationRows'
  BY <1>1 DEF IInv, ReservationRows, ConsumeRows, ReservationStatus, TerminalReservation
<1>3. \A o \in Obligations : ActiveFor(o)' \subseteq ActiveFor(o)
  BY <1>1 DEF IInv, ReservationRows, ConsumeRows, ActiveFor, IsActive
<1>4. BalanceRows'
  <2>1. IsFiniteSet(s) /\ Cardinality(s) = n
    BY <1>1, SliceCardinality
  <2>2. \A b \in Accounts :
          /\ IsFiniteSet(HeldUnits(b)) /\ Cardinality(HeldUnits(b)) \in Nat
          /\ IsFiniteSet(SpentUnits(b)) /\ Cardinality(SpentUnits(b)) \in Nat
    BY UnitsOfAccount, UnitsFinite
  <2>3. /\ HeldUnits(a)' = HeldUnits(a) \ s /\ s \subseteq HeldUnits(a)
        /\ SpentUnits(a)' = SpentUnits(a) \cup s /\ SpentUnits(a) \cap s = {}
        /\ \A b \in Accounts \ {a} : HeldUnits(b)' = HeldUnits(b) /\ SpentUnits(b)' = SpentUnits(b)
    BY <1>a, ConsumeSpends
  <2> HIDE DEF s
  <2>4. /\ Cardinality(HeldUnits(a)') = Cardinality(HeldUnits(a)) - n
        /\ n <= Cardinality(HeldUnits(a))
    BY <2>1, <2>2, <2>3, CardinalityOfDifference
  <2>5. Cardinality(SpentUnits(a)') = Cardinality(SpentUnits(a)) + n
    BY <2>1, <2>2, <2>3, CardinalityOfUnion
  <2>6. /\ reserved[a] >= n
        /\ reserved' = [reserved EXCEPT ![a] = @ - n]
        /\ available' = available /\ credited' = credited
    BY <1>1, <1>a, <2>4 DEF IInv, BalanceRows, ReservedIsHeld, ConsumeRows, Drain
  <2>7. ASSUME NEW b \in Accounts, b # a
        PROVE  HeldUnits(b)' = HeldUnits(b) /\ SpentUnits(b)' = SpentUnits(b)
    BY <2>3, <2>7
  <2>8. /\ available' \in [Accounts -> Nat] /\ reserved' \in [Accounts -> Nat]
        /\ credited' \in [Accounts -> Units]
    BY <2>6 DEF IInv, BalanceRows
  <2>9. ASSUME NEW b \in Accounts
        PROVE  /\ reserved'[b] = Cardinality(HeldUnits(b)')
               /\ available'[b] + Cardinality(HeldUnits(b)') + Cardinality(SpentUnits(b)') = credited'[b]
    <3>1. CASE b = a
      BY <3>1, <2>2, <2>4, <2>5, <2>6 DEF IInv, BalanceRows, ReservedIsHeld, NothingCreatedOrLost
    <3>2. CASE b # a
      BY <3>2, <2>6, <2>7 DEF IInv, BalanceRows, ReservedIsHeld, NothingCreatedOrLost
    <3> QED BY <3>1, <3>2
  <2> QED BY <2>8, <2>9 DEF BalanceRows, ReservedIsHeld, NothingCreatedOrLost
<1> QED BY <1>2, <1>3, <1>4

\* Consuming through the reservation's own endpoint.
LEMMA ConsumeReservationKeeps ==
  ASSUME IInv, NEW r \in Reservations, NEW n \in Amounts, ConsumeReservation(r, n)
  PROVE  IInv'
<1>1. ConsumeRows(r, n) /\ UNCHANGED obligationVars
  BY DEF ConsumeReservation
<1>2. ReservationRows' /\ BalanceRows' /\ \A o \in Obligations : ActiveFor(o)' \subseteq ActiveFor(o)
  BY <1>1, ConsumeRowsKeeps
<1>3. ObligationRows' /\ CancelledHoldsNothing'
  BY <1>1, <1>2 DEF IInv, ObligationRows, StatusMatchesFulfilment, CancelledHoldsNothing, ActiveFor, IsActive, obligationVars
<1> QED BY <1>2, <1>3 DEF IInv

\* A reservation that ends gives back all it still holds.
LEMMA EndReservationKeeps ==
  ASSUME IInv, NEW r \in Reservations, NEW next \in {"released", "expired", "cancelled"},
         EndReservation(r, next)
  PROVE  IInv'
<1> USE MaxUnitsNat DEF Units, Amounts
<1> DEFINE s == Slice(r, consumed[r], amount[r])
           n == amount[r] - consumed[r]
<1>1. /\ reservationStatus[r] = "active" /\ onAccount[r] \in Accounts
      /\ consumed[r] \in Units /\ amount[r] \in Units /\ consumed[r] < amount[r]
      /\ Releasable(r) = n
  BY DEF IInv, ReservationRows, EndReservation, IsActive, Releasable
<1>2. PICK a \in Accounts : a = onAccount[r]
  BY <1>1
<1>3. ReservationRows'
  BY DEF IInv, ReservationRows, EndReservation, ReservationStatus, TerminalReservation
<1>4. ObligationRows' /\ CancelledHoldsNothing'
  BY DEF IInv, ReservationRows, ObligationRows, StatusMatchesFulfilment, CancelledHoldsNothing,
         EndReservation, ActiveFor, IsActive, obligationVars
<1>5. BalanceRows'
  <2>1. IsFiniteSet(s) /\ Cardinality(s) = n
    BY <1>1, SliceCardinality
  <2>2. \A b \in Accounts :
          /\ IsFiniteSet(HeldUnits(b)) /\ Cardinality(HeldUnits(b)) \in Nat
          /\ Cardinality(SpentUnits(b)) \in Nat
    BY UnitsOfAccount, UnitsFinite
  <2>3. /\ HeldUnits(a)' = HeldUnits(a) \ s /\ s \subseteq HeldUnits(a)
        /\ \A b \in Accounts \ {a} : HeldUnits(b)' = HeldUnits(b)
        /\ \A b \in Accounts : SpentUnits(b)' = SpentUnits(b)
    BY <1>2, EndGivesBack
  <2> HIDE DEF s
  <2>4. /\ Cardinality(HeldUnits(a)') = Cardinality(HeldUnits(a)) - n
        /\ n <= Cardinality(HeldUnits(a))
    BY <2>1, <2>2, <2>3, CardinalityOfDifference
  <2>5. n \in Nat
    BY <1>1
  <2> HIDE DEF n
  <2>6. reserved[a] >= n /\ Releasable(r) = n
    BY <1>1, <2>4 DEF IInv, BalanceRows, ReservedIsHeld
  <2>7. /\ reserved' = [reserved EXCEPT ![a] = @ - n]
        /\ available' = [available EXCEPT ![a] = @ + n]
        /\ credited' = credited
    BY <1>2, <2>6 DEF EndReservation, Drain
  <2>8. /\ available' \in [Accounts -> Nat] /\ reserved' \in [Accounts -> Nat]
        /\ credited' \in [Accounts -> Units]
    BY <2>5, <2>6, <2>7 DEF IInv, BalanceRows
  <2>9. ASSUME NEW b \in Accounts
        PROVE  /\ reserved'[b] = Cardinality(HeldUnits(b)')
               /\ available'[b] + Cardinality(HeldUnits(b)') + Cardinality(SpentUnits(b)') = credited'[b]
    <3>1. Cardinality(SpentUnits(b)') = Cardinality(SpentUnits(b))
      BY <2>3
    <3>2. CASE b = a
      BY <3>1, <3>2, <2>2, <2>4, <2>5, <2>7 DEF IInv, BalanceRows, ReservedIsHeld, NothingCreatedOrLost
    <3>3. CASE b # a
      <4>1. HeldUnits(b)' = HeldUnits(b)
        BY <3>3, <2>3
      <4> QED BY <4>1, <3>1, <3>3, <2>7 DEF IInv, BalanceRows, ReservedIsHeld, NothingCreatedOrLost
    <3> QED BY <3>2, <3>3
  <2> QED BY <2>8, <2>9 DEF BalanceRows, ReservedIsHeld, NothingCreatedOrLost
<1> QED BY <1>3, <1>4, <1>5 DEF IInv

\* An obligation is cancelled only when nothing is held for it.
LEMMA CancelObligationKeeps ==
  ASSUME IInv, NEW o \in Obligations, CancelObligation(o)
  PROVE  IInv'
<1>1. UNCHANGED <<reservationVars, balanceVars>>
  BY DEF CancelObligation
<1>2. ReservationRows' /\ BalanceRows'
  BY <1>1 DEF IInv, ReservationRows, BalanceRows, ReservedIsHeld, NothingCreatedOrLost, HeldUnits,
              SpentUnits, reservationVars, balanceVars
<1>3. ObligationRows'
  BY MaxUnitsNat DEF IInv, ObligationRows, CancelObligation, ObligationStatus, TerminalObligation,
                     StatusMatchesFulfilment, Units
<1>4. CancelledHoldsNothing'
  BY <1>1 DEF IInv, ObligationRows, CancelledHoldsNothing, CancelObligation, ActiveFor, IsActive,
              reservationVars
<1> QED BY <1>2, <1>3, <1>4 DEF IInv

\* Fulfilling keeps the obligation's status in step with its amounts and
\* never cancels it.
LEMMA FulfilRowsKeeps ==
  ASSUME IInv, NEW o \in Obligations, NEW n \in Amounts, FulfilRows(o, n)
  PROVE  /\ ObligationRows'
         /\ \A q \in Obligations : obligationStatus'[q] = "cancelled" => obligationStatus[q] = "cancelled"
<1> USE MaxUnitsNat DEF Units, Amounts
<1>1. /\ obligationStatus[o] \notin {"cancelled", "absent"}
      /\ principal[o] \in Units /\ fulfilled[o] \in Units /\ fulfilled[o] + n <= principal[o]
  BY DEF IInv, ObligationRows, FulfilRows, Remaining
<1>2. /\ fulfilled' = [fulfilled EXCEPT ![o] = @ + n]
      /\ obligationStatus' = [obligationStatus EXCEPT ![o] =
                                IF fulfilled[o] + n >= principal[o] THEN "fulfilled"
                                                                    ELSE "partially_fulfilled"]
      /\ principal' = principal
  BY DEF FulfilRows
<1>3. ObligationRows'
  BY <1>1, <1>2 DEF IInv, ObligationRows, StatusMatchesFulfilment, ObligationStatus, TerminalObligation
<1>4. \A q \in Obligations : obligationStatus'[q] = "cancelled" => obligationStatus[q] = "cancelled"
  BY <1>2 DEF IInv, ObligationRows
<1> QED BY <1>3, <1>4

\* Fulfilment on its own touches no reservation and no balance.
LEMMA FulfilObligationKeeps ==
  ASSUME IInv, NEW o \in Obligations, NEW n \in Amounts,
         FulfilRows(o, n), UNCHANGED <<reservationVars, balanceVars>>
  PROVE  IInv'
<1>1. ReservationRows' /\ BalanceRows'
  BY DEF IInv, ReservationRows, BalanceRows, ReservedIsHeld, NothingCreatedOrLost, HeldUnits,
         SpentUnits, reservationVars, balanceVars
<1>2. CancelledHoldsNothing'
  BY FulfilRowsKeeps DEF IInv, CancelledHoldsNothing, ActiveFor, IsActive, reservationVars
<1> QED BY <1>1, <1>2, FulfilRowsKeeps DEF IInv

\* Fulfilment that names a reservation consumes it, or finds it consumed.
LEMMA FulfilFromKeeps ==
  ASSUME IInv, NEW o \in Obligations, NEW r \in Reservations, NEW n \in Amounts, FulfilFrom(o, r, n)
  PROVE  IInv'
<1>1. FulfilRows(o, n)
  BY DEF FulfilFrom
<1>2. CASE ConsumeRows(r, n)
  <2>1. ReservationRows' /\ BalanceRows' /\ \A q \in Obligations : ActiveFor(q)' \subseteq ActiveFor(q)
    BY <1>2, ConsumeRowsKeeps
  <2>2. CancelledHoldsNothing'
    BY <1>1, <2>1, FulfilRowsKeeps DEF IInv, CancelledHoldsNothing, ActiveFor, IsActive
  <2> QED BY <1>1, <2>1, <2>2, FulfilRowsKeeps DEF IInv
<1>3. CASE UNCHANGED <<reservationVars, balanceVars>>
  BY <1>1, <1>3, FulfilObligationKeeps
<1> QED BY <1>2, <1>3 DEF FulfilFrom

\* A step that changes nothing keeps everything.
LEMMA StutterKeeps ==
  ASSUME IInv, UNCHANGED vars
  PROVE  IInv'
BY DEF vars, obligationVars, reservationVars, balanceVars, IInv, ReservationRows, BalanceRows,
       ObligationRows, ReservedIsHeld, NothingCreatedOrLost, HeldUnits, SpentUnits,
       CancelledHoldsNothing, ActiveFor, IsActive, StatusMatchesFulfilment

LEMMA NextKeeps == IInv /\ [Next]_vars => IInv'
<1> SUFFICES ASSUME IInv, [Next]_vars PROVE IInv'
  OBVIOUS
<1>1. ASSUME NEW a \in Accounts, NEW n \in Amounts, CreditAvailable(a, n) PROVE IInv'
  BY <1>1, CreditKeeps
<1>2. ASSUME NEW o \in Obligations, NEW p \in Amounts, NEW s \in {"draft", "reserved"},
             CreateObligation(o, p, s)
      PROVE  IInv'
  BY <1>2, CreateObligationKeeps
<1>3. ASSUME NEW r \in Reservations, NEW o \in Obligations, NEW a \in Accounts, NEW n \in Amounts,
             CreateReservation(r, o, a, n)
      PROVE  IInv'
  BY <1>3, CreateReservationKeeps
<1>4. ASSUME NEW r \in Reservations, NEW n \in Amounts, ConsumeReservation(r, n) PROVE IInv'
  BY <1>4, ConsumeReservationKeeps
<1>5. ASSUME NEW r \in Reservations, NEW s \in {"released", "expired", "cancelled"},
             EndReservation(r, s)
      PROVE  IInv'
  BY <1>5, EndReservationKeeps
<1>6. ASSUME NEW o \in Obligations, CancelObligation(o) PROVE IInv'
  BY <1>6, CancelObligationKeeps
<1>7. ASSUME NEW o \in Obligations, NEW n \in Amounts, FulfilObligation(o, n) PROVE IInv'
  BY <1>7, FulfilObligationKeeps DEF FulfilObligation
<1>8. ASSUME NEW o \in Obligations, NEW r \in Reservations, NEW n \in Amounts, FulfilFrom(o, r, n)
      PROVE  IInv'
  BY <1>8, FulfilFromKeeps
<1>9. CASE UNCHANGED vars
  BY <1>9, StutterKeeps
<1> QED BY <1>1, <1>2, <1>3, <1>4, <1>5, <1>6, <1>7, <1>8, <1>9 DEF Next, OtherCommand

-----------------------------------------------------------------------------
(* Theorems *)

\* The strengthened invariant holds in every reachable state.
THEOREM Invariant == Spec => []IInv
BY InitEstablishes, NextKeeps, PTL DEF Spec

\* The reserved column is never out of step with the active reservations.
THEOREM ReservedIsHeldAlways == Spec => []ReservedIsHeld
<1>1. IInv => ReservedIsHeld
  BY DEF IInv, BalanceRows
<1> QED BY Invariant, <1>1, PTL

\* Conservation: no sequence of commands creates or loses a unit.
THEOREM NothingCreatedOrLostAlways == Spec => []NothingCreatedOrLost
<1>1. IInv => NothingCreatedOrLost
  BY DEF IInv, BalanceRows
<1> QED BY Invariant, <1>1, PTL

\* A cancelled obligation never has funds held for it.
THEOREM CancelledHoldsNothingAlways == Spec => []CancelledHoldsNothing
<1>1. IInv => CancelledHoldsNothing
  BY DEF IInv
<1> QED BY Invariant, <1>1, PTL

\* The status of an obligation always matches its amounts.
THEOREM StatusMatchesFulfilmentAlways == Spec => []StatusMatchesFulfilment
<1>1. IInv => StatusMatchesFulfilment
  BY DEF IInv, ObligationRows
<1> QED BY Invariant, <1>1, PTL

\* Every column keeps its type; no balance is negative or exceeds what was
\* credited to its account.
THEOREM TypeCorrect == Spec => []TypeOK
<1>1. IInv => TypeOK
  <2> SUFFICES ASSUME IInv PROVE TypeOK
    OBVIOUS
  <2>1. \A a \in Accounts : Cardinality(HeldUnits(a)) \in Nat /\ Cardinality(SpentUnits(a)) \in Nat
    BY UnitsOfAccount, UnitsFinite
  <2>2. \A a \in Accounts : available[a] \in Units /\ reserved[a] \in Units
    BY <2>1, MaxUnitsNat DEF IInv, BalanceRows, ReservedIsHeld, NothingCreatedOrLost, Units
  <2>3. available \in [Accounts -> Units] /\ reserved \in [Accounts -> Units]
    BY <2>2 DEF IInv, BalanceRows
  <2> QED BY <2>3 DEF TypeOK, IInv, ReservationRows, BalanceRows, ObligationRows
<1> QED BY Invariant, <1>1, PTL

\* Reservations and obligations that reached a terminal status stay as they are.
THEOREM TerminalRowsAreFinalAlways == Spec => TerminalRowsAreFinal
<1> DEFINE Final ==
      /\ \A r \in Reservations : reservationStatus[r] \in TerminalReservation =>
            reservationStatus'[r] = reservationStatus[r] /\ consumed'[r] = consumed[r]
      /\ \A o \in Obligations : obligationStatus[o] \in TerminalObligation =>
            obligationStatus'[o] = obligationStatus[o] /\ fulfilled'[o] = fulfilled[o]
<1>1. ASSUME IInv, NEW r \in Reservations, reservationStatus[r] \in TerminalReservation, Next
      PROVE  reservationStatus'[r] = reservationStatus[r] /\ consumed'[r] = consumed[r]
  <2> USE DEF TerminalReservation
  <2>1. CASE reservationVars' = reservationVars
    BY <2>1 DEF reservationVars
  <2>2. CASE \E q \in Reservations, o \in Obligations, a \in Accounts, n \in Amounts :
               CreateReservation(q, o, a, n)
    BY <1>1, <2>2 DEF CreateReservation, IInv, ReservationRows
  <2>3. CASE \E q \in Reservations, n \in Amounts : ConsumeRows(q, n)
    BY <1>1, <2>3 DEF ConsumeRows, IsActive, IInv, ReservationRows
  <2>4. CASE \E q \in Reservations, s \in {"released", "expired", "cancelled"} : EndReservation(q, s)
    BY <1>1, <2>4 DEF EndReservation, IsActive, IInv, ReservationRows
  <2> QED BY <1>1, <2>1, <2>2, <2>3, <2>4
          DEF Next, OtherCommand, CreditAvailable, CreateObligation, ConsumeReservation,
              CancelObligation, FulfilObligation, FulfilFrom
<1>2. ASSUME IInv, NEW o \in Obligations, obligationStatus[o] \in TerminalObligation, Next
      PROVE  obligationStatus'[o] = obligationStatus[o] /\ fulfilled'[o] = fulfilled[o]
  <2> USE DEF TerminalObligation
  <2>1. CASE obligationVars' = obligationVars
    BY <2>1 DEF obligationVars
  <2>2. CASE \E q \in Obligations, p \in Amounts, s \in {"draft", "reserved"} : CreateObligation(q, p, s)
    BY <1>2, <2>2 DEF CreateObligation, IInv, ObligationRows
  <2>3. CASE \E r \in Reservations, q \in Obligations, a \in Accounts, n \in Amounts :
               CreateReservation(r, q, a, n)
    BY <1>2, <2>3 DEF CreateReservation, IInv, ObligationRows
  <2>4. CASE \E q \in Obligations : CancelObligation(q)
    BY <1>2, <2>4 DEF CancelObligation, IInv, ObligationRows
  <2>5. CASE \E q \in Obligations, n \in Amounts : FulfilRows(q, n)
    <3> PICK q \in Obligations, n \in Amounts : FulfilRows(q, n)
      BY <2>5
    <3>1. q # o
      BY <1>2, MaxUnitsNat DEF FulfilRows, Remaining, IInv, ObligationRows, StatusMatchesFulfilment,
                               Amounts, Units
    <3> QED BY <1>2, <3>1 DEF FulfilRows, IInv, ObligationRows
  <2> QED BY <1>2, <2>1, <2>2, <2>3, <2>4, <2>5
          DEF Next, OtherCommand, CreditAvailable, ConsumeReservation, EndReservation,
              FulfilObligation, FulfilFrom
<1>3. IInv /\ [Next]_vars => [Final]_vars
  BY <1>1, <1>2
<1> QED BY Invariant, <1>3, PTL DEF Spec, TerminalRowsAreFinal

-----------------------------------------------------------------------------
(* The balances implement Escrow *)

\* The units an account has spent, as Escrow's variable sees them.
Spent == [a \in Accounts |-> Cardinality(SpentUnits(a))]

\* A consume adds its amount to what the account of the reservation has spent.
LEMMA SpentByConsume ==
  ASSUME IInv, NEW r \in Reservations, NEW n \in Amounts, ConsumeRows(r, n),
         NEW a \in Accounts, a = onAccount[r]
  PROVE  Spent' = [Spent EXCEPT ![a] = @ + n] /\ n <= reserved[a]
<1> USE MaxUnitsNat DEF Units, Amounts
<1> DEFINE s == Slice(r, consumed[r], consumed[r] + n)
<1>1. consumed[r] \in Nat
  BY DEF IInv, ReservationRows
<1>2. IsFiniteSet(s) /\ Cardinality(s) = n
  BY <1>1, SliceCardinality
<1>3. \A b \in Accounts : IsFiniteSet(SpentUnits(b)) /\ IsFiniteSet(HeldUnits(b))
  BY UnitsOfAccount, UnitsFinite
<1>4. /\ SpentUnits(a)' = SpentUnits(a) \cup s /\ SpentUnits(a) \cap s = {}
      /\ s \subseteq HeldUnits(a)
      /\ \A b \in Accounts \ {a} : SpentUnits(b)' = SpentUnits(b)
  BY ConsumeSpends
<1> HIDE DEF s
<1>5. Cardinality(SpentUnits(a)') = Cardinality(SpentUnits(a)) + n
  BY <1>2, <1>3, <1>4, CardinalityOfUnion
<1>6. n <= reserved[a]
  <2>1. n <= Cardinality(HeldUnits(a))
    BY <1>2, <1>3, <1>4, CardinalityOfDifference
  <2> QED BY <2>1 DEF IInv, BalanceRows, ReservedIsHeld
<1> QED BY <1>4, <1>5, <1>6 DEF Spent

\* What ends gives back no more than is reserved, and spends nothing.
LEMMA SpentByEnd ==
  ASSUME IInv, NEW r \in Reservations, NEW next \in {"released", "expired", "cancelled"},
         EndReservation(r, next), NEW a \in Accounts, a = onAccount[r]
  PROVE  Spent' = Spent /\ Releasable(r) \in Amounts /\ Releasable(r) <= reserved[a]
<1> USE MaxUnitsNat DEF Units, Amounts
<1> DEFINE s == Slice(r, consumed[r], amount[r])
<1>1. /\ consumed[r] \in Nat /\ amount[r] \in Units /\ consumed[r] < amount[r]
      /\ Releasable(r) = amount[r] - consumed[r]
  BY DEF IInv, ReservationRows, EndReservation, IsActive, Releasable
<1>2. IsFiniteSet(s) /\ Cardinality(s) = Releasable(r)
  BY <1>1, SliceCardinality
<1>3. IsFiniteSet(HeldUnits(a))
  BY UnitsOfAccount, UnitsFinite
<1>4. s \subseteq HeldUnits(a) /\ \A b \in Accounts : SpentUnits(b)' = SpentUnits(b)
  BY EndGivesBack
<1> HIDE DEF s
<1>5. Releasable(r) <= reserved[a]
  BY <1>2, <1>3, <1>4, CardinalityOfDifference DEF IInv, BalanceRows, ReservedIsHeld
<1> QED BY <1>1, <1>4, <1>5 DEF Spent

\* Consuming is a Spend, whatever the caller does to the obligation.
LEMMA ConsumeImplementsSpend ==
  ASSUME IInv, NEW r \in Reservations, NEW n \in Amounts, ConsumeRows(r, n)
  PROVE  EscrowOfAccounts!Next
<1>1. PICK a \in Accounts : a = onAccount[r]
  BY DEF IInv, ReservationRows, ConsumeRows, IsActive
<1>2. Spent' = [Spent EXCEPT ![a] = @ + n] /\ n <= reserved[a]
  BY <1>1, SpentByConsume
<1>3. reserved' = [reserved EXCEPT ![a] = @ - n]
  BY <1>1, <1>2, MaxUnitsNat DEF ConsumeRows, Drain, IInv, BalanceRows, Amounts
<1>4. EscrowOfAccounts!Spend(a, n)
  BY <1>2, <1>3 DEF EscrowOfAccounts!Spend, Spent, ConsumeRows
<1> QED BY <1>4 DEF EscrowOfAccounts!Next, Amounts

\* Every step of the tables is a step of the ledger they promise, or none.
THEOREM EscrowImplemented == Spec => ImplementsEscrow
<1>1. Init => EscrowOfAccounts!Init
  <2> SUFFICES ASSUME Init PROVE EscrowOfAccounts!Init
    OBVIOUS
  <2>1. ASSUME NEW a \in Accounts PROVE Cardinality(SpentUnits(a)) = 0
    <3>1. SpentUnits(a) = {}
      BY MaxUnitsNat DEF Init, SpentUnits, Amounts
    <3> QED BY <3>1, FS_EmptySet
  <2> QED BY <2>1 DEF Init, EscrowOfAccounts!Init
<1>2. ASSUME IInv, [Next]_vars PROVE [EscrowOfAccounts!Next]_EscrowOfAccounts!vars
  <2>1. ASSUME NEW a \in Accounts, NEW n \in Amounts, CreditAvailable(a, n)
        PROVE  EscrowOfAccounts!Next
    <3>1. Spent' = Spent
      BY <2>1 DEF CreditAvailable, Spent, SpentUnits, reservationVars
    <3> QED BY <2>1, <3>1 DEF EscrowOfAccounts!Next, EscrowOfAccounts!Fund, CreditAvailable, Spent, Amounts
  <2>2. ASSUME NEW r \in Reservations, NEW o \in Obligations, NEW a \in Accounts, NEW n \in Amounts,
               CreateReservation(r, o, a, n)
        PROVE  EscrowOfAccounts!Next
    <3>1. Spent' = Spent
      BY <1>2, <2>2, CreateHolds DEF Spent
    <3> QED BY <2>2, <3>1 DEF EscrowOfAccounts!Next, EscrowOfAccounts!Hold, CreateReservation, Covers,
                              Spent, Amounts
  <2>3. ASSUME NEW r \in Reservations, NEW n \in Amounts, ConsumeRows(r, n)
        PROVE  EscrowOfAccounts!Next
    BY <1>2, <2>3, ConsumeImplementsSpend
  <2>4. ASSUME NEW r \in Reservations, NEW s \in {"released", "expired", "cancelled"},
               EndReservation(r, s)
        PROVE  EscrowOfAccounts!Next
    <3>1. PICK a \in Accounts : a = onAccount[r]
      BY <1>2, <2>4 DEF IInv, ReservationRows, EndReservation, IsActive
    <3>2. Spent' = Spent /\ Releasable(r) \in Amounts /\ Releasable(r) <= reserved[a]
      BY <1>2, <2>4, <3>1, SpentByEnd
    <3>3. reserved' = [reserved EXCEPT ![a] = @ - Releasable(r)]
      BY <1>2, <2>4, <3>1, <3>2, MaxUnitsNat DEF EndReservation, Drain, IInv, BalanceRows, Amounts
    <3>4. EscrowOfAccounts!GiveBack(a, Releasable(r))
      BY <2>4, <3>1, <3>2, <3>3 DEF EscrowOfAccounts!GiveBack, EndReservation, Spent
    <3> QED BY <3>2, <3>4 DEF EscrowOfAccounts!Next, Amounts
  <2>5. ASSUME UNCHANGED <<reservationVars, balanceVars>>
        PROVE  UNCHANGED EscrowOfAccounts!vars
    BY <2>5 DEF EscrowOfAccounts!vars, SpentUnits, reservationVars, balanceVars
  <2> QED BY <1>2, <2>1, <2>2, <2>3, <2>4, <2>5
          DEF Next, OtherCommand, CreateObligation, ConsumeReservation, CancelObligation,
              FulfilObligation, FulfilFrom, vars
<1> QED BY <1>1, <1>2, Invariant, PTL DEF Spec, ImplementsEscrow, EscrowOfAccounts!Spec

-----------------------------------------------------------------------------
(* Statement by statement: the inductive invariant *)

Seen ==
  [obligationStatus : ObligationStatus, fulfilled : Nat, reservationStatus : ReservationStatus,
   consumed : Nat, active : Nat, available : Nat, reserved : Nat]

TxTypeOK ==
  /\ cmd \in [Connections -> Commands \cup {NoCommand}]
  /\ DOMAIN todo = Connections
  /\ seen \in [Connections -> Seen]
  /\ rowLock \in [Rows -> Connections \cup {None}]
  /\ keyShare \in [Obligations -> SUBSET Connections]

\* What a connection has read of a row it has locked is what the row holds.
HasObligation(w, o) ==
  /\ rowLock[Obligation(o)] = w
  /\ seen[w].obligationStatus = obligationStatus[o]
  /\ seen[w].fulfilled = fulfilled[o]
HasReservation(w, r) ==
  /\ rowLock[Reservation(r)] = w
  /\ seen[w].reservationStatus = reservationStatus[r]
  /\ seen[w].consumed = consumed[r]
HasBalance(w, a) ==
  /\ rowLock[Balance(a)] = w
  /\ seen[w].available = available[a]
  /\ seen[w].reserved = reserved[a]

Open(o) == obligationStatus[o] \notin TerminalObligation \cup {"absent"}
CanFulfil(o, n) == obligationStatus[o] \notin {"cancelled", "absent"} /\ n <= Remaining(o)
CanConsume(r, n) == IsActive(r) /\ n <= Releasable(r)

\* The statements that follow the locking read of an active reservation.
OnBalance(w, r) ==
  \/ todo[w] = <<Balance(onAccount[r]), RecordEvent(forObligation[r])>>
  \/ todo[w] = <<RecordEvent(forObligation[r])>> /\ HasBalance(w, onAccount[r])
  \/ todo[w] = <<>> /\ HasBalance(w, onAccount[r])

\* How far a command has come: the rows it has locked, and the conditions on
\* them, which its early returns have checked and which still hold.
Creating(w, c) ==
  /\ c.kind = "create"
  /\ reservationStatus[c.r] = "absent"
  /\ \/ todo[w] = <<Obligation(c.o)>>
     \/ /\ HasObligation(w, c.o) /\ Open(c.o)
        /\ \/ todo[w] = <<Balance(c.a)>>
           \/ todo[w] = <<>> /\ HasBalance(w, c.a) /\ Covers(c.a, c.n)
Consuming(w, c) ==
  /\ c.kind = "consume"
  /\ \/ todo[w] = <<Reservation(c.r)>>
     \/ HasReservation(w, c.r) /\ CanConsume(c.r, c.n) /\ OnBalance(w, c.r)
Ending(w, c) ==
  /\ c.kind = "end"
  /\ \/ todo[w] = <<Reservation(c.r)>>
     \/ HasReservation(w, c.r) /\ IsActive(c.r) /\ OnBalance(w, c.r)
Cancelling(w, c) ==
  /\ c.kind = "cancel"
  /\ \/ todo[w] = <<Obligation(c.o)>>
     \/ /\ HasObligation(w, c.o) /\ Open(c.o)
        /\ todo[w] = <<CountActive(c.o)>> \/ (todo[w] = <<>> /\ ActiveFor(c.o) = {})
Fulfilling(w, c) ==
  /\ c.kind = "fulfil"
  /\ \/ todo[w] = <<Obligation(c.o)>>
     \/ HasObligation(w, c.o) /\ CanFulfil(c.o, c.n) /\ todo[w] = <<>>
FulfillingFrom(w, c) ==
  /\ c.kind = "fulfilFrom"
  /\ \/ todo[w] = <<Obligation(c.o)>>
     \/ /\ HasObligation(w, c.o) /\ CanFulfil(c.o, c.n)
        /\ \/ todo[w] = <<Reservation(c.r)>>
           \/ HasReservation(w, c.r) /\ CanConsume(c.r, c.n) /\ OnBalance(w, c.r)
           \/ HasReservation(w, c.r) /\ reservationStatus[c.r] = "consumed" /\ todo[w] = <<>>
Resting(w) ==
  /\ cmd[w] = NoCommand
  /\ todo[w] = <<>>
  /\ \A x \in Rows : rowLock[x] # w
  /\ \A o \in Obligations : w \notin keyShare[o]

Progress(w) ==
  \/ Resting(w)
  \/ Creating(w, cmd[w]) \/ Consuming(w, cmd[w]) \/ Ending(w, cmd[w])
  \/ Cancelling(w, cmd[w]) \/ Fulfilling(w, cmd[w]) \/ FulfillingFrom(w, cmd[w])

\* Only rows that exist are locked, and no two creates insert one row.
LockedRowsExist ==
  /\ \A o \in Obligations : rowLock[Obligation(o)] # None => obligationStatus[o] # "absent"
  /\ \A r \in Reservations : rowLock[Reservation(r)] # None => reservationStatus[r] # "absent"
CreatesDiffer ==
  \A v, w \in Connections :
    cmd[v].kind = "create" /\ cmd[w].kind = "create" /\ v # w => cmd[v].r # cmd[w].r

\* Obligations are locked before reservations and reservations before balances;
\* the key of an obligation is shared last of all.
Rank(x) == IF x[1] = "obligation" THEN 1 ELSE IF x[1] = "reservation" THEN 2 ELSE 3
InOrder(w) ==
  /\ todo[w] # <<>> /\ Head(todo[w]) \in Rows =>
       \A x \in Rows : rowLock[x] = w => Rank(x) < Rank(Head(todo[w]))
  /\ \A o \in Obligations : w \in keyShare[o] => todo[w] = <<>>

TxIInv ==
  /\ IInv
  /\ TxTypeOK
  /\ \A w \in Connections : Progress(w) /\ InOrder(w)
  /\ LockedRowsExist
  /\ CreatesDiffer

\* What the parameters of a command are.
LEMMA CommandTypes ==
  ASSUME TxTypeOK, NEW w \in Connections, NEW c, c = cmd[w]
  PROVE  /\ c.kind \in {"create", "cancel", "fulfil", "fulfilFrom"} => c.o \in Obligations
         /\ c.kind \in {"create", "consume", "end", "fulfilFrom"} => c.r \in Reservations
         /\ c.kind \in {"create", "consume", "fulfil", "fulfilFrom"} => c.n \in Amounts
         /\ c.kind = "create" => c.a \in Accounts
         /\ c.kind = "end" => c.next \in EndStatus
         /\ c.kind \in {"create", "cancel", "fulfil", "fulfilFrom", "consume", "end"} => c # NoCommand
<1>1. c \in Commands \/ c = NoCommand
  BY DEF TxTypeOK
<1>2. c # NoCommand => c \in Commands
  BY <1>1
<1>3. NoCommand.kind = "idle"
  BY DEF NoCommand
<1> QED BY <1>1, <1>2, <1>3 DEF Commands

\* Rows of different tables are different, and the statements that lock no row
\* for update name none.
LEMMA RowsDiffer ==
  /\ \A o \in Obligations : Obligation(o) \in Rows /\ Obligation(o)[1] = "obligation" /\ Obligation(o)[2] = o
  /\ \A r \in Reservations : Reservation(r) \in Rows /\ Reservation(r)[1] = "reservation" /\ Reservation(r)[2] = r
  /\ \A a \in Accounts : Balance(a) \in Rows /\ Balance(a)[1] = "balance" /\ Balance(a)[2] = a
  /\ \A o : CountActive(o) \notin Rows /\ CountActive(o)[1] = "count" /\ CountActive(o)[2] = o
  /\ \A o : RecordEvent(o) \notin Rows /\ RecordEvent(o)[1] = "event" /\ RecordEvent(o)[2] = o
BY DEF Rows, Obligation, Reservation, Balance, CountActive, RecordEvent

-----------------------------------------------------------------------------
(* What the other connections see of a step *)

\* A step leaves connection v alone: where it is, what it has locked and what
\* it has read and checked.
Undisturbed(v) ==
  /\ cmd'[v] = cmd[v] /\ todo'[v] = todo[v] /\ seen'[v] = seen[v]
  /\ \A x \in Rows : rowLock'[x] = v <=> rowLock[x] = v
  /\ \A o \in Obligations : v \in keyShare'[o] <=> v \in keyShare[o]
  /\ \A o \in Obligations : rowLock[Obligation(o)] = v =>
       /\ obligationStatus'[o] = obligationStatus[o]
       /\ principal'[o] = principal[o] /\ fulfilled'[o] = fulfilled[o]
       /\ ActiveFor(o)' \subseteq ActiveFor(o)
  /\ \A r \in Reservations : rowLock[Reservation(r)] = v =>
       /\ reservationStatus'[r] = reservationStatus[r]
       /\ forObligation'[r] = forObligation[r] /\ onAccount'[r] = onAccount[r]
       /\ amount'[r] = amount[r] /\ consumed'[r] = consumed[r]
  /\ \A a \in Accounts : rowLock[Balance(a)] = v =>
       available'[a] = available[a] /\ reserved'[a] = reserved[a]
  /\ cmd[v].kind = "create" => reservationStatus'[cmd[v].r] = reservationStatus[cmd[v].r]

\* Rows as they were read stay so.
LEMMA HasKept ==
  ASSUME NEW v \in Connections, Undisturbed(v)
  PROVE  /\ \A o \in Obligations : HasObligation(v, o) => HasObligation(v, o)'
         /\ \A r \in Reservations : HasReservation(v, r) => HasReservation(v, r)'
         /\ \A a \in Accounts : HasBalance(v, a) => HasBalance(v, a)'
<1>1. ASSUME NEW o \in Obligations, HasObligation(v, o) PROVE HasObligation(v, o)'
  BY <1>1, RowsDiffer DEF Undisturbed, HasObligation
<1>2. ASSUME NEW r \in Reservations, HasReservation(v, r) PROVE HasReservation(v, r)'
  BY <1>2, RowsDiffer DEF Undisturbed, HasReservation
<1>3. ASSUME NEW a \in Accounts, HasBalance(v, a) PROVE HasBalance(v, a)'
  BY <1>3, RowsDiffer DEF Undisturbed, HasBalance
<1> QED BY <1>1, <1>2, <1>3

\* So do the conditions on them, and the way on from an active reservation.
LEMMA ConditionsKept ==
  ASSUME IInv, NEW v \in Connections, Undisturbed(v)
  PROVE  /\ \A o \in Obligations : HasObligation(v, o) /\ Open(o) => Open(o)'
         /\ \A o \in Obligations, n \in Amounts : HasObligation(v, o) /\ CanFulfil(o, n) => CanFulfil(o, n)'
         /\ \A r \in Reservations, n \in Amounts : HasReservation(v, r) /\ CanConsume(r, n) => CanConsume(r, n)'
         /\ \A r \in Reservations : HasReservation(v, r) /\ IsActive(r) /\ OnBalance(v, r) =>
              IsActive(r)' /\ OnBalance(v, r)'
<1>1. ASSUME NEW o \in Obligations, HasObligation(v, o), Open(o) PROVE Open(o)'
  BY <1>1 DEF Undisturbed, HasObligation, Open
<1>2. ASSUME NEW o \in Obligations, NEW n \in Amounts, HasObligation(v, o), CanFulfil(o, n)
      PROVE  CanFulfil(o, n)'
  BY <1>2 DEF Undisturbed, HasObligation, CanFulfil, Remaining
<1>3. ASSUME NEW r \in Reservations, NEW n \in Amounts, HasReservation(v, r), CanConsume(r, n)
      PROVE  CanConsume(r, n)'
  BY <1>3 DEF Undisturbed, HasReservation, CanConsume, IsActive, Releasable
<1>4. ASSUME NEW r \in Reservations, HasReservation(v, r), IsActive(r), OnBalance(v, r)
      PROVE  IsActive(r)' /\ OnBalance(v, r)'
  <2>1. PICK a \in Accounts : a = onAccount[r]
    BY <1>4 DEF IInv, ReservationRows, IsActive
  <2>2. /\ reservationStatus'[r] = reservationStatus[r]
        /\ forObligation'[r] = forObligation[r] /\ onAccount'[r] = onAccount[r]
        /\ todo'[v] = todo[v]
    BY <1>4 DEF Undisturbed, HasReservation
  <2>3. HasBalance(v, a) => HasBalance(v, a)'
    BY HasKept
  <2>4. HasBalance(v, onAccount[r]) => HasBalance(v, onAccount[r])'
    BY <2>1, <2>2, <2>3 DEF HasBalance
  <2> QED BY <1>4, <2>2, <2>4 DEF IsActive, OnBalance
<1> QED BY <1>1, <1>2, <1>3, <1>4

\* A connection that is left alone has come as far as before, in order.
LEMMA ProgressKept ==
  ASSUME IInv, TxTypeOK, NEW v \in Connections, Undisturbed(v), Progress(v), InOrder(v)
  PROVE  Progress(v)' /\ InOrder(v)'
<1> DEFINE c == cmd[v]
<1>0. cmd'[v] = c /\ todo'[v] = todo[v]
  BY DEF Undisturbed
<1>1. CASE Resting(v)
  <2>1. Resting(v)'
    BY <1>0, <1>1 DEF Undisturbed, Resting
  <2> QED BY <2>1, RowsDiffer DEF Resting, Progress, InOrder
<1>2. InOrder(v)'
  BY <1>0 DEF Undisturbed, InOrder
<1>3. CASE Creating(v, c)
  <2>1. c.r \in Reservations /\ c.o \in Obligations /\ c.a \in Accounts /\ c.n \in Amounts
    BY <1>3, CommandTypes DEF Creating
  <2>2. reservationStatus'[c.r] = "absent"
    BY <1>3 DEF Undisturbed, Creating
  <2>3. HasObligation(v, c.o) /\ Open(c.o) => HasObligation(v, c.o)' /\ Open(c.o)'
    <3>1. ASSUME NEW o \in Obligations, HasObligation(v, o) /\ Open(o)
          PROVE  HasObligation(v, o)' /\ Open(o)'
      BY <3>1, HasKept, ConditionsKept
    <3> QED BY <1>0, <2>1, <3>1 DEF HasObligation, Open
  <2>4. HasBalance(v, c.a) /\ Covers(c.a, c.n) => HasBalance(v, c.a)' /\ Covers(c.a, c.n)'
    <3>1. ASSUME HasBalance(v, c.a) PROVE available'[c.a] = available[c.a] /\ reserved'[c.a] = reserved[c.a]
      BY <2>1, <3>1 DEF HasBalance, Undisturbed
    <3> QED BY <1>0, <2>1, <3>1, RowsDiffer DEF HasBalance, Covers, Undisturbed
  <2> QED BY <1>0, <1>2, <1>3, <2>2, <2>3, <2>4 DEF Creating, Progress
<1>4. CASE Consuming(v, c)
  <2>1. c.r \in Reservations /\ c.n \in Amounts
    BY <1>4, CommandTypes DEF Consuming
  <2>2. HasReservation(v, c.r) /\ CanConsume(c.r, c.n) /\ OnBalance(v, c.r) =>
          HasReservation(v, c.r)' /\ CanConsume(c.r, c.n)' /\ OnBalance(v, c.r)'
    <3>1. ASSUME NEW r \in Reservations, NEW n \in Amounts,
                 HasReservation(v, r) /\ CanConsume(r, n) /\ OnBalance(v, r)
          PROVE  HasReservation(v, r)' /\ CanConsume(r, n)' /\ OnBalance(v, r)'
      BY <3>1, HasKept, ConditionsKept DEF CanConsume
    <3> QED BY <1>0, <2>1, <3>1 DEF HasReservation, CanConsume, OnBalance, IsActive, Releasable, HasBalance
  <2> QED BY <1>0, <1>2, <1>4, <2>2 DEF Consuming, Progress
<1>5. CASE Ending(v, c)
  <2>1. c.r \in Reservations
    BY <1>5, CommandTypes DEF Ending
  <2>2. HasReservation(v, c.r) /\ IsActive(c.r) /\ OnBalance(v, c.r) =>
          HasReservation(v, c.r)' /\ IsActive(c.r)' /\ OnBalance(v, c.r)'
    <3>1. ASSUME NEW r \in Reservations, HasReservation(v, r) /\ IsActive(r) /\ OnBalance(v, r)
          PROVE  HasReservation(v, r)' /\ IsActive(r)' /\ OnBalance(v, r)'
      BY <3>1, HasKept, ConditionsKept
    <3> QED BY <1>0, <2>1, <3>1 DEF HasReservation, OnBalance, IsActive, HasBalance
  <2> QED BY <1>0, <1>2, <1>5, <2>2 DEF Ending, Progress
<1>6. CASE Cancelling(v, c)
  <2>1. c.o \in Obligations
    BY <1>6, CommandTypes DEF Cancelling
  <2>2. HasObligation(v, c.o) /\ Open(c.o) => HasObligation(v, c.o)' /\ Open(c.o)'
    <3>1. ASSUME NEW o \in Obligations, HasObligation(v, o) /\ Open(o)
          PROVE  HasObligation(v, o)' /\ Open(o)'
      BY <3>1, HasKept, ConditionsKept
    <3> QED BY <1>0, <2>1, <3>1 DEF HasObligation, Open
  <2>3. HasObligation(v, c.o) /\ ActiveFor(c.o) = {} => ActiveFor(c.o)' = {}
    BY <1>0, <2>1 DEF HasObligation, Undisturbed, ActiveFor
  <2> QED BY <1>0, <1>2, <1>6, <2>2, <2>3 DEF Cancelling, Progress
<1>7. CASE Fulfilling(v, c) \/ FulfillingFrom(v, c)
  <2>1. c.o \in Obligations /\ c.n \in Amounts
    BY <1>7, CommandTypes DEF Fulfilling, FulfillingFrom
  <2>2. HasObligation(v, c.o) /\ CanFulfil(c.o, c.n) => HasObligation(v, c.o)' /\ CanFulfil(c.o, c.n)'
    <3>1. ASSUME NEW o \in Obligations, NEW n \in Amounts, HasObligation(v, o) /\ CanFulfil(o, n)
          PROVE  HasObligation(v, o)' /\ CanFulfil(o, n)'
      BY <3>1, HasKept, ConditionsKept
    <3> QED BY <1>0, <2>1, <3>1 DEF HasObligation, CanFulfil, Remaining
  <2>3. CASE Fulfilling(v, c)
    BY <1>0, <1>2, <2>2, <2>3 DEF Fulfilling, Progress
  <2>4. CASE FulfillingFrom(v, c)
    <3>1. c.r \in Reservations
      BY <2>4, CommandTypes DEF FulfillingFrom
    <3>2. HasReservation(v, c.r) /\ CanConsume(c.r, c.n) /\ OnBalance(v, c.r) =>
            HasReservation(v, c.r)' /\ CanConsume(c.r, c.n)' /\ OnBalance(v, c.r)'
      <4>1. ASSUME NEW r \in Reservations, NEW n \in Amounts,
                   HasReservation(v, r) /\ CanConsume(r, n) /\ OnBalance(v, r)
            PROVE  HasReservation(v, r)' /\ CanConsume(r, n)' /\ OnBalance(v, r)'
        BY <4>1, HasKept, ConditionsKept DEF CanConsume
      <4> QED BY <1>0, <2>1, <3>1, <4>1
              DEF HasReservation, CanConsume, OnBalance, IsActive, Releasable, HasBalance
    <3>3. HasReservation(v, c.r) /\ reservationStatus[c.r] = "consumed" =>
            HasReservation(v, c.r)' /\ reservationStatus'[c.r] = "consumed"
      <4>1. ASSUME NEW r \in Reservations, HasReservation(v, r) /\ reservationStatus[r] = "consumed"
            PROVE  HasReservation(v, r)' /\ reservationStatus'[r] = "consumed"
        BY <4>1, HasKept DEF HasReservation, Undisturbed
      <4> QED BY <1>0, <3>1, <4>1 DEF HasReservation
    <3> QED BY <1>0, <1>2, <2>2, <2>4, <3>2, <3>3 DEF FulfillingFrom, Progress
  <2> QED BY <1>7, <2>3, <2>4
<1> QED BY <1>1, <1>3, <1>4, <1>5, <1>6, <1>7 DEF Progress

-----------------------------------------------------------------------------
(* Steps that write no table *)

\* The end of a transaction: its locks are gone, those of others are not.
Finished(w) ==
  /\ cmd' = [cmd EXCEPT ![w] = NoCommand]
  /\ Resting(w)' /\ InOrder(w)' /\ TxTypeOK'
  /\ \A v \in Connections : v # w =>
       /\ cmd'[v] = cmd[v] /\ todo'[v] = todo[v] /\ seen'[v] = seen[v]
       /\ \A x \in Rows : rowLock'[x] = v <=> rowLock[x] = v
       /\ \A o \in Obligations : v \in keyShare'[o] <=> v \in keyShare[o]
  /\ \A x \in Rows : rowLock'[x] # None => rowLock[x] # None /\ rowLock[x] # w

LEMMA FinishEnds ==
  ASSUME TxTypeOK, NEW w \in Connections, Finish(w)
  PROVE  Finished(w)
<1> USE NoneIsNoConnection DEF Finish, Unlocked
<1>1. cmd'[w] = NoCommand /\ todo'[w] = <<>>
  BY DEF TxTypeOK
<1>2. \A x \in Rows : rowLock'[x] # w
  BY DEF TxTypeOK
<1>3. \A o \in Obligations : w \notin keyShare'[o]
  BY DEF TxTypeOK
<1>4. Resting(w)' /\ InOrder(w)'
  BY <1>1, <1>2, <1>3 DEF Resting, InOrder
<1>5. TxTypeOK'
  <2>1. NothingSeen \in Seen
    BY DEF NothingSeen, Seen, ObligationStatus, ReservationStatus
  <2> QED BY <2>1 DEF TxTypeOK
<1>6. ASSUME NEW v \in Connections, v # w
      PROVE  /\ cmd'[v] = cmd[v] /\ todo'[v] = todo[v] /\ seen'[v] = seen[v]
             /\ \A x \in Rows : rowLock'[x] = v <=> rowLock[x] = v
             /\ \A o \in Obligations : v \in keyShare'[o] <=> v \in keyShare[o]
  BY <1>6 DEF TxTypeOK
<1>7. \A x \in Rows : rowLock'[x] # None => rowLock[x] # None /\ rowLock[x] # w
  BY DEF TxTypeOK
<1> QED BY <1>4, <1>5, <1>6, <1>7 DEF Finished

\* A step of connection w that writes no table keeps the invariant if it keeps
\* its own part of it and takes no lock from another.
LEMMA LocalKeeps ==
  ASSUME TxIInv, NEW w \in Connections, UNCHANGED vars,
         TxTypeOK', Progress(w)', InOrder(w)', LockedRowsExist',
         cmd'[w] = cmd[w] \/ cmd'[w] = NoCommand,
         \A v \in Connections : v # w =>
           /\ cmd'[v] = cmd[v] /\ todo'[v] = todo[v] /\ seen'[v] = seen[v]
           /\ \A x \in Rows : rowLock'[x] = v <=> rowLock[x] = v
           /\ \A o \in Obligations : v \in keyShare'[o] <=> v \in keyShare[o]
  PROVE  TxIInv'
<1>1. IInv'
  BY StutterKeeps DEF TxIInv
<1>2. ASSUME NEW v \in Connections, v # w PROVE Progress(v)' /\ InOrder(v)'
  <2>1. Undisturbed(v)
    BY <1>2 DEF Undisturbed, vars, obligationVars, reservationVars, balanceVars, ActiveFor, IsActive
  <2> QED BY <2>1, ProgressKept DEF TxIInv
<1>3. CreatesDiffer'
  <2>1. NoCommand.kind # "create"
    BY DEF NoCommand
  <2> QED BY <2>1 DEF TxIInv, CreatesDiffer
<1> QED BY <1>1, <1>2, <1>3 DEF TxIInv

\* A transaction that is rolled back, aborted or refused leaves the rest alone.
LEMMA FinishKeeps ==
  ASSUME TxIInv, NEW w \in Connections, Finish(w), UNCHANGED vars
  PROVE  TxIInv'
<1>1. Finished(w)
  BY FinishEnds DEF TxIInv
<1>2. LockedRowsExist'
  BY <1>1, RowsDiffer DEF TxIInv, LockedRowsExist, Finished, vars, obligationVars, reservationVars
<1>3. cmd'[w] = NoCommand
  BY <1>1 DEF TxIInv, TxTypeOK, Finished
<1>4. Progress(w)'
  BY <1>1 DEF Finished, Progress
<1> QED BY <1>1, <1>2, <1>3, <1>4, LocalKeeps DEF Finished

\* A command that begins has one row to lock first.
LEMMA BeginKeeps ==
  ASSUME TxIInv, NEW w \in Connections, NEW c \in Commands, Begin(w, c)
  PROVE  TxIInv'
<1> USE DEF Begin
<1>1. /\ cmd' = [cmd EXCEPT ![w] = c] /\ cmd[w] = NoCommand
      /\ UNCHANGED <<vars, seen, rowLock, keyShare>>
  OBVIOUS
<1>2. /\ c.kind \in {"create", "consume", "end", "cancel", "fulfil", "fulfilFrom"}
      /\ c.kind \notin {"consume", "end"} => c.o \in Obligations
      /\ c.kind \in {"consume", "end"} => c.r \in Reservations
  BY DEF Commands
<1>3. TxTypeOK'
  BY DEF TxIInv, TxTypeOK
<1>4. /\ c.kind \in {"consume", "end"} => todo'[w] = <<Reservation(c.r)>>
      /\ c.kind \notin {"consume", "end"} => todo'[w] = <<Obligation(c.o)>>
      /\ cmd'[w] = c
      /\ \A v \in Connections : v # w => todo'[v] = todo[v] /\ cmd'[v] = cmd[v]
  BY DEF TxIInv, TxTypeOK
<1>5. Progress(w)'
  <2>1. c.kind = "create" => reservationStatus'[c.r] = "absent"
    BY <1>1 DEF vars, reservationVars
  <2> QED BY <1>2, <1>4, <2>1
          DEF Progress, Creating, Consuming, Ending, Cancelling, Fulfilling, FulfillingFrom
<1>6. InOrder(w)'
  <2>1. Resting(w)
    BY <1>1 DEF TxIInv, Progress, Creating, Consuming, Ending, Cancelling, Fulfilling, FulfillingFrom,
                NoCommand
  <2> QED BY <1>1, <2>1 DEF Resting, InOrder
<1>7. LockedRowsExist'
  BY <1>1 DEF TxIInv, LockedRowsExist, vars, obligationVars, reservationVars
<1>8. CreatesDiffer'
  <2>1. c.kind = "create" => \A v \in Connections : cmd[v].kind = "create" => cmd[v].r # c.r
    OBVIOUS
  <2> QED BY <1>4, <2>1 DEF TxIInv, CreatesDiffer
<1>9. IInv'
  BY <1>1, StutterKeeps DEF TxIInv
<1>10. ASSUME NEW v \in Connections, v # w PROVE Progress(v)' /\ InOrder(v)'
  <2>1. Undisturbed(v)
    BY <1>1, <1>4, <1>10 DEF Undisturbed, vars, obligationVars, reservationVars, balanceVars, ActiveFor, IsActive
  <2> QED BY <2>1, ProgressKept DEF TxIInv
<1> QED BY <1>3, <1>5, <1>6, <1>7, <1>8, <1>9, <1>10 DEF TxIInv

-----------------------------------------------------------------------------
(* Statements *)

\* A statement that locks row x, which nobody else has locked, returns s and
\* leaves the statements next to run.
Locks(w, x, s, next) ==
  /\ rowLock[x] \in {None, w}
  /\ rowLock' = [rowLock EXCEPT ![x] = w]
  /\ seen' = [seen EXCEPT ![w] = s]
  /\ todo' = [todo EXCEPT ![w] = next]
  /\ UNCHANGED <<cmd, keyShare, vars>>

\* What such a statement does to the others and to the types.
LEMMA LocksAlone ==
  ASSUME TxTypeOK, NEW w \in Connections, NEW x \in Rows, NEW s \in Seen, NEW next,
         Locks(w, x, s, next)
  PROVE  /\ TxTypeOK'
         /\ cmd'[w] = cmd[w] /\ seen'[w] = s /\ todo'[w] = next
         /\ rowLock'[x] = w /\ \A y \in Rows : y # x => rowLock'[y] = rowLock[y]
         /\ \A v \in Connections : v # w =>
              /\ cmd'[v] = cmd[v] /\ todo'[v] = todo[v] /\ seen'[v] = seen[v]
              /\ \A y \in Rows : rowLock'[y] = v <=> rowLock[y] = v
              /\ \A o \in Obligations : v \in keyShare'[o] <=> v \in keyShare[o]
<1> USE NoneIsNoConnection DEF Locks
<1>1. TxTypeOK'
  BY DEF TxTypeOK
<1>2. rowLock'[x] = w /\ \A y \in Rows : y # x => rowLock'[y] = rowLock[y]
  BY DEF TxTypeOK
<1>3. ASSUME NEW v \in Connections, v # w
      PROVE  /\ cmd'[v] = cmd[v] /\ todo'[v] = todo[v] /\ seen'[v] = seen[v]
             /\ \A y \in Rows : rowLock'[y] = v <=> rowLock[y] = v
             /\ \A o \in Obligations : v \in keyShare'[o] <=> v \in keyShare[o]
  BY <1>2, <1>3 DEF TxTypeOK
<1>4. cmd'[w] = cmd[w] /\ seen'[w] = s /\ todo'[w] = next
  BY DEF TxTypeOK
<1> QED BY <1>1, <1>2, <1>3, <1>4

\* The locking read of an obligation.
LEMMA ObligationStatement ==
  ASSUME TxIInv, NEW w \in Connections, NEW c, c = cmd[w],
         c.kind \in {"create", "cancel", "fulfil", "fulfilFrom"},
         NEW o \in Obligations, o = c.o, todo[w] = <<Obligation(o)>>, Statement(w), ~Finish(w)
  PROVE  LET s == [seen[w] EXCEPT !.obligationStatus = obligationStatus[o], !.fulfilled = fulfilled[o]]
         IN  /\ c.kind = "create" => Open(o) /\ Locks(w, Obligation(o), s, <<Balance(c.a)>>)
             /\ c.kind = "cancel" => Open(o) /\ Locks(w, Obligation(o), s, <<CountActive(o)>>)
             /\ c.kind = "fulfil" => CanFulfil(o, c.n) /\ Locks(w, Obligation(o), s, <<>>)
             /\ c.kind = "fulfilFrom" => CanFulfil(o, c.n) /\ Locks(w, Obligation(o), s, <<Reservation(c.r)>>)
<1> DEFINE x == Obligation(o)
           s == [seen[w] EXCEPT !.obligationStatus = obligationStatus[o], !.fulfilled = fulfilled[o]]
<1>0. x[1] = "obligation" /\ x[2] = o /\ x \in Rows /\ x # RecordEvent(o)
      /\ \A p \in Obligations : x # RecordEvent(p)
  BY RowsDiffer
<1>1. Head(todo[w]) = x /\ todo[w] # <<>> /\ Tail(todo[w]) = <<>>
  OBVIOUS
<1> HIDE DEF x
<1>2. Read(seen[w], x) = s
  BY <1>0 DEF Read
<1>3. s \in Seen /\ s.obligationStatus = obligationStatus[o] /\ s.fulfilled = fulfilled[o]
  <2>1. seen[w] \in Seen
    BY DEF TxIInv, TxTypeOK
  <2>2. obligationStatus[o] \in ObligationStatus /\ fulfilled[o] \in Nat
    BY MaxUnitsNat DEF TxIInv, IInv, ObligationRows, Units
  <2> QED BY <2>1, <2>2 DEF Seen
<1> HIDE DEF s
<1>4. /\ GoesOn(c, x, s)
      /\ seen' = [seen EXCEPT ![w] = s]
      /\ todo' = [todo EXCEPT ![w] = <<>> \o FollowedBy(c, x, s)]
      /\ rowLock' = [y \in Rows |-> IF y = x THEN w ELSE rowLock[y]]
      /\ keyShare' = [p \in Obligations |-> IF x = RecordEvent(p) THEN keyShare[p] \cup {w} ELSE keyShare[p]]
      /\ UNCHANGED <<cmd, vars>>
  BY <1>1, <1>2 DEF Statement
<1>5. rowLock[x] \in {None, w}
  BY <1>0, <1>1 DEF Statement, Blockers, Holders
<1>6. keyShare' = keyShare /\ rowLock' = [rowLock EXCEPT ![x] = w]
  BY <1>0, <1>4 DEF TxIInv, TxTypeOK
<1>7. /\ c.kind \in {"create", "cancel"} => Open(o)
      /\ c.kind \in {"fulfil", "fulfilFrom"} => CanFulfil(o, c.n)
  BY <1>0, <1>3, <1>4 DEF GoesOn, Open, CanFulfil, Remaining
<1>8. <<>> \o FollowedBy(c, x, s) =
        CASE c.kind = "create" -> <<Balance(c.a)>>
          [] c.kind = "cancel" -> <<CountActive(o)>>
          [] c.kind = "fulfilFrom" -> <<Reservation(c.r)>>
          [] OTHER -> <<>>
  BY <1>0 DEF FollowedBy
<1> QED BY <1>4, <1>5, <1>6, <1>7, <1>8 DEF Locks, s, x

LEMMA ObligationStatementKeeps ==
  ASSUME TxIInv, NEW w \in Connections, NEW c, c = cmd[w],
         c.kind \in {"create", "cancel", "fulfil", "fulfilFrom"},
         todo[w] = <<Obligation(c.o)>>, Statement(w), ~Finish(w)
  PROVE  TxIInv'
<1>0. PICK o \in Obligations : o = c.o
  BY CommandTypes DEF TxIInv
<1> DEFINE x == Obligation(o)
           s == [seen[w] EXCEPT !.obligationStatus = obligationStatus[o], !.fulfilled = fulfilled[o]]
<1>1. /\ c.kind = "create" => Open(o) /\ Locks(w, x, s, <<Balance(c.a)>>)
      /\ c.kind = "cancel" => Open(o) /\ Locks(w, x, s, <<CountActive(o)>>)
      /\ c.kind = "fulfil" => CanFulfil(o, c.n) /\ Locks(w, x, s, <<>>)
      /\ c.kind = "fulfilFrom" => CanFulfil(o, c.n) /\ Locks(w, x, s, <<Reservation(c.r)>>)
  BY <1>0, ObligationStatement
<1>2. x \in Rows /\ x = Obligation(c.o) /\ Head(todo[w]) = x /\ todo[w] # <<>>
  BY <1>0, RowsDiffer
<1>3. s \in Seen /\ s.obligationStatus = obligationStatus[o] /\ s.fulfilled = fulfilled[o]
  <2>1. seen[w] \in Seen
    BY DEF TxIInv, TxTypeOK
  <2>2. obligationStatus[o] \in ObligationStatus /\ fulfilled[o] \in Nat
    BY MaxUnitsNat DEF TxIInv, IInv, ObligationRows, Units
  <2> QED BY <2>1, <2>2 DEF Seen
<1>4. obligationStatus[o] # "absent"
  BY <1>1 DEF Open, CanFulfil
<1> HIDE DEF s
<1>5. PICK next \in {<<Balance(c.a)>>, <<CountActive(o)>>, <<>>, <<Reservation(c.r)>>} :
        /\ Locks(w, x, s, next)
        /\ c.kind = "create" => next = <<Balance(c.a)>>
        /\ c.kind = "cancel" => next = <<CountActive(o)>>
        /\ c.kind = "fulfil" => next = <<>>
        /\ c.kind = "fulfilFrom" => next = <<Reservation(c.r)>>
  BY <1>1
<1>6. /\ TxTypeOK'
      /\ cmd'[w] = c /\ seen'[w] = s /\ todo'[w] = next
      /\ rowLock'[x] = w /\ \A y \in Rows : y # x => rowLock'[y] = rowLock[y]
      /\ \A v \in Connections : v # w =>
           /\ cmd'[v] = cmd[v] /\ todo'[v] = todo[v] /\ seen'[v] = seen[v]
           /\ \A y \in Rows : rowLock'[y] = v <=> rowLock[y] = v
           /\ \A p \in Obligations : v \in keyShare'[p] <=> v \in keyShare[p]
  BY <1>2, <1>3, <1>5, LocksAlone DEF TxIInv
<1>7. UNCHANGED vars /\ keyShare' = keyShare
  BY <1>5 DEF Locks
<1>8. Progress(w)'
  <2>1. HasObligation(w, c.o)'
    BY <1>0, <1>2, <1>3, <1>6, <1>7 DEF HasObligation, vars, obligationVars
  <2>2. /\ c.kind \in {"create", "cancel"} => Open(c.o)'
        /\ c.kind \in {"fulfil", "fulfilFrom"} => CanFulfil(c.o, c.n)'
        /\ c.kind = "create" => reservationStatus'[c.r] = "absent"
    <3>1. c.kind = "create" => reservationStatus[c.r] = "absent"
      BY DEF TxIInv, Progress, Creating, Consuming, Ending, Cancelling, Fulfilling, FulfillingFrom, Resting,
             NoCommand
    <3> QED BY <1>0, <1>1, <1>6, <1>7, <3>1
            DEF Open, CanFulfil, Remaining, vars, obligationVars, reservationVars
  <2> QED BY <1>0, <1>5, <1>6, <2>1, <2>2
          DEF Progress, Creating, Cancelling, Fulfilling, FulfillingFrom, HasObligation
<1>9. InOrder(w)'
  <2>1. \A y \in Rows : rowLock[y] # w
    BY <1>2, RowsDiffer DEF TxIInv, InOrder, Rank
  <2>2. \A p \in Obligations : w \notin keyShare'[p]
    BY <1>2, <1>7 DEF TxIInv, InOrder
  <2>3. \A y \in Rows : rowLock'[y] = w => y = x
    BY <1>6, <2>1
  <2>4. next # <<>> /\ Head(next) \in Rows => Rank(x) < Rank(Head(next))
    <3>1. Rank(x) = 1
      BY RowsDiffer DEF Rank
    <3>2. c.kind = "create" => Rank(Balance(c.a)) = 3
      BY CommandTypes, RowsDiffer DEF TxIInv, Rank
    <3>3. c.kind = "fulfilFrom" => Rank(Reservation(c.r)) = 2
      BY CommandTypes, RowsDiffer DEF TxIInv, Rank
    <3> QED BY <1>5, <3>1, <3>2, <3>3, RowsDiffer
  <2> QED BY <1>6, <2>2, <2>3, <2>4 DEF InOrder
<1>10. LockedRowsExist'
  <2>1. \A p \in Obligations : p # o => Obligation(p) \in Rows /\ Obligation(p) # x
    BY RowsDiffer
  <2>2. \A r \in Reservations : Reservation(r) \in Rows /\ Reservation(r) # x
    BY RowsDiffer
  <2> HIDE DEF x
  <2>3. \A p \in Obligations : rowLock'[Obligation(p)] # None => obligationStatus[p] # "absent"
    BY <1>4, <1>6, <2>1 DEF TxIInv, LockedRowsExist
  <2>4. \A r \in Reservations : rowLock'[Reservation(r)] # None => reservationStatus[r] # "absent"
    BY <1>6, <2>2 DEF TxIInv, LockedRowsExist
  <2> QED BY <1>7, <2>3, <2>4 DEF LockedRowsExist, vars, obligationVars, reservationVars
<1> QED BY <1>6, <1>7, <1>8, <1>9, <1>10, LocalKeeps

\* The locking read of a reservation.
LEMMA ReservationStatement ==
  ASSUME TxIInv, NEW w \in Connections, NEW c, c = cmd[w], c.kind \in {"consume", "end", "fulfilFrom"},
         NEW r \in Reservations, r = c.r, todo[w] = <<Reservation(r)>>, Statement(w), ~Finish(w)
  PROVE  LET s == [seen[w] EXCEPT !.reservationStatus = reservationStatus[r], !.consumed = consumed[r]]
         IN  \/ /\ IsActive(r) /\ (c.kind # "end" => CanConsume(r, c.n))
                /\ Locks(w, Reservation(r), s, <<Balance(onAccount[r]), RecordEvent(forObligation[r])>>)
             \/ /\ c.kind = "fulfilFrom" /\ reservationStatus[r] = "consumed"
                /\ Locks(w, Reservation(r), s, <<>>)
<1> DEFINE x == Reservation(r)
           s == [seen[w] EXCEPT !.reservationStatus = reservationStatus[r], !.consumed = consumed[r]]
<1>0. x[1] = "reservation" /\ x[2] = r /\ x \in Rows /\ \A p \in Obligations : x # RecordEvent(p)
  BY RowsDiffer
<1>1. Head(todo[w]) = x /\ todo[w] # <<>> /\ Tail(todo[w]) = <<>>
  OBVIOUS
<1> HIDE DEF x
<1>2. Read(seen[w], x) = s
  BY <1>0 DEF Read
<1>3. s.reservationStatus = reservationStatus[r] /\ s.consumed = consumed[r]
  <2>1. seen[w] \in Seen
    BY DEF TxIInv, TxTypeOK
  <2> QED BY <2>1 DEF Seen
<1> HIDE DEF s
<1>4. /\ GoesOn(c, x, s)
      /\ seen' = [seen EXCEPT ![w] = s]
      /\ todo' = [todo EXCEPT ![w] = <<>> \o FollowedBy(c, x, s)]
      /\ rowLock' = [y \in Rows |-> IF y = x THEN w ELSE rowLock[y]]
      /\ keyShare' = [p \in Obligations |-> IF x = RecordEvent(p) THEN keyShare[p] \cup {w} ELSE keyShare[p]]
      /\ UNCHANGED <<cmd, vars>>
  BY <1>1, <1>2 DEF Statement
<1>5. rowLock[x] \in {None, w}
  BY <1>0, <1>1 DEF Statement, Blockers, Holders
<1>6. keyShare' = keyShare /\ rowLock' = [rowLock EXCEPT ![x] = w]
  BY <1>0, <1>4 DEF TxIInv, TxTypeOK
<1>7. /\ c.kind = "end" => reservationStatus[r] = "active"
      /\ c.kind # "end" => \/ reservationStatus[r] = "active" /\ c.n <= amount[r] - consumed[r]
                           \/ c.kind = "fulfilFrom" /\ reservationStatus[r] = "consumed"
  BY <1>0, <1>3, <1>4 DEF GoesOn
<1>8. c.kind # "end" /\ c.n <= amount[r] - consumed[r] => c.n <= Releasable(r)
  <2>1. c.kind # "end" => c.n \in Amounts
    BY CommandTypes DEF TxIInv
  <2> QED BY <2>1, MaxUnitsNat DEF TxIInv, IInv, ReservationRows, Releasable, Amounts, Units
<1>9. <<>> \o FollowedBy(c, x, s) =
        IF reservationStatus[r] = "active" THEN <<Balance(onAccount[r]), RecordEvent(forObligation[r])>> ELSE <<>>
  BY <1>0, <1>3 DEF FollowedBy
<1> QED BY <1>4, <1>5, <1>6, <1>7, <1>8, <1>9 DEF Locks, s, x, IsActive, CanConsume

LEMMA ReservationStatementKeeps ==
  ASSUME TxIInv, NEW w \in Connections, NEW c, c = cmd[w], c.kind \in {"consume", "end", "fulfilFrom"},
         todo[w] = <<Reservation(c.r)>>, Statement(w), ~Finish(w)
  PROVE  TxIInv'
<1>0. PICK r \in Reservations : r = c.r
  BY CommandTypes DEF TxIInv
<1> DEFINE x == Reservation(r)
           s == [seen[w] EXCEPT !.reservationStatus = reservationStatus[r], !.consumed = consumed[r]]
           onward == <<Balance(onAccount[r]), RecordEvent(forObligation[r])>>
<1>1. \/ /\ IsActive(r) /\ (c.kind # "end" => CanConsume(r, c.n))
         /\ Locks(w, x, s, onward)
      \/ /\ c.kind = "fulfilFrom" /\ reservationStatus[r] = "consumed"
         /\ Locks(w, x, s, <<>>)
  BY <1>0, ReservationStatement
<1>2. x \in Rows /\ x = Reservation(c.r) /\ Head(todo[w]) = x /\ todo[w] # <<>>
      /\ \A o \in Obligations : x # Obligation(o)
  BY <1>0, RowsDiffer
<1>3. /\ s \in Seen /\ s.reservationStatus = reservationStatus[r] /\ s.consumed = consumed[r]
      /\ s.obligationStatus = seen[w].obligationStatus /\ s.fulfilled = seen[w].fulfilled
  <2>1. seen[w] \in Seen
    BY DEF TxIInv, TxTypeOK
  <2>2. reservationStatus[r] \in ReservationStatus /\ consumed[r] \in Nat
    BY MaxUnitsNat DEF TxIInv, IInv, ReservationRows, Units
  <2> QED BY <2>1, <2>2 DEF Seen
<1>4. reservationStatus[r] # "absent"
  BY <1>1 DEF IsActive
<1> HIDE DEF s
<1>5. PICK next \in {onward, <<>>} :
        /\ Locks(w, x, s, next)
        /\ next = onward => IsActive(r) /\ (c.kind # "end" => CanConsume(r, c.n))
        /\ next = <<>> => c.kind = "fulfilFrom" /\ reservationStatus[r] = "consumed"
  BY <1>1
<1>6. /\ TxTypeOK'
      /\ cmd'[w] = c /\ seen'[w] = s /\ todo'[w] = next
      /\ rowLock'[x] = w /\ \A y \in Rows : y # x => rowLock'[y] = rowLock[y]
      /\ \A v \in Connections : v # w =>
           /\ cmd'[v] = cmd[v] /\ todo'[v] = todo[v] /\ seen'[v] = seen[v]
           /\ \A y \in Rows : rowLock'[y] = v <=> rowLock[y] = v
           /\ \A p \in Obligations : v \in keyShare'[p] <=> v \in keyShare[p]
  BY <1>2, <1>3, <1>5, LocksAlone DEF TxIInv
<1>7. UNCHANGED vars /\ keyShare' = keyShare
  BY <1>5 DEF Locks
<1>8. Progress(w)'
  <2>1. HasReservation(w, c.r)'
    BY <1>0, <1>2, <1>3, <1>6, <1>7 DEF HasReservation, vars, reservationVars
  <2>2. next = onward => OnBalance(w, c.r)'
    BY <1>0, <1>6, <1>7 DEF OnBalance, vars, reservationVars
  <2>3. /\ next = onward => IsActive(c.r)' /\ (c.kind # "end" => CanConsume(c.r, c.n)')
        /\ next = <<>> => reservationStatus'[c.r] = "consumed"
    BY <1>0, <1>5, <1>6, <1>7 DEF IsActive, CanConsume, Releasable, vars, reservationVars
  <2>4. c.kind = "fulfilFrom" => HasObligation(w, c.o)' /\ CanFulfil(c.o, c.n)'
    <3>1. ASSUME c.kind = "fulfilFrom"
          PROVE  c.o \in Obligations /\ HasObligation(w, c.o) /\ CanFulfil(c.o, c.n)
      <4>1. c.o \in Obligations
        BY <3>1, CommandTypes DEF TxIInv
      <4>2. FulfillingFrom(w, c)
        BY <3>1 DEF TxIInv, Progress, Creating, Consuming, Ending, Cancelling, Fulfilling, Resting, NoCommand
      <4>3. todo[w] # <<Obligation(c.o)>>
        BY <1>2, <4>1
      <4> QED BY <4>1, <4>2, <4>3 DEF FulfillingFrom
    <3> QED BY <1>2, <1>3, <1>6, <1>7, <3>1, RowsDiffer
            DEF HasObligation, CanFulfil, Remaining, vars, obligationVars
  <2>5. next = onward \/ next = <<>>
    OBVIOUS
  <2> QED BY <1>0, <1>5, <1>6, <2>1, <2>2, <2>3, <2>4, <2>5
          DEF Progress, Consuming, Ending, FulfillingFrom
<1>9. InOrder(w)'
  <2>0. Rank(x) = 2
    BY RowsDiffer DEF Rank
  <2>1. \A y \in Rows : rowLock[y] = w => Rank(y) < 2
    BY <1>2, <2>0 DEF TxIInv, InOrder
  <2>2. \A p \in Obligations : w \notin keyShare'[p]
    BY <1>2, <1>7 DEF TxIInv, InOrder
  <2>3. \A y \in Rows : rowLock'[y] = w => Rank(y) < 3
    <3>1. \A y \in Rows : Rank(y) \in {1, 2, 3}
      BY DEF Rank
    <3> QED BY <1>6, <2>0, <2>1, <3>1
  <2>4. next # <<>> /\ Head(next) \in Rows => Rank(Head(next)) = 3
    <3>1. next = onward => Head(next) = Balance(onAccount[r])
      OBVIOUS
    <3>2. Rank(Balance(onAccount[r])) = 3
      BY DEF Rank, Balance
    <3> QED BY <3>1, <3>2
  <2> QED BY <1>6, <2>2, <2>3, <2>4 DEF InOrder
<1>10. LockedRowsExist'
  <2>1. \A q \in Reservations : q # r => Reservation(q) \in Rows /\ Reservation(q) # x
    BY RowsDiffer
  <2>2. \A o \in Obligations : Obligation(o) \in Rows /\ Obligation(o) # x
    BY RowsDiffer
  <2> HIDE DEF x
  <2>3. \A q \in Reservations : rowLock'[Reservation(q)] # None => reservationStatus[q] # "absent"
    BY <1>4, <1>6, <2>1 DEF TxIInv, LockedRowsExist
  <2>4. \A o \in Obligations : rowLock'[Obligation(o)] # None => obligationStatus[o] # "absent"
    BY <1>6, <2>2 DEF TxIInv, LockedRowsExist
  <2> QED BY <1>7, <2>3, <2>4 DEF LockedRowsExist, vars, obligationVars, reservationVars
<1> QED BY <1>6, <1>7, <1>8, <1>9, <1>10, LocalKeeps

\* The locking read of a balance.
LEMMA BalanceStatement ==
  ASSUME TxIInv, NEW w \in Connections, NEW c, c = cmd[w], NEW a \in Accounts, NEW e,
         NEW next,
         \/ todo[w] = <<Balance(a)>> /\ next = <<>>
         \/ todo[w] = <<Balance(a), RecordEvent(e)>> /\ next = <<RecordEvent(e)>>,
         Statement(w), ~Finish(w)
  PROVE  LET s == [seen[w] EXCEPT !.available = available[a], !.reserved = reserved[a]]
         IN  /\ c.kind = "create" => Covers(a, c.n)
             /\ Locks(w, Balance(a), s, next)
<1> DEFINE x == Balance(a)
           s == [seen[w] EXCEPT !.available = available[a], !.reserved = reserved[a]]
<1>0. x[1] = "balance" /\ x[2] = a /\ x \in Rows /\ \A p \in Obligations : x # RecordEvent(p)
  BY RowsDiffer
<1>1. Head(todo[w]) = x /\ todo[w] # <<>> /\ Tail(todo[w]) = next
  <2>1. CASE todo[w] = <<x>> /\ next = <<>>
    BY <2>1
  <2>2. CASE todo[w] = <<x, RecordEvent(e)>> /\ next = <<RecordEvent(e)>>
    <3> DEFINE y == RecordEvent(e)
    <3> HIDE DEF x, y
    <3> QED BY <2>2 DEF y
  <2> QED BY <2>1, <2>2
<1> HIDE DEF x
<1>2. Read(seen[w], x) = s
  BY <1>0 DEF Read
<1>3. s.available = available[a] /\ s.reserved = reserved[a]
  <2>1. seen[w] \in Seen
    BY DEF TxIInv, TxTypeOK
  <2> QED BY <2>1 DEF Seen
<1> HIDE DEF s
<1>4. /\ GoesOn(c, x, s)
      /\ seen' = [seen EXCEPT ![w] = s]
      /\ todo' = [todo EXCEPT ![w] = next \o FollowedBy(c, x, s)]
      /\ rowLock' = [y \in Rows |-> IF y = x THEN w ELSE rowLock[y]]
      /\ keyShare' = [p \in Obligations |-> IF x = RecordEvent(p) THEN keyShare[p] \cup {w} ELSE keyShare[p]]
      /\ UNCHANGED <<cmd, vars>>
  BY <1>1, <1>2 DEF Statement
<1>5. rowLock[x] \in {None, w}
  BY <1>0, <1>1 DEF Statement, Blockers, Holders
<1>6. keyShare' = keyShare /\ rowLock' = [rowLock EXCEPT ![x] = w]
  BY <1>0, <1>4 DEF TxIInv, TxTypeOK
<1>7. c.kind = "create" => Covers(a, c.n)
  BY <1>0, <1>3, <1>4 DEF GoesOn, Covers
<1>8. next \o FollowedBy(c, x, s) = next
  <2>1. FollowedBy(c, x, s) = <<>>
    BY <1>0 DEF FollowedBy
  <2> QED BY <2>1
<1> QED BY <1>4, <1>5, <1>6, <1>7, <1>8 DEF Locks, s, x

\* Once a balance is locked the command has all it needs; what it read of the
\* other rows is as before.
LEMMA BalanceLocked ==
  ASSUME TxIInv, NEW w \in Connections, NEW a \in Accounts, NEW e,
         NEW next,
         \/ todo[w] = <<Balance(a)>> /\ next = <<>>
         \/ todo[w] = <<Balance(a), RecordEvent(e)>> /\ next = <<RecordEvent(e)>>,
         Statement(w), ~Finish(w)
  PROVE  /\ HasBalance(w, a)' /\ todo'[w] = next /\ UNCHANGED <<vars, keyShare>> /\ cmd'[w] = cmd[w]
         /\ \A o \in Obligations : HasObligation(w, o) => HasObligation(w, o)'
         /\ \A r \in Reservations : HasReservation(w, r) => HasReservation(w, r)'
         /\ (Progress(w)' => TxIInv')
<1> DEFINE x == Balance(a)
           s == [seen[w] EXCEPT !.available = available[a], !.reserved = reserved[a]]
<1>1. Locks(w, x, s, next)
  <2>1. \A c : c = cmd[w] => Locks(w, x, s, next)
    BY BalanceStatement
  <2> QED BY <2>1
<1>2. /\ x \in Rows /\ Head(todo[w]) = x /\ todo[w] # <<>>
      /\ \A o \in Obligations : x # Obligation(o) /\ Obligation(o) \in Rows
      /\ \A r \in Reservations : x # Reservation(r) /\ Reservation(r) \in Rows
  BY RowsDiffer
<1>3. /\ s \in Seen /\ s.available = available[a] /\ s.reserved = reserved[a]
      /\ s.obligationStatus = seen[w].obligationStatus /\ s.fulfilled = seen[w].fulfilled
      /\ s.reservationStatus = seen[w].reservationStatus /\ s.consumed = seen[w].consumed
  <2>1. seen[w] \in Seen
    BY DEF TxIInv, TxTypeOK
  <2>2. available[a] \in Nat /\ reserved[a] \in Nat
    BY DEF TxIInv, IInv, BalanceRows
  <2> QED BY <2>1, <2>2 DEF Seen
<1> HIDE DEF s
<1>6. /\ TxTypeOK'
      /\ cmd'[w] = cmd[w] /\ seen'[w] = s /\ todo'[w] = next
      /\ rowLock'[x] = w /\ \A y \in Rows : y # x => rowLock'[y] = rowLock[y]
      /\ \A v \in Connections : v # w =>
           /\ cmd'[v] = cmd[v] /\ todo'[v] = todo[v] /\ seen'[v] = seen[v]
           /\ \A y \in Rows : rowLock'[y] = v <=> rowLock[y] = v
           /\ \A p \in Obligations : v \in keyShare'[p] <=> v \in keyShare[p]
  BY <1>1, <1>2, <1>3, LocksAlone DEF TxIInv
<1>7. UNCHANGED vars /\ keyShare' = keyShare
  BY <1>1 DEF Locks
<1>8. HasBalance(w, a)'
  BY <1>3, <1>6, <1>7 DEF HasBalance, vars, balanceVars
<1>9. /\ \A o \in Obligations : HasObligation(w, o) => HasObligation(w, o)'
      /\ \A r \in Reservations : HasReservation(w, r) => HasReservation(w, r)'
  <2> HIDE DEF x
  <2>1. ASSUME NEW o \in Obligations, HasObligation(w, o) PROVE HasObligation(w, o)'
    BY <1>2, <1>3, <1>6, <1>7, <2>1 DEF HasObligation, vars, obligationVars
  <2>2. ASSUME NEW r \in Reservations, HasReservation(w, r) PROVE HasReservation(w, r)'
    BY <1>2, <1>3, <1>6, <1>7, <2>2 DEF HasReservation, vars, reservationVars
  <2> QED BY <2>1, <2>2
<1>10. InOrder(w)'
  <2>1. \A p \in Obligations : w \notin keyShare'[p]
    BY <1>2, <1>7 DEF TxIInv, InOrder
  <2>2. next # <<>> => Head(next) \notin Rows
    BY RowsDiffer
  <2> QED BY <1>6, <2>1, <2>2 DEF InOrder
<1>11. LockedRowsExist'
  <2> HIDE DEF x
  <2>1. \A q \in Reservations : rowLock'[Reservation(q)] # None => reservationStatus[q] # "absent"
    BY <1>2, <1>6 DEF TxIInv, LockedRowsExist
  <2>2. \A o \in Obligations : rowLock'[Obligation(o)] # None => obligationStatus[o] # "absent"
    BY <1>2, <1>6 DEF TxIInv, LockedRowsExist
  <2> QED BY <1>7, <2>1, <2>2 DEF LockedRowsExist, vars, obligationVars, reservationVars
<1>12. Progress(w)' => TxIInv'
  BY <1>6, <1>7, <1>10, <1>11, LocalKeeps
<1> QED BY <1>6, <1>7, <1>8, <1>9, <1>12

\* A locking read of a balance in each command that makes one.
LEMMA BalanceStatementKeeps ==
  ASSUME TxIInv, NEW w \in Connections, NEW c, c = cmd[w], Statement(w), ~Finish(w),
         \/ c.kind = "create" /\ todo[w] = <<Balance(c.a)>>
         \/ /\ c.kind \in {"consume", "end", "fulfilFrom"}
            /\ todo[w] = <<Balance(onAccount[c.r]), RecordEvent(forObligation[c.r])>>
  PROVE  TxIInv'
<1>1. CASE c.kind = "create" /\ todo[w] = <<Balance(c.a)>>
  <2>1. PICK a \in Accounts, o \in Obligations : a = c.a /\ o = c.o /\ c.r \in Reservations
    BY <1>1, CommandTypes DEF TxIInv
  <2>2. /\ HasBalance(w, a)' /\ todo'[w] = <<>> /\ UNCHANGED <<vars, keyShare>> /\ cmd'[w] = cmd[w]
        /\ \A p \in Obligations : HasObligation(w, p) => HasObligation(w, p)'
        /\ (Progress(w)' => TxIInv')
    BY <1>1, <2>1, BalanceLocked
  <2>3. Covers(a, c.n)
    BY <1>1, <2>1, BalanceStatement
  <2>4. HasObligation(w, o) /\ Open(o) /\ reservationStatus[c.r] = "absent"
    <3>1. Creating(w, c)
      BY <1>1 DEF TxIInv, Progress, Consuming, Ending, Cancelling, Fulfilling, FulfillingFrom, Resting, NoCommand
    <3>2. todo[w] # <<Obligation(c.o)>> /\ todo[w] # <<>>
      BY <1>1, <2>1, RowsDiffer
    <3> QED BY <2>1, <3>1, <3>2 DEF Creating
  <2>5. /\ HasObligation(w, o)' /\ Open(o)' /\ Covers(a, c.n)' /\ reservationStatus'[c.r] = "absent"
    BY <2>2, <2>3, <2>4 DEF Open, Covers, vars, obligationVars, reservationVars, balanceVars
  <2>6. Creating(w, c)'
    BY <1>1, <2>1, <2>2, <2>5 DEF Creating, HasObligation, HasBalance, Open, Covers
  <2> QED BY <2>2, <2>6 DEF Progress
<1>2. CASE /\ c.kind \in {"consume", "end", "fulfilFrom"}
           /\ todo[w] = <<Balance(onAccount[c.r]), RecordEvent(forObligation[c.r])>>
  <2>1. PICK r \in Reservations : r = c.r
    BY <1>2, CommandTypes DEF TxIInv
  <2>2. /\ todo[w] # <<Reservation(c.r)>> /\ todo[w] # <<Obligation(c.o)>> /\ todo[w] # <<>>
    BY <1>2
  <2>3. /\ HasReservation(w, r) /\ IsActive(r) /\ (c.kind # "end" => CanConsume(r, c.n))
        /\ c.kind = "fulfilFrom" => HasObligation(w, c.o) /\ CanFulfil(c.o, c.n)
    <3>1. Consuming(w, c) \/ Ending(w, c) \/ FulfillingFrom(w, c)
      BY <1>2 DEF TxIInv, Progress, Creating, Cancelling, Fulfilling, Resting, NoCommand
    <3> QED BY <2>1, <2>2, <3>1 DEF Consuming, Ending, FulfillingFrom, CanConsume
  <2>4. PICK a \in Accounts : a = onAccount[r]
    BY <2>3 DEF TxIInv, IInv, ReservationRows, IsActive
  <2>e. PICK e : e = forObligation[r]
    OBVIOUS
  <2>5. /\ HasBalance(w, a)' /\ todo'[w] = <<RecordEvent(e)>> /\ UNCHANGED <<vars, keyShare>> /\ cmd'[w] = cmd[w]
        /\ \A p \in Obligations : HasObligation(w, p) => HasObligation(w, p)'
        /\ \A q \in Reservations : HasReservation(w, q) => HasReservation(w, q)'
        /\ (Progress(w)' => TxIInv')
    <3>1. todo[w] = <<Balance(a), RecordEvent(e)>>
      BY <1>2, <2>1, <2>4, <2>e
    <3>2. PICK next : next = <<RecordEvent(e)>>
      OBVIOUS
    <3>3. todo[w] = <<Balance(a), RecordEvent(e)>> /\ next = <<RecordEvent(e)>>
      BY <3>1, <3>2
    <3> QED BY <3>2, <3>3, BalanceLocked
  <2>6. OnBalance(w, r)' /\ HasReservation(w, r)'
    BY <2>1, <2>3, <2>4, <2>e, <2>5 DEF OnBalance, HasBalance, vars, reservationVars
  <2>7. /\ IsActive(r)' /\ (c.kind # "end" => CanConsume(r, c.n)')
        /\ c.kind = "fulfilFrom" => HasObligation(w, c.o)' /\ CanFulfil(c.o, c.n)'
    <3>1. c.kind = "fulfilFrom" => c.o \in Obligations
      BY CommandTypes DEF TxIInv
    <3>2. c.kind = "fulfilFrom" => HasObligation(w, c.o)'
      <4>1. ASSUME NEW o \in Obligations, HasObligation(w, o) PROVE HasObligation(w, o)'
        BY <2>5, <4>1
      <4> QED BY <2>3, <2>5, <3>1, <4>1 DEF HasObligation
    <3> QED BY <2>3, <2>5, <3>2
            DEF IsActive, CanConsume, Releasable, CanFulfil, Remaining, vars, reservationVars, obligationVars
  <2>8. Consuming(w, c)' \/ Ending(w, c)' \/ FulfillingFrom(w, c)'
    BY <1>2, <2>1, <2>5, <2>6, <2>7 DEF Consuming, Ending, FulfillingFrom
  <2> QED BY <2>5, <2>8 DEF Progress, Consuming, Ending, FulfillingFrom
<1> QED BY <1>1, <1>2

\* A statement that locks no row for update: what it reads of the locked rows
\* is as before.
LEMMA RowlessStatement ==
  ASSUME TxIInv, NEW w \in Connections, NEW c, c = cmd[w], NEW x,
         \E o : x = CountActive(o) \/ x = RecordEvent(o),
         todo[w] = <<x>>, Statement(w), ~Finish(w)
  PROVE  /\ UNCHANGED <<vars, rowLock>> /\ cmd'[w] = c /\ todo'[w] = <<>>
         /\ seen'[w].obligationStatus = seen[w].obligationStatus /\ seen'[w].fulfilled = seen[w].fulfilled
         /\ seen'[w].reservationStatus = seen[w].reservationStatus /\ seen'[w].consumed = seen[w].consumed
         /\ seen'[w].available = seen[w].available /\ seen'[w].reserved = seen[w].reserved
         /\ \A o : x = CountActive(o) => Cardinality(ActiveFor(o)) = 0
         /\ (Progress(w)' => TxIInv')
<1>0. /\ x \notin Rows /\ x[1] \in {"count", "event"}
      /\ \A o : x = CountActive(o) => x[1] = "count" /\ x[2] = o
  BY RowsDiffer
<1>1. Head(todo[w]) = x /\ todo[w] # <<>> /\ Tail(todo[w]) = <<>>
  OBVIOUS
<1> DEFINE s == Read(seen[w], x)
<1>2. /\ GoesOn(c, x, s)
      /\ seen' = [seen EXCEPT ![w] = s]
      /\ todo' = [todo EXCEPT ![w] = <<>> \o FollowedBy(c, x, s)]
      /\ rowLock' = [y \in Rows |-> IF y = x THEN w ELSE rowLock[y]]
      /\ keyShare' = [o \in Obligations |-> IF x = RecordEvent(o) THEN keyShare[o] \cup {w} ELSE keyShare[o]]
      /\ UNCHANGED <<cmd, vars>>
  BY <1>1 DEF Statement
<1>3. /\ s.obligationStatus = seen[w].obligationStatus /\ s.fulfilled = seen[w].fulfilled
      /\ s.reservationStatus = seen[w].reservationStatus /\ s.consumed = seen[w].consumed
      /\ s.available = seen[w].available /\ s.reserved = seen[w].reserved
      /\ s \in Seen
      /\ x[1] = "count" => s.active = Cardinality(ActiveFor(x[2]))
  <2>1. seen[w] \in Seen
    BY DEF TxIInv, TxTypeOK
  <2>2. IsFiniteSet(ActiveFor(x[2])) /\ Cardinality(ActiveFor(x[2])) \in Nat
    BY ReservationsFinite, FS_Subset, FS_CardinalityType DEF ActiveFor
  <2>3. CASE x[1] = "count"
    BY <2>1, <2>2, <2>3 DEF Read, Seen
  <2>4. CASE x[1] = "event"
    BY <2>1, <2>4 DEF Read, Seen
  <2> QED BY <1>0, <2>3, <2>4
<1>4. <<>> \o FollowedBy(c, x, s) = <<>>
  BY <1>0 DEF FollowedBy
<1>5. rowLock' = rowLock
  BY <1>0, <1>2 DEF TxIInv, TxTypeOK
<1>6. \A o : x = CountActive(o) => Cardinality(ActiveFor(o)) = 0
  <2>1. x[1] = "count" => s.active = 0
    BY <1>2 DEF GoesOn
  <2> QED BY <1>0, <1>3, <2>1
<1> HIDE DEF s
<1>7. /\ TxTypeOK' /\ cmd'[w] = c /\ todo'[w] = <<>> /\ seen'[w] = s
      /\ \A v \in Connections : v # w =>
           /\ cmd'[v] = cmd[v] /\ todo'[v] = todo[v] /\ seen'[v] = seen[v]
           /\ \A y \in Rows : rowLock'[y] = v <=> rowLock[y] = v
           /\ \A p \in Obligations : v \in keyShare'[p] <=> v \in keyShare[p]
  BY <1>2, <1>3, <1>4, <1>5 DEF TxIInv, TxTypeOK
<1>8. InOrder(w)' /\ LockedRowsExist'
  BY <1>2, <1>5, <1>7 DEF TxIInv, InOrder, LockedRowsExist, vars, obligationVars, reservationVars
<1>9. Progress(w)' => TxIInv'
  BY <1>2, <1>7, <1>8, LocalKeeps
<1> QED BY <1>2, <1>3, <1>5, <1>6, <1>7, <1>9

\* The count of a cancel: it stays right while the obligation is locked.
LEMMA CountKeeps ==
  ASSUME TxIInv, NEW w \in Connections, NEW c, c = cmd[w], c.kind = "cancel",
         todo[w] = <<CountActive(c.o)>>, Statement(w), ~Finish(w)
  PROVE  TxIInv'
<1>1. c.o \in Obligations
  BY CommandTypes DEF TxIInv
<1>2. HasObligation(w, c.o) /\ Open(c.o)
  <2>1. Cancelling(w, c)
    BY DEF TxIInv, Progress, Creating, Consuming, Ending, Fulfilling, FulfillingFrom, Resting, NoCommand
  <2>2. todo[w] # <<Obligation(c.o)>>
    BY <1>1, RowsDiffer
  <2> QED BY <2>1, <2>2 DEF Cancelling
<1>3. PICK x : x = CountActive(c.o)
  OBVIOUS
<1>4. /\ UNCHANGED <<vars, rowLock>> /\ cmd'[w] = c /\ todo'[w] = <<>>
      /\ seen'[w].obligationStatus = seen[w].obligationStatus /\ seen'[w].fulfilled = seen[w].fulfilled
      /\ \A o : x = CountActive(o) => Cardinality(ActiveFor(o)) = 0
      /\ (Progress(w)' => TxIInv')
  BY <1>3, RowlessStatement
<1>5. ActiveFor(c.o) = {}
  <2>1. IsFiniteSet(ActiveFor(c.o))
    BY ReservationsFinite, FS_Subset DEF ActiveFor
  <2> QED BY <1>3, <1>4, <2>1, FS_EmptySet
<1>6. HasObligation(w, c.o)' /\ Open(c.o)' /\ ActiveFor(c.o)' = {}
  BY <1>2, <1>4, <1>5 DEF HasObligation, Open, ActiveFor, IsActive, vars, obligationVars, reservationVars
<1> QED BY <1>4, <1>6 DEF Progress, Cancelling

\* The insert into obligation_events, the last statement of a consume or a release.
LEMMA EventKeeps ==
  ASSUME TxIInv, NEW w \in Connections, NEW c, c = cmd[w], c.kind \in {"consume", "end", "fulfilFrom"},
         todo[w] = <<RecordEvent(forObligation[c.r])>>, Statement(w), ~Finish(w)
  PROVE  TxIInv'
<1>1. PICK r \in Reservations : r = c.r
  BY CommandTypes DEF TxIInv
<1>2. /\ todo[w] # <<Reservation(c.r)>> /\ todo[w] # <<Obligation(c.o)>> /\ todo[w] # <<>>
  BY DEF Reservation, Obligation, RecordEvent
<1>3. /\ HasReservation(w, r) /\ IsActive(r) /\ (c.kind # "end" => CanConsume(r, c.n)) /\ OnBalance(w, r)
      /\ c.kind = "fulfilFrom" => HasObligation(w, c.o) /\ CanFulfil(c.o, c.n)
  <2>1. Consuming(w, c) \/ Ending(w, c) \/ FulfillingFrom(w, c)
    BY DEF TxIInv, Progress, Creating, Cancelling, Fulfilling, Resting, NoCommand
  <2> QED BY <1>1, <1>2, <2>1 DEF Consuming, Ending, FulfillingFrom, CanConsume
<1>4. HasBalance(w, onAccount[r])
  <2>1. todo[w] # <<Balance(onAccount[r]), RecordEvent(forObligation[r])>>
    BY <1>1
  <2> QED BY <1>1, <1>2, <1>3, <2>1 DEF OnBalance
<1>5. PICK x : x = RecordEvent(forObligation[c.r])
  OBVIOUS
<1>6. /\ UNCHANGED <<vars, rowLock>> /\ cmd'[w] = c /\ todo'[w] = <<>>
      /\ seen'[w].obligationStatus = seen[w].obligationStatus /\ seen'[w].fulfilled = seen[w].fulfilled
      /\ seen'[w].reservationStatus = seen[w].reservationStatus /\ seen'[w].consumed = seen[w].consumed
      /\ seen'[w].available = seen[w].available /\ seen'[w].reserved = seen[w].reserved
      /\ (Progress(w)' => TxIInv')
  <2>1. todo[w] = <<x>> /\ \E o : x = CountActive(o) \/ x = RecordEvent(o)
    BY <1>5
  <2> QED BY <2>1, RowlessStatement
<1>7. HasBalance(w, onAccount[r])' /\ HasReservation(w, r)'
  BY <1>3, <1>4, <1>6 DEF HasBalance, HasReservation, vars, balanceVars, reservationVars
<1>8. OnBalance(w, r)'
  BY <1>6, <1>7 DEF OnBalance
<1>9. /\ IsActive(r)' /\ (c.kind # "end" => CanConsume(r, c.n)')
      /\ c.kind = "fulfilFrom" => HasObligation(w, c.o)' /\ CanFulfil(c.o, c.n)'
  BY <1>3, <1>6 DEF IsActive, CanConsume, Releasable, HasObligation, CanFulfil, Remaining,
                    vars, reservationVars, obligationVars
<1>10. Consuming(w, c)' \/ Ending(w, c)' \/ FulfillingFrom(w, c)'
  BY <1>1, <1>6, <1>7, <1>8, <1>9 DEF Consuming, Ending, FulfillingFrom
<1> QED BY <1>6, <1>10 DEF Progress, Consuming, Ending, FulfillingFrom

\* Whatever statement a command runs next, or ends at.
LEMMA StatementKeeps ==
  ASSUME TxIInv, NEW w \in Connections, Statement(w)
  PROVE  TxIInv'
<1> DEFINE c == cmd[w]
<1>1. CASE Finish(w)
  BY <1>1, FinishKeeps DEF Statement
<1>2. CASE ~Finish(w)
  <2>1. todo[w] # <<>>
    BY DEF Statement
  <2>2. \/ /\ c.kind \in {"create", "cancel", "fulfil", "fulfilFrom"} /\ todo[w] = <<Obligation(c.o)>>
        \/ /\ c.kind \in {"consume", "end", "fulfilFrom"} /\ todo[w] = <<Reservation(c.r)>>
        \/ c.kind = "create" /\ todo[w] = <<Balance(c.a)>>
        \/ /\ c.kind \in {"consume", "end", "fulfilFrom"}
           /\ todo[w] = <<Balance(onAccount[c.r]), RecordEvent(forObligation[c.r])>>
        \/ c.kind = "cancel" /\ todo[w] = <<CountActive(c.o)>>
        \/ /\ c.kind \in {"consume", "end", "fulfilFrom"}
           /\ todo[w] = <<RecordEvent(forObligation[c.r])>>
    BY <2>1 DEF TxIInv, Progress, Resting, Creating, Consuming, Ending, Cancelling, Fulfilling,
                FulfillingFrom, OnBalance
  <2> QED BY <1>2, <2>2, ObligationStatementKeeps, ReservationStatementKeeps, BalanceStatementKeeps,
             CountKeeps, EventKeeps
<1> QED BY <1>1, <1>2

-----------------------------------------------------------------------------
(* Commits *)

\* A command that commits writes what the command running alone would have.
LEMMA CommitIsCommand ==
  ASSUME TxIInv, NEW w \in Connections, Commit(w)
  PROVE  Next
<1> DEFINE c == cmd[w]
           s == seen[w]
<1>0. todo[w] = <<>> /\ c # NoCommand
  BY DEF Commit
<1>1. \A x : <<x>> # <<>> /\ \A y : <<x, y>> # <<>>
  OBVIOUS
<1>2. CASE c.kind = "create"
  <2>1. c.r \in Reservations /\ c.o \in Obligations /\ c.a \in Accounts /\ c.n \in Amounts
    BY <1>2, CommandTypes DEF TxIInv
  <2>2. /\ reservationStatus[c.r] = "absent" /\ HasObligation(w, c.o) /\ Open(c.o)
        /\ HasBalance(w, c.a) /\ Covers(c.a, c.n)
    BY <1>0, <1>1, <1>2 DEF TxIInv, Progress, Resting, Creating, Consuming, Ending, Cancelling, Fulfilling,
                           FulfillingFrom
  <2>3. WriteCreate(c, s)
    BY <1>2 DEF Commit
  <2>4. CreateReservation(c.r, c.o, c.a, c.n)
    BY <2>1, <2>2, <2>3 DEF CreateReservation, WriteCreate, HasObligation, HasBalance, Open, TxIInv, IInv,
                            ReservationRows, BalanceRows, ObligationRows
  <2> QED BY <2>1, <2>4 DEF Next, OtherCommand
<1>3. ASSUME NEW r \in Reservations, NEW n \in Amounts, WriteConsume(c, s), r = c.r, n = c.n,
             HasReservation(w, r), CanConsume(r, n), HasBalance(w, onAccount[r])
      PROVE  ConsumeRows(r, n)
  <2>1. onAccount[r] \in Accounts /\ available \in [Accounts -> Nat] /\ consumed[r] \in Nat
    BY <1>3, MaxUnitsNat DEF CanConsume, IsActive, TxIInv, IInv, ReservationRows, BalanceRows, Units
  <2>2. s.available = available[onAccount[r]] /\ s.reserved = reserved[onAccount[r]] /\ s.consumed = consumed[r]
    BY <1>3 DEF HasBalance, HasReservation
  <2>3. available' = available
    BY <1>3, <2>1, <2>2 DEF WriteConsume
  <2> QED BY <1>3, <2>2, <2>3 DEF WriteConsume, ConsumeRows, CanConsume
<1>4. CASE c.kind = "consume"
  <2>1. PICK r \in Reservations, n \in Amounts : r = c.r /\ n = c.n
    BY <1>4, CommandTypes DEF TxIInv
  <2>2. HasReservation(w, r) /\ CanConsume(r, n) /\ OnBalance(w, r)
    BY <1>0, <1>1, <1>4, <2>1 DEF TxIInv, Progress, Resting, Creating, Consuming, Ending, Cancelling,
                                  Fulfilling, FulfillingFrom
  <2>3. WriteConsume(c, s) /\ UNCHANGED obligationVars
    BY <1>4 DEF Commit
  <2>4. HasBalance(w, onAccount[r])
    BY <1>0, <1>1, <2>2 DEF OnBalance
  <2>5. ConsumeReservation(r, n)
    BY <1>3, <2>1, <2>2, <2>3, <2>4 DEF ConsumeReservation
  <2> QED BY <2>5 DEF Next, OtherCommand
<1>5. CASE c.kind = "end"
  <2>1. PICK r \in Reservations : r = c.r /\ c.next \in {"released", "expired", "cancelled"}
    BY <1>5, CommandTypes, EndStatusKnown DEF TxIInv
  <2>2. HasReservation(w, r) /\ IsActive(r) /\ OnBalance(w, r)
    BY <1>0, <1>1, <1>5, <2>1 DEF TxIInv, Progress, Resting, Creating, Consuming, Ending, Cancelling,
                                  Fulfilling, FulfillingFrom
  <2>3. WriteEnd(c, s)
    BY <1>5 DEF Commit
  <2>4. HasBalance(w, onAccount[r])
    BY <1>0, <1>1, <2>2 DEF OnBalance
  <2>5. s.available = available[onAccount[r]] /\ s.reserved = reserved[onAccount[r]] /\ s.consumed = consumed[r]
    BY <2>2, <2>4 DEF HasBalance, HasReservation
  <2>6. amount[r] - s.consumed = Releasable(r)
    BY <2>2, <2>5, MaxUnitsNat DEF IsActive, TxIInv, IInv, ReservationRows, Releasable, Units
  <2>7. EndReservation(r, c.next)
    BY <2>1, <2>2, <2>3, <2>5, <2>6 DEF WriteEnd, EndReservation
  <2> QED BY <2>1, <2>7 DEF Next, OtherCommand
<1>6. CASE c.kind = "cancel"
  <2>1. PICK o \in Obligations : o = c.o
    BY <1>6, CommandTypes DEF TxIInv
  <2>2. Open(o) /\ ActiveFor(o) = {}
    BY <1>0, <1>1, <1>6, <2>1 DEF TxIInv, Progress, Resting, Creating, Consuming, Ending, Cancelling,
                                  Fulfilling, FulfillingFrom
  <2>3. WriteCancel(c)
    BY <1>6 DEF Commit
  <2>4. CancelObligation(o)
    BY <2>1, <2>2, <2>3 DEF WriteCancel, CancelObligation, Open
  <2> QED BY <2>4 DEF Next, OtherCommand
<1>7. ASSUME NEW o \in Obligations, NEW n \in Amounts, WriteFulfil(c, s), o = c.o, n = c.n,
             HasObligation(w, o), CanFulfil(o, n)
      PROVE  FulfilRows(o, n)
  BY <1>7 DEF WriteFulfil, FulfilRows, HasObligation, CanFulfil
<1>8. CASE c.kind = "fulfil"
  <2>1. PICK o \in Obligations, n \in Amounts : o = c.o /\ n = c.n
    BY <1>8, CommandTypes DEF TxIInv
  <2>2. HasObligation(w, o) /\ CanFulfil(o, n)
    BY <1>0, <1>1, <1>8, <2>1 DEF TxIInv, Progress, Resting, Creating, Consuming, Ending, Cancelling,
                                  Fulfilling, FulfillingFrom
  <2>3. WriteFulfil(c, s) /\ UNCHANGED <<reservationVars, balanceVars>>
    BY <1>8 DEF Commit
  <2>4. FulfilObligation(o, n)
    BY <1>7, <2>1, <2>2, <2>3 DEF FulfilObligation
  <2> QED BY <2>4 DEF Next, OtherCommand
<1>9. CASE c.kind = "fulfilFrom"
  <2>1. PICK o \in Obligations, r \in Reservations, n \in Amounts : o = c.o /\ r = c.r /\ n = c.n
    BY <1>9, CommandTypes DEF TxIInv
  <2>2. /\ HasObligation(w, o) /\ CanFulfil(o, n) /\ HasReservation(w, r)
        /\ \/ CanConsume(r, n) /\ OnBalance(w, r)
           \/ reservationStatus[r] = "consumed"
    BY <1>0, <1>1, <1>9, <2>1 DEF TxIInv, Progress, Resting, Creating, Consuming, Ending, Cancelling,
                                  Fulfilling, FulfillingFrom
  <2>3. /\ WriteFulfil(c, s)
        /\ IF s.reservationStatus = "active" THEN WriteConsume(c, s)
                                             ELSE UNCHANGED <<reservationVars, balanceVars>>
    BY <1>9 DEF Commit
  <2>4. FulfilRows(o, n)
    BY <1>7, <2>1, <2>2, <2>3
  <2>5. s.reservationStatus = reservationStatus[r]
    BY <2>2 DEF HasReservation
  <2>6. CASE reservationStatus[r] = "consumed"
    BY <2>3, <2>4, <2>5, <2>6 DEF Next, FulfilFrom
  <2>7. CASE CanConsume(r, n) /\ OnBalance(w, r)
    <3>1. WriteConsume(c, s)
      BY <2>3, <2>5, <2>7 DEF CanConsume, IsActive
    <3>2. HasBalance(w, onAccount[r])
      BY <1>0, <1>1, <2>7 DEF OnBalance
    <3>3. ConsumeRows(r, n)
      BY <1>3, <2>1, <2>2, <2>7, <3>1, <3>2
    <3> QED BY <2>4, <3>3 DEF Next, FulfilFrom
  <2> QED BY <2>2, <2>6, <2>7
<1> QED BY <1>2, <1>4, <1>5, <1>6, <1>8, <1>9 DEF Commit

\* A commit writes only rows its connection has locked, and the one it inserts.
LEMMA WritesAreLocked ==
  ASSUME TxIInv, NEW w \in Connections, NEW c, c = cmd[w], Commit(w)
  PROVE  /\ \A o \in Obligations : rowLock[Obligation(o)] # w =>
              /\ obligationStatus'[o] = obligationStatus[o]
              /\ principal'[o] = principal[o] /\ fulfilled'[o] = fulfilled[o]
              /\ ActiveFor(o)' \subseteq ActiveFor(o)
         /\ \A r \in Reservations :
              (rowLock[Reservation(r)] # w \/ reservationStatus[r] = "absent") /\ ~(c.kind = "create" /\ r = c.r) =>
                /\ reservationStatus'[r] = reservationStatus[r]
                /\ forObligation'[r] = forObligation[r] /\ onAccount'[r] = onAccount[r]
                /\ amount'[r] = amount[r] /\ consumed'[r] = consumed[r]
         /\ \A a \in Accounts : rowLock[Balance(a)] # w =>
              available'[a] = available[a] /\ reserved'[a] = reserved[a]
         /\ c.kind = "create" => reservationStatus[c.r] = "absent"
<1> DEFINE s == seen[w]
<1> USE DEF obligationVars, reservationVars, balanceVars
<1>0. todo[w] = <<>> /\ c # NoCommand
  BY DEF Commit
<1>1. \A x : <<x>> # <<>> /\ \A y : <<x, y>> # <<>>
  OBVIOUS
<1>2. /\ obligationStatus \in [Obligations -> ObligationStatus]
      /\ principal \in [Obligations -> Units] /\ fulfilled \in [Obligations -> Units]
      /\ ReservationRows
      /\ available \in [Accounts -> Nat] /\ reserved \in [Accounts -> Nat]
  BY DEF TxIInv, IInv, ObligationRows, BalanceRows
<1>3. CASE c.kind = "create"
  <2>1. c.r \in Reservations /\ c.o \in Obligations /\ c.a \in Accounts
    BY <1>3, CommandTypes DEF TxIInv
  <2>2. reservationStatus[c.r] = "absent" /\ HasObligation(w, c.o) /\ HasBalance(w, c.a)
    BY <1>0, <1>1, <1>3 DEF TxIInv, Progress, Resting, Creating, Consuming, Ending, Cancelling, Fulfilling,
                           FulfillingFrom
  <2>3. WriteCreate(c, s)
    BY <1>3 DEF Commit
  <2>4. \A r \in Reservations : r # c.r =>
          /\ reservationStatus'[r] = reservationStatus[r]
          /\ forObligation'[r] = forObligation[r] /\ onAccount'[r] = onAccount[r]
          /\ amount'[r] = amount[r] /\ consumed'[r] = consumed[r]
    BY <1>2, <2>3 DEF WriteCreate, ReservationRows
  <2>5. \A a \in Accounts : a # c.a => available'[a] = available[a] /\ reserved'[a] = reserved[a]
    BY <1>2, <2>3 DEF WriteCreate
  <2>6. forObligation'[c.r] = c.o
    BY <1>2, <2>1, <2>3 DEF WriteCreate, ReservationRows
  <2>7. ASSUME NEW o \in Obligations, o # c.o
        PROVE  /\ obligationStatus'[o] = obligationStatus[o]
               /\ principal'[o] = principal[o] /\ fulfilled'[o] = fulfilled[o]
               /\ ActiveFor(o)' \subseteq ActiveFor(o)
    <3>1. /\ obligationStatus'[o] = obligationStatus[o]
          /\ principal'[o] = principal[o] /\ fulfilled'[o] = fulfilled[o]
      BY <1>2, <2>3, <2>7 DEF WriteCreate
    <3>2. ActiveFor(o)' \subseteq ActiveFor(o)
      BY <2>4, <2>6, <2>7 DEF ActiveFor, IsActive
    <3> QED BY <3>1, <3>2
  <2> QED BY <2>2, <2>4, <2>5, <2>7, <1>3 DEF HasObligation, HasBalance
<1>4. ASSUME NEW r \in Reservations, r = c.r, HasReservation(w, r), IsActive(r), HasBalance(w, onAccount[r]),
             WriteConsume(c, s) \/ (WriteEnd(c, s) /\ c.kind = "end")
      PROVE  /\ \A q \in Reservations : q # r =>
                  reservationStatus'[q] = reservationStatus[q] /\ consumed'[q] = consumed[q]
             /\ UNCHANGED <<forObligation, onAccount, amount>>
             /\ \A a \in Accounts : a # onAccount[r] =>
                  available'[a] = available[a] /\ reserved'[a] = reserved[a]
             /\ \A o \in Obligations : ActiveFor(o)' \subseteq ActiveFor(o)
  <2>1. /\ \A q \in Reservations : q # r =>
              reservationStatus'[q] = reservationStatus[q] /\ consumed'[q] = consumed[q]
        /\ UNCHANGED <<forObligation, onAccount, amount>>
    BY <1>2, <1>4 DEF WriteConsume, WriteEnd, ReservationRows
  <2>2. \A a \in Accounts : a # onAccount[r] => available'[a] = available[a] /\ reserved'[a] = reserved[a]
    BY <1>2, <1>4 DEF WriteConsume, WriteEnd
  <2>3. \A o \in Obligations : ActiveFor(o)' \subseteq ActiveFor(o)
    BY <1>4, <2>1 DEF ActiveFor, IsActive
  <2> QED BY <2>1, <2>2, <2>3
<1>5. CASE c.kind \in {"consume", "end"}
  <2>1. PICK r \in Reservations : r = c.r
    BY <1>5, CommandTypes DEF TxIInv
  <2>2. HasReservation(w, r) /\ IsActive(r) /\ HasBalance(w, onAccount[r])
    BY <1>0, <1>1, <1>5, <2>1 DEF TxIInv, Progress, Resting, Creating, Consuming, Ending, Cancelling,
                                  Fulfilling, FulfillingFrom, OnBalance, CanConsume
  <2>3. /\ WriteConsume(c, s) \/ (WriteEnd(c, s) /\ c.kind = "end")
        /\ UNCHANGED <<obligationStatus, principal, fulfilled>>
    BY <1>5 DEF Commit, WriteEnd
  <2>4. rowLock[Reservation(r)] = w /\ rowLock[Balance(onAccount[r])] = w /\ reservationStatus[r] # "absent"
    BY <2>2 DEF HasReservation, HasBalance, IsActive
  <2> QED BY <1>4, <1>5, <2>1, <2>2, <2>3, <2>4
<1>6. CASE c.kind = "cancel"
  <2>1. c.o \in Obligations
    BY <1>6, CommandTypes DEF TxIInv
  <2>2. HasObligation(w, c.o)
    BY <1>0, <1>1, <1>6, <2>1 DEF TxIInv, Progress, Resting, Creating, Consuming, Ending, Cancelling,
                                  Fulfilling, FulfillingFrom
  <2>3. WriteCancel(c)
    BY <1>6 DEF Commit
  <2> QED BY <1>2, <1>6, <2>1, <2>2, <2>3 DEF WriteCancel, HasObligation, ActiveFor, IsActive
<1>7. CASE c.kind \in {"fulfil", "fulfilFrom"}
  <2>1. c.o \in Obligations
    BY <1>7, CommandTypes DEF TxIInv
  <2>2. HasObligation(w, c.o)
    BY <1>0, <1>1, <1>7, <2>1 DEF TxIInv, Progress, Resting, Creating, Consuming, Ending, Cancelling,
                                  Fulfilling, FulfillingFrom
  <2>3. WriteFulfil(c, s)
    BY <1>7 DEF Commit
  <2>4. \A o \in Obligations : o # c.o =>
          /\ obligationStatus'[o] = obligationStatus[o]
          /\ principal'[o] = principal[o] /\ fulfilled'[o] = fulfilled[o]
    BY <1>2, <2>3 DEF WriteFulfil
  <2>5. CASE UNCHANGED <<reservationVars, balanceVars>>
    BY <1>7, <2>2, <2>4, <2>5 DEF HasObligation, ActiveFor, IsActive
  <2>6. CASE c.kind = "fulfilFrom" /\ s.reservationStatus = "active"
    <3>1. PICK r \in Reservations : r = c.r
      BY <2>6, CommandTypes DEF TxIInv
    <3>2. /\ HasReservation(w, r)
          /\ \/ IsActive(r) /\ HasBalance(w, onAccount[r])
             \/ reservationStatus[r] = "consumed"
      BY <1>0, <1>1, <2>6, <3>1 DEF TxIInv, Progress, Resting, Creating, Consuming, Ending, Cancelling,
                                    Fulfilling, FulfillingFrom, OnBalance, CanConsume
    <3>3. IsActive(r) /\ HasBalance(w, onAccount[r])
      BY <2>6, <3>2 DEF HasReservation
    <3>4. WriteConsume(c, s)
      BY <2>6 DEF Commit
    <3>5. rowLock[Reservation(r)] = w /\ rowLock[Balance(onAccount[r])] = w /\ reservationStatus[r] # "absent"
      BY <3>2, <3>3 DEF HasReservation, HasBalance, IsActive
    <3> QED BY <1>4, <1>7, <2>2, <2>4, <3>1, <3>2, <3>3, <3>4, <3>5 DEF HasObligation
  <2> QED BY <1>7, <2>5, <2>6 DEF Commit
<1> QED BY <1>3, <1>5, <1>6, <1>7 DEF Commit

LEMMA CommitKeeps ==
  ASSUME TxIInv, NEW w \in Connections, Commit(w)
  PROVE  TxIInv'
<1> DEFINE c == cmd[w]
<1>1. IInv'
  BY CommitIsCommand, NextKeeps DEF TxIInv
<1>2. Finished(w)
  BY FinishEnds DEF Commit, TxIInv
<1>3. /\ \A o \in Obligations : rowLock[Obligation(o)] # w =>
           /\ obligationStatus'[o] = obligationStatus[o]
           /\ principal'[o] = principal[o] /\ fulfilled'[o] = fulfilled[o]
           /\ ActiveFor(o)' \subseteq ActiveFor(o)
      /\ \A r \in Reservations :
           (rowLock[Reservation(r)] # w \/ reservationStatus[r] = "absent") /\ ~(c.kind = "create" /\ r = c.r) =>
             /\ reservationStatus'[r] = reservationStatus[r]
             /\ forObligation'[r] = forObligation[r] /\ onAccount'[r] = onAccount[r]
             /\ amount'[r] = amount[r] /\ consumed'[r] = consumed[r]
      /\ \A a \in Accounts : rowLock[Balance(a)] # w =>
           available'[a] = available[a] /\ reserved'[a] = reserved[a]
      /\ c.kind = "create" => reservationStatus[c.r] = "absent"
  BY WritesAreLocked
<1>4. \A r \in Reservations : rowLock[Reservation(r)] \notin {None, w} => ~(c.kind = "create" /\ r = c.r)
  BY <1>3 DEF TxIInv, LockedRowsExist
<1>5. ASSUME NEW v \in Connections, v # w PROVE Progress(v)' /\ InOrder(v)'
  <2>1. /\ cmd'[v] = cmd[v] /\ todo'[v] = todo[v] /\ seen'[v] = seen[v]
        /\ \A x \in Rows : rowLock'[x] = v <=> rowLock[x] = v
        /\ \A o \in Obligations : v \in keyShare'[o] <=> v \in keyShare[o]
    BY <1>2, <1>5 DEF Finished
  <2>2. cmd[v].kind = "create" => reservationStatus'[cmd[v].r] = reservationStatus[cmd[v].r]
    <3> SUFFICES ASSUME cmd[v].kind = "create"
                 PROVE  reservationStatus'[cmd[v].r] = reservationStatus[cmd[v].r]
      OBVIOUS
    <3>1. cmd[v].r \in Reservations
      BY CommandTypes DEF TxIInv
    <3>2. reservationStatus[cmd[v].r] = "absent"
      BY DEF TxIInv, Progress, Resting, Creating, Consuming, Ending, Cancelling, Fulfilling, FulfillingFrom,
             NoCommand
    <3>3. ~(c.kind = "create" /\ cmd[v].r = c.r)
      BY <1>5 DEF TxIInv, CreatesDiffer
    <3> QED BY <1>3, <3>1, <3>2, <3>3
  <2>3. \A r \in Reservations : rowLock[Reservation(r)] = v =>
          /\ reservationStatus'[r] = reservationStatus[r]
          /\ forObligation'[r] = forObligation[r] /\ onAccount'[r] = onAccount[r]
          /\ amount'[r] = amount[r] /\ consumed'[r] = consumed[r]
    BY <1>3, <1>4, <1>5, NoneIsNoConnection
  <2>4. Undisturbed(v)
    BY <1>3, <1>5, <2>1, <2>2, <2>3 DEF Undisturbed
  <2> QED BY <2>4, ProgressKept DEF TxIInv
<1>6. LockedRowsExist'
  <2>1. ASSUME NEW o \in Obligations, rowLock'[Obligation(o)] # None PROVE obligationStatus'[o] # "absent"
    BY <1>2, <1>3, <2>1, RowsDiffer DEF Finished, TxIInv, LockedRowsExist
  <2>2. ASSUME NEW r \in Reservations, rowLock'[Reservation(r)] # None PROVE reservationStatus'[r] # "absent"
    <3>1. rowLock[Reservation(r)] \notin {None, w}
      BY <1>2, <2>2, RowsDiffer DEF Finished
    <3> QED BY <1>3, <1>4, <3>1 DEF TxIInv, LockedRowsExist
  <2> QED BY <2>1, <2>2 DEF LockedRowsExist
<1>7. CreatesDiffer'
  BY <1>2 DEF Finished, TxIInv, TxTypeOK, CreatesDiffer, NoCommand
<1> QED BY <1>1, <1>2, <1>5, <1>6, <1>7 DEF TxIInv, Finished, Progress

-----------------------------------------------------------------------------
(* Transactions of one statement *)

\* They touch no row that is locked.
LEMMA SingleStatementKeeps ==
  ASSUME TxIInv, UNCHANGED txVars,
         \/ \E o \in Obligations, p \in Amounts, s \in {"draft", "reserved"} : CreateObligation(o, p, s)
         \/ \E a \in Accounts, n \in Amounts : rowLock[Balance(a)] = None /\ CreditAvailable(a, n)
  PROVE  TxIInv'
<1>1. IInv'
  BY NextKeeps DEF TxIInv, Next, OtherCommand
<1>2. /\ \A o \in Obligations : rowLock[Obligation(o)] # None =>
           /\ obligationStatus'[o] = obligationStatus[o]
           /\ principal'[o] = principal[o] /\ fulfilled'[o] = fulfilled[o]
      /\ \A a \in Accounts : rowLock[Balance(a)] # None =>
           available'[a] = available[a] /\ reserved'[a] = reserved[a]
      /\ UNCHANGED reservationVars
  <2>1. CASE \E o \in Obligations, p \in Amounts, s \in {"draft", "reserved"} : CreateObligation(o, p, s)
    BY <2>1 DEF CreateObligation, TxIInv, LockedRowsExist, IInv, ObligationRows, balanceVars
  <2>2. CASE \E a \in Accounts, n \in Amounts : rowLock[Balance(a)] = None /\ CreditAvailable(a, n)
    BY <2>2 DEF CreditAvailable, TxIInv, IInv, BalanceRows, obligationVars
  <2> QED BY <2>1, <2>2
<1>3. ASSUME NEW v \in Connections PROVE Progress(v)' /\ InOrder(v)'
  <2>1. v # None
    BY NoneIsNoConnection
  <2>2. Undisturbed(v)
    BY <1>2, <2>1 DEF Undisturbed, txVars, reservationVars, ActiveFor, IsActive
  <2> QED BY <2>2, ProgressKept DEF TxIInv
<1>4. TxTypeOK' /\ CreatesDiffer' /\ LockedRowsExist'
  BY <1>2 DEF TxIInv, TxTypeOK, CreatesDiffer, LockedRowsExist, txVars, reservationVars
<1> QED BY <1>1, <1>3, <1>4 DEF TxIInv

-----------------------------------------------------------------------------
(* The invariant *)

LEMMA TxInitEstablishes == TxInit => TxIInv
<1> SUFFICES ASSUME TxInit PROVE TxIInv
  OBVIOUS
<1>1. IInv
  BY InitEstablishes DEF TxInit
<1>2. TxTypeOK
  <2>1. NothingSeen \in Seen
    BY DEF NothingSeen, Seen, ObligationStatus, ReservationStatus
  <2> QED BY <2>1 DEF TxInit, TxTypeOK
<1>3. ASSUME NEW w \in Connections PROVE Progress(w) /\ InOrder(w)
  <2>1. Resting(w)
    BY NoneIsNoConnection DEF TxInit, Resting
  <2> QED BY <2>1 DEF Progress, Resting, InOrder
<1>4. LockedRowsExist
  BY RowsDiffer DEF TxInit, LockedRowsExist
<1>5. CreatesDiffer
  BY DEF TxInit, CreatesDiffer, NoCommand
<1> QED BY <1>1, <1>2, <1>3, <1>4, <1>5 DEF TxIInv

LEMMA TxNextKeeps == TxIInv /\ [TxNext]_allVars => TxIInv' /\ [Next]_vars
<1> SUFFICES ASSUME TxIInv, [TxNext]_allVars PROVE TxIInv' /\ [Next]_vars
  OBVIOUS
<1>1. CASE UNCHANGED allVars
  <2>1. IInv'
    BY <1>1, StutterKeeps DEF allVars, TxIInv
  <2>2. ASSUME NEW v \in Connections PROVE Progress(v)' /\ InOrder(v)'
    <3>1. Undisturbed(v)
      BY <1>1 DEF Undisturbed, allVars, txVars, vars, obligationVars, reservationVars, balanceVars, ActiveFor, IsActive
    <3> QED BY <3>1, ProgressKept DEF TxIInv
  <2>3. TxTypeOK' /\ CreatesDiffer' /\ LockedRowsExist'
    BY <1>1 DEF TxIInv, TxTypeOK, CreatesDiffer, LockedRowsExist, allVars, txVars, vars, obligationVars, reservationVars
  <2> QED BY <1>1, <2>1, <2>2, <2>3 DEF TxIInv, allVars
<1>2. ASSUME NEW o \in Obligations, NEW p \in Amounts, NEW s \in {"draft", "reserved"},
             InsertObligation(o, p, s)
      PROVE  TxIInv' /\ [Next]_vars
  BY <1>2, SingleStatementKeeps DEF InsertObligation, Next, OtherCommand
<1>3. ASSUME NEW a \in Accounts, NEW n \in Amounts, PostFunds(a, n)
      PROVE  TxIInv' /\ [Next]_vars
  BY <1>3, SingleStatementKeeps DEF PostFunds, Next, OtherCommand
<1>4. ASSUME NEW w \in Connections, NEW c \in Commands, Begin(w, c)
      PROVE  TxIInv' /\ [Next]_vars
  BY <1>4, BeginKeeps DEF Begin
<1>5. ASSUME NEW w \in Connections, Statement(w)
      PROVE  TxIInv' /\ [Next]_vars
  BY <1>5, StatementKeeps DEF Statement
<1>6. ASSUME NEW w \in Connections, Commit(w)
      PROVE  TxIInv' /\ [Next]_vars
  BY <1>6, CommitKeeps, CommitIsCommand
<1>7. ASSUME NEW w \in Connections, Rollback(w) \/ AbortVictim(w)
      PROVE  TxIInv' /\ [Next]_vars
  BY <1>7, FinishKeeps DEF Rollback, AbortVictim
<1> QED BY <1>1, <1>2, <1>3, <1>4, <1>5, <1>6, <1>7 DEF TxNext

\* The invariant of the transactions.
THEOREM TxInvariant == TxSpec => []TxIInv
<1>1. TxInit => TxIInv
  BY TxInitEstablishes
<1>2. TxIInv /\ [TxNext]_allVars => TxIInv'
  BY TxNextKeeps
<1> QED BY <1>1, <1>2, PTL DEF TxSpec

-----------------------------------------------------------------------------
(* Theorems *)

\* Run statement by statement on any number of connections, with rollbacks and
\* aborts at any point, the reservation and obligation commands do to the tables
\* what the same commands do one at a time.
THEOREM CommandsAreAtomicAlways == TxSpec => CommandsAreAtomic
<1>1. TxInit => Init
  BY DEF TxInit
<1>2. TxIInv /\ [TxNext]_allVars => [Next]_vars
  BY TxNextKeeps
<1> QED BY <1>1, <1>2, TxInvariant, PTL DEF TxSpec, CommandsAreAtomic, Spec

\* A connection that waits for another one's lock, and not to record an event,
\* is behind it in the order: the other one waits for nothing or for a later row.
LEMMA WaitsGoForward ==
  ASSUME TxIInv, NEW v \in Connections, NEW u \in Blockers(v), Head(todo[v])[1] # "event",
         Blockers(u) # {}, Head(todo[u])[1] # "event"
  PROVE  /\ u \in Connections
         /\ Rank(Head(todo[v])) \in {1, 2, 3} /\ Rank(Head(todo[u])) \in {1, 2, 3}
         /\ Rank(Head(todo[v])) < Rank(Head(todo[u]))
<1> DEFINE x == Head(todo[v])
           y == Head(todo[u])
<1>0. \A z : Rank(z) \in {1, 2, 3}
  BY DEF Rank
<1>1. ASSUME NEW w \in Connections, Blockers(w) # {}, Head(todo[w])[1] # "event"
      PROVE  todo[w] # <<>> /\ Head(todo[w]) \in Rows
  <2> DEFINE c == cmd[w]
  <2>1. todo[w] # <<>>
    BY <1>1 DEF Blockers
  <2>2. Head(todo[w])[1] # "count"
    BY <1>1, <2>1 DEF Blockers
  <2>3. \/ /\ c.kind \in {"create", "cancel", "fulfil", "fulfilFrom"} /\ todo[w] = <<Obligation(c.o)>>
        \/ /\ c.kind \in {"consume", "end", "fulfilFrom"} /\ todo[w] = <<Reservation(c.r)>>
        \/ c.kind = "create" /\ todo[w] = <<Balance(c.a)>>
        \/ /\ c.kind \in {"consume", "end", "fulfilFrom"} /\ IsActive(c.r)
           /\ todo[w] = <<Balance(onAccount[c.r]), RecordEvent(forObligation[c.r])>>
        \/ \E o : todo[w] = <<CountActive(o)>> \/ todo[w] = <<RecordEvent(o)>>
    BY <2>1 DEF TxIInv, Progress, Resting, Creating, Consuming, Ending, Cancelling, Fulfilling,
                FulfillingFrom, OnBalance, CanConsume
  <2>4. c.kind \in {"consume", "end", "fulfilFrom"} /\ IsActive(c.r) => onAccount[c.r] \in Accounts
    BY CommandTypes DEF TxIInv, IInv, ReservationRows, IsActive
  <2>5. Head(todo[w]) \in Rows
    <3>1. ASSUME NEW o, todo[w] = <<CountActive(o)>> \/ todo[w] = <<RecordEvent(o)>> PROVE FALSE
      BY <1>1, <2>2, <3>1, RowsDiffer
    <3> QED BY <2>3, <2>4, <3>1, CommandTypes, RowsDiffer DEF TxIInv
  <2> QED BY <2>1, <2>5
<1>2. todo[v] # <<>> /\ x \in Rows
  BY <1>1
<1>3. \/ rowLock[x] = u /\ u # None
      \/ x[1] = "obligation" /\ u \in keyShare[x[2]]
  BY <1>2 DEF Blockers, Holders
<1>4. u \in Connections
  <2>1. x[1] = "obligation" => x[2] \in Obligations
    BY <1>2 DEF Rows, Obligation, Reservation, Balance
  <2> QED BY <1>2, <1>3, <2>1 DEF TxIInv, TxTypeOK
<1>5. todo[u] # <<>> /\ y \in Rows
  BY <1>1, <1>4
<1>6. rowLock[x] = u
  <2>1. x[1] = "obligation" => x[2] \in Obligations
    BY <1>2 DEF Rows, Obligation, Reservation, Balance
  <2> QED BY <1>3, <1>4, <1>5, <2>1 DEF TxIInv, InOrder
<1>7. Rank(x) < Rank(y)
  BY <1>2, <1>4, <1>5, <1>6 DEF TxIInv, InOrder
<1> QED BY <1>0, <1>4, <1>7

\* Every lock is given back when its transaction ends, however it ends, and the
\* locks that are taken explicitly never wait for each other in a circle.
THEOREM LocksAreOrderedAlways == TxSpec => []LocksAreOrdered
<1>1. TxIInv => ReleasedConnectionsHoldNothing
  <2> SUFFICES ASSUME TxIInv, NEW w \in Connections, cmd[w] = NoCommand PROVE Resting(w)
    BY DEF ReleasedConnectionsHoldNothing, Resting
  <2> QED BY DEF TxIInv, Progress, Creating, Consuming, Ending, Cancelling, Fulfilling, FulfillingFrom,
                 NoCommand
<1>2. TxIInv => CyclesPassThroughAnEvent
  <2> SUFFICES ASSUME TxIInv, NEW S \in SUBSET Connections, FormsCycle(S),
                      \A v \in S : Head(todo[v])[1] # "event"
               PROVE  FALSE
    BY DEF CyclesPassThroughAnEvent
  <2>1. ASSUME NEW v \in S
        PROVE  \E u \in S : /\ Rank(Head(todo[v])) \in {1, 2, 3} /\ Rank(Head(todo[u])) \in {1, 2, 3}
                            /\ Rank(Head(todo[v])) < Rank(Head(todo[u]))
    <3>1. PICK u \in S : u \in Blockers(v)
      BY DEF FormsCycle
    <3>2. Blockers(u) # {}
      BY DEF FormsCycle
    <3> QED BY <3>1, <3>2, WaitsGoForward
  <2>2. PICK v \in S : TRUE
    BY DEF FormsCycle
  <2>3. PICK u1 \in S : /\ Rank(Head(todo[v])) \in {1, 2, 3} /\ Rank(Head(todo[u1])) \in {1, 2, 3}
                        /\ Rank(Head(todo[v])) < Rank(Head(todo[u1]))
    BY <2>1
  <2>4. PICK u2 \in S : Rank(Head(todo[u2])) \in {1, 2, 3} /\ Rank(Head(todo[u1])) < Rank(Head(todo[u2]))
    BY <2>1
  <2>5. PICK u3 \in S : Rank(Head(todo[u3])) \in {1, 2, 3} /\ Rank(Head(todo[u2])) < Rank(Head(todo[u3]))
    BY <2>1
  <2> QED BY <2>3, <2>4, <2>5
<1>3. TxIInv => LocksAreOrdered
  BY <1>1, <1>2 DEF LocksAreOrdered
<1> QED BY <1>3, TxInvariant, PTL

\* The balance columns keep the promise of Escrow however commands overlap.
THEOREM EscrowKeptByTransactions == TxSpec => ImplementsEscrow
<1>1. CommandsAreAtomic => Spec
  BY DEF CommandsAreAtomic
<1> QED BY <1>1, CommandsAreAtomicAlways, EscrowImplemented

=============================================================================
