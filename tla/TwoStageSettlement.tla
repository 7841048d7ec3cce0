------------------------- MODULE TwoStageSettlement -------------------------
(***************************************************************************)
(* What a client exchange promises: its fiat is settled once, for one      *)
(* account and one amount, then that amount of USDC is delivered once to   *)
(* that account, and the client's balance shows it first as owed and then  *)
(* as delivered.                                                           *)
(***************************************************************************)
EXTENDS Integers

CONSTANTS Instructions, Accounts, MaxUnits

VARIABLES
  settled,           \* <<instruction, account, amount>> of every settled wire
  posted,            \* the instructions whose USDC has been delivered
  owed, delivered    \* balances per account

vars == <<settled, posted, owed, delivered>>

Init ==
  /\ settled = {} /\ posted = {}
  /\ owed = [a \in Accounts |-> 0]
  /\ delivered = [a \in Accounts |-> 0]

SettleFiat(i, a, n) ==
  /\ \A x \in settled : x[1] # i
  /\ settled' = settled \cup {<<i, a, n>>}
  /\ owed' = [owed EXCEPT ![a] = @ + n]
  /\ UNCHANGED <<posted, delivered>>

DeliverUsdc(i, a, n) ==
  /\ <<i, a, n>> \in settled
  /\ i \notin posted
  /\ posted' = posted \cup {i}
  /\ owed' = [owed EXCEPT ![a] = @ - n]
  /\ delivered' = [delivered EXCEPT ![a] = @ + n]
  /\ UNCHANGED settled

Next ==
  \E i \in Instructions, a \in Accounts, n \in 1 .. MaxUnits :
    SettleFiat(i, a, n) \/ DeliverUsdc(i, a, n)

Spec == Init /\ [][Next]_vars
=============================================================================
