------------------------------- MODULE Escrow -------------------------------
(***************************************************************************)
(* What an account promises its holder, whatever tables keep it: every     *)
(* unit is free, held or spent; a unit reaches the payee only through a    *)
(* hold, and a hold that is not spent goes back whole.                     *)
(***************************************************************************)
EXTENDS Integers

CONSTANTS Accounts, MaxUnits

VARIABLES free, held, spent, funded

vars == <<free, held, spent, funded>>

Init ==
  /\ free = [a \in Accounts |-> 0]
  /\ held = [a \in Accounts |-> 0]
  /\ spent = [a \in Accounts |-> 0]
  /\ funded = [a \in Accounts |-> 0]

Fund(a, n) ==
  /\ free' = [free EXCEPT ![a] = @ + n]
  /\ funded' = [funded EXCEPT ![a] = @ + n]
  /\ UNCHANGED <<held, spent>>

Hold(a, n) ==
  /\ n <= free[a]
  /\ free' = [free EXCEPT ![a] = @ - n]
  /\ held' = [held EXCEPT ![a] = @ + n]
  /\ UNCHANGED <<spent, funded>>

GiveBack(a, n) ==
  /\ n <= held[a]
  /\ held' = [held EXCEPT ![a] = @ - n]
  /\ free' = [free EXCEPT ![a] = @ + n]
  /\ UNCHANGED <<spent, funded>>

Spend(a, n) ==
  /\ n <= held[a]
  /\ held' = [held EXCEPT ![a] = @ - n]
  /\ spent' = [spent EXCEPT ![a] = @ + n]
  /\ UNCHANGED <<free, funded>>

Next ==
  \E a \in Accounts, n \in 1 .. MaxUnits :
    Fund(a, n) \/ Hold(a, n) \/ GiveBack(a, n) \/ Spend(a, n)

Spec == Init /\ [][Next]_vars
=============================================================================
