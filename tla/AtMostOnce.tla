------------------------------ MODULE AtMostOnce ------------------------------
(***************************************************************************)
(* What an idempotency key promises a client: the command it names is      *)
(* performed at most once, and every success it is told of is that one.    *)
(***************************************************************************)
CONSTANTS Keys, Requests, Responses, None

VARIABLES
  outcome,    \* per key, the request performed and its response, or None
  answers     \* successes told to clients: <<key, request, response>>

vars == <<outcome, answers>>

Init ==
  /\ outcome = [k \in Keys |-> None]
  /\ answers = {}

Perform(k, h, r) ==
  /\ outcome[k] = None
  /\ outcome' = [outcome EXCEPT ![k] = <<h, r>>]
  /\ answers' \in {answers, answers \cup {<<k, h, r>>}}

Answer(k) ==
  /\ outcome[k] # None
  /\ answers' = answers \cup {<<k, outcome[k][1], outcome[k][2]>>}
  /\ UNCHANGED outcome

Next == \E k \in Keys : Answer(k) \/ \E h \in Requests, r \in Responses : Perform(k, h, r)

Spec == Init /\ [][Next]_vars
=============================================================================
