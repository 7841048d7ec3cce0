----------------------------- MODULE CircleGateway -----------------------------
(***************************************************************************)
(* The calls of modules/circle at the provider: a POST is repeated when    *)
(* its answer does not come, with the payload of the first attempt; a      *)
(* refusal is final.  The provider makes one object for a key in the       *)
(* payload and a new one for every request without.                        *)
(*                                                                         *)
(* A wire account is registered in up to three requests: accounts whose    *)
(* number ends alike are looked for, one is registered if there is none,   *)
(* and its instructions are fetched.  Calls overlap.                       *)
(*                                                                         *)
(* All wire accounts here are for numbers that end alike; of payloads only *)
(* the key is kept.  A call without a key of its own, and a wallet call    *)
(* whose key is not a UUID, makes up a key, which is named by the call's   *)
(* number.                                                                 *)
(***************************************************************************)
EXTENDS Naturals, FiniteSets

CONSTANTS
  CallKeys,     \* idempotency keys of commands that are UUIDs
  OtherKeys,    \* idempotency keys that are not
  Callers,      \* calls in progress at a time
  MaxAttempts,  \* CIRCLE_RETRY_MAX_ATTEMPTS
  MaxAsked      \* bound on the calls made

GatewayAssumption == MaxAttempts \in Nat \ {0} /\ MaxAsked \in Nat /\ IsFiniteSet(Callers)

VARIABLES
  objects,  \* what the provider has made
  asked,    \* number of calls so far
  caller    \* the calls in progress

vars == <<objects, asked, caller>>

Idle == [at |-> "idle"]
None == "none"
Kinds == {"wire", "mint", "wallet", "transfer"}

Init ==
  /\ objects = {}
  /\ asked = 0
  /\ caller = [c \in Callers |-> Idle]

-----------------------------------------------------------------------------
(* The provider *)

\* Mutant: the payload is built for every attempt.
PayloadKeyPerAttempt(kind, key, number, attempt) ==
  IF key = None THEN <<number, attempt>> ELSE <<key, 0>>
\* The key a request's payload carries; a transfer's payload has none.  The
\* payload is built once per call.
PayloadKey(kind, key, number, attempt) ==
  CASE kind = "transfer" -> <<number, attempt>>
    [] kind = "wallet" /\ key \in OtherKeys -> <<number, 0>>
    [] key = None -> <<number, 0>>
    [] OTHER -> <<key, 0>>

\* The provider carries out a POST.
Made(kind, key, number, blind) ==
  IF \E o \in objects : o.kind = kind /\ o.key = key THEN objects
  ELSE objects \cup {[kind |-> kind, key |-> key, by |-> number, blind |-> blind]}

WireAccounts == {o \in objects : o.kind = "wire"}

-----------------------------------------------------------------------------
(* Requests *)

End(c) == caller' = [caller EXCEPT ![c] = Idle]
Fetch(c) == caller' = [caller EXCEPT ![c].at = "instructions", ![c].attempt = 1]

\* circleHttpRequest: no answer came before the timeout, or the connection
\* broke; the request is sent again or the call fails.
Again(c) ==
  caller' = [caller EXCEPT ![c] =
    IF @.attempt < MaxAttempts THEN [caller[c] EXCEPT !.attempt = caller[c].attempt + 1] ELSE Idle]

\* Bound: the calls of a run are of one kind.  Calls of different kinds have
\* nothing to do with each other.
OneKind(kind) ==
  /\ \A o \in objects : o.kind = kind
  /\ \A c \in Callers : caller[c] # Idle => caller[c].kind = kind

Keys(kind) ==
  CASE kind = "transfer" -> {None}
    [] kind = "wallet" -> CallKeys \cup OtherKeys \cup {None}
    [] OTHER -> CallKeys \cup {None}

\* mintFiatToCircleWallet, initializeCircleWalletSet and the like (which have
\* one attempt), invokeCircle; provisionSandboxWireFundingInstructions lists
\* the wire accounts first.
Call(c, kind, key) ==
  /\ caller[c] = Idle
  /\ asked < MaxAsked /\ OneKind(kind)
  /\ asked' = asked + 1
  /\ caller' = [caller EXCEPT ![c] =
       [at |-> IF kind = "wire" THEN "list" ELSE "post", kind |-> kind, key |-> key,
        number |-> asked', attempt |-> IF kind = "wallet" THEN MaxAttempts ELSE 1, blind |-> FALSE]]
  /\ UNCHANGED objects

Requested(c) ==
  LET x == caller[c]
  IN  Made(x.kind, PayloadKey(x.kind, x.key, x.number, x.attempt), x.number, x.blind)

\* The provider carries out the POST and the answer arrives; with a wire
\* account its instructions are asked for next.
Answered(c) ==
  /\ caller[c].at = "post"
  /\ objects' = Requested(c)
  /\ IF caller[c].kind = "wire" THEN Fetch(c) ELSE End(c)
  /\ UNCHANGED asked

\* The provider carries out the POST and the answer is lost.
AnswerLost(c) ==
  /\ caller[c].at = "post"
  /\ objects' = Requested(c)
  /\ Again(c)
  /\ UNCHANGED asked

\* The request is lost.
RequestLost(c) ==
  /\ caller[c].at \in {"post", "instructions"}
  /\ Again(c)
  /\ UNCHANGED <<objects, asked>>

\* The provider refuses the request, whatever the reason: no other attempt.
Refused(c) ==
  /\ caller[c].at \in {"post", "instructions"}
  /\ End(c)
  /\ UNCHANGED <<objects, asked>>

\* Mutant: matches are overlooked.
NothingReusable(matches) == FALSE
\* findExistingSandboxWireAccountsByLast4: one match is used, several are
\* refused.
Reusable(matches) == Cardinality(matches) = 1

Listed(c) ==
  /\ caller[c].at = "list"
  /\ IF Reusable(WireAccounts) THEN Fetch(c)
     ELSE IF Cardinality(WireAccounts) > 1 THEN End(c)
     ELSE caller' = [caller EXCEPT ![c].at = "post"]
  /\ UNCHANGED <<objects, asked>>

\* A list that cannot be had, after all attempts, is taken for an empty one.
NotListed(c) ==
  /\ caller[c].at = "list"
  /\ caller' = [caller EXCEPT ![c] = [@ EXCEPT !.at = "post", !.blind = TRUE]]
  /\ UNCHANGED <<objects, asked>>

\* retrieveSandboxWireFundingInstructions
Instructions(c) ==
  /\ caller[c].at = "instructions"
  /\ End(c)
  /\ UNCHANGED <<objects, asked>>

Next ==
  \E c \in Callers :
    \/ \E kind \in Kinds : \E key \in Keys(kind) : Call(c, kind, key)
    \/ Answered(c)
    \/ AnswerLost(c)
    \/ RequestLost(c)
    \/ Refused(c)
    \/ Listed(c)
    \/ NotListed(c)
    \/ Instructions(c)

Spec == Init /\ [][Next]_vars

-----------------------------------------------------------------------------
(* Properties *)

Numbers == 1 .. MaxAsked
TypeOK ==
  /\ objects \subseteq [kind : Kinds, key : (Numbers \cup CallKeys \cup OtherKeys) \X (0 .. MaxAttempts),
                        by : Numbers, blind : BOOLEAN]
  /\ asked \in 0 .. MaxAsked
  /\ \A c \in Callers : caller[c].at \in {"idle", "list", "post", "instructions"}

\* However often its request is repeated, a call makes one object at most; only
\* a transfer, whose payload has no key, makes one for each attempt.
OneObjectPerCall ==
  \A n \in Numbers : Cardinality({o \in objects : o.by = n /\ o.kind # "transfer"}) <= 1

\* A bank account is registered again only by calls that overlap or could not
\* list what there is: a registration whose answer was lost, or whose
\* instructions could not be fetched, is found by the next call.
RegisteredAgainInOverlapOnly == Cardinality({o \in WireAccounts : ~o.blind}) <= Cardinality(Callers)
=============================================================================
