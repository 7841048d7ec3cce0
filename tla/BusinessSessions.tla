--------------------------- MODULE BusinessSessions ---------------------------
(***************************************************************************)
(* One sign-in session of a business user: sign-in, refresh, sign-out and  *)
(* the authentication of every other request                               *)
(* (modules/client-onboarding/self-registration.ts).  Each server process  *)
(* keeps the session in memory with an index of its tokens and asks the    *)
(* database only for tokens that are not in the index; the provider        *)
(* (Supabase) is called in between.                                        *)
(*                                                                         *)
(* The access token, the refresh token and the provider's tokens that are  *)
(* issued together are one number.  Signatures are left out, and that a    *)
(* token has expired is a choice.                                          *)
(***************************************************************************)
EXTENDS Naturals

CONSTANTS
  Servers,       \* server processes
  SessionCalls,  \* requests in progress at a time
  MaxTokens      \* bound on the tokens issued

SessionsAssumption == MaxTokens \in Nat \ {0}

VARIABLES
  row,       \* business_auth_sessions
  cached,    \* businessAuthSessions: the token of the session in a process, or 0
  index,     \* businessAuthSessionIdByAccessJti and ...ByRefreshJti of a process
  provider,  \* the session at the provider
  issued,    \* number of tokens issued
  turn       \* the requests in progress

vars == <<row, cached, index, provider, issued, turn>>

Tokens == 1 .. MaxTokens
NoRow == [token |-> 0, revoked |-> FALSE]
Idle == [at |-> "idle"]

Init ==
  /\ row = NoRow
  /\ cached = [s \in Servers |-> 0]
  /\ index = [s \in Servers |-> {}]
  /\ provider = "none"
  /\ issued = 0
  /\ turn = [q \in SessionCalls |-> Idle]

-----------------------------------------------------------------------------
\* deleteRuntimeBusinessAuthSession, upsertRuntimeBusinessAuthSession.
\* Mutant: the tokens of before stay in the index.
IndexKept(s, token) == index[s] \cup {token}
IndexAfter(s, token) == (index[s] \ {cached[s]}) \cup {token}

Remember(s, token) ==
  /\ cached' = [cached EXCEPT ![s] = token]
  /\ index' = [index EXCEPT ![s] = IndexAfter(s, token)]

Forget(s) ==
  /\ cached' = [cached EXCEPT ![s] = 0]
  /\ index' = [index EXCEPT ![s] = @ \ {cached[s]}]

Moves(q, place) == turn' = [turn EXCEPT ![q].at = place]
Ends(q) == turn' = [turn EXCEPT ![q] = Idle]

\* handleBusinessAuthSignIn and handleBusinessAuthSetPassword: the provider has
\* opened a session; its tokens are remembered, then saved.
SignIn(q, s) ==
  /\ turn[q] = Idle
  /\ provider = "none"
  /\ provider' = "open"
  /\ issued' = 1
  /\ Remember(s, 1)
  /\ turn' = [turn EXCEPT ![q] = [at |-> "save", kind |-> "signIn", server |-> s, token |-> 1]]
  /\ UNCHANGED row

\* A request presents a token that has been issued: for sign-out, refresh or
\* anything else.  A token of the index finds the session that is cached.
Present(q, s, kind, token) ==
  /\ turn[q] = Idle
  /\ token <= issued
  /\ turn' = [turn EXCEPT ![q] =
       [at |-> IF token \in index[s] /\ cached[s] # 0 THEN "found" ELSE "lookup", kind |-> kind, server |-> s,
        token |-> IF token \in index[s] /\ cached[s] # 0 THEN cached[s] ELSE token]]
  /\ UNCHANGED <<row, cached, index, provider, issued>>

\* A row that is revoked is not taken.  Mutant: it is.
UsableAnyway(token) == row.token = token
Usable(token) == row.token = token /\ ~row.revoked

\* getBusinessAuthSessionByAccessJti, getBusinessAuthSessionByRefreshJti; no
\* session is found either if the database cannot be reached.
Lookup(q) ==
  /\ turn[q].at = "lookup"
  /\ \/ Usable(turn[q].token) /\ Moves(q, "loaded")
     \/ Ends(q)
  /\ UNCHANGED <<row, cached, index, provider, issued>>

Loaded(q) ==
  /\ turn[q].at = "loaded"
  /\ Remember(turn[q].server, turn[q].token)
  /\ Moves(q, "found")
  /\ UNCHANGED <<row, provider, issued>>

\* The session found has not expired: a request is answered, a refresh or a
\* sign-out goes on to the provider.
Authenticate(q) ==
  /\ turn[q].at = "found"
  /\ IF turn[q].kind = "use" THEN Ends(q) ELSE Moves(q, "provider")
  /\ UNCHANGED <<row, cached, index, provider, issued>>

\* revokeBusinessAuthSession: the session has expired, or the provider has
\* ended it or refuses to refresh it.
Revoke(q) ==
  /\ turn[q].at \in {"found", "refused", "signedOut"}
  /\ Forget(turn[q].server)
  /\ Moves(q, "revoke")
  /\ UNCHANGED <<row, provider, issued>>

\* The provider's answer to a refresh or a sign-out; it refreshes only a
\* session that is open, and may refuse at any time.
ProviderAnswers(q) ==
  /\ turn[q].at = "provider"
  /\ \/ turn[q].kind = "refresh" /\ provider = "open" /\ Moves(q, "refreshed") /\ UNCHANGED provider
     \/ turn[q].kind = "refresh" /\ Moves(q, "refused") /\ UNCHANGED provider
     \/ turn[q].kind = "signOut" /\ provider' = "ended" /\ Moves(q, "signedOut")
     \/ turn[q].kind = "signOut" /\ Ends(q) /\ UNCHANGED provider
  /\ UNCHANGED <<row, cached, index, issued>>

\* handleBusinessAuthRefresh issues new tokens and remembers them.
Reissue(q) ==
  /\ turn[q].at = "refreshed"
  /\ issued < MaxTokens
  /\ issued' = issued + 1
  /\ Remember(turn[q].server, issued + 1)
  /\ turn' = [turn EXCEPT ![q].at = "save", ![q].token = issued + 1]
  /\ UNCHANGED <<row, provider>>

\* upsertBusinessAuthSession: the row is made, or replaced and no longer
\* revoked; or the database cannot be reached and the request goes on.
Save(q) ==
  /\ turn[q].at = "save"
  /\ row' \in {[token |-> turn[q].token, revoked |-> FALSE], row}
  /\ Ends(q)
  /\ UNCHANGED <<cached, index, provider, issued>>

SaveRevoked(q) ==
  /\ turn[q].at = "revoke"
  /\ row' \in {[row EXCEPT !.revoked = row # NoRow], row}
  /\ Ends(q)
  /\ UNCHANGED <<cached, index, provider, issued>>

\* A process stops and starts again with nothing in memory.
RestartServer(s) ==
  /\ cached' = [cached EXCEPT ![s] = 0]
  /\ index' = [index EXCEPT ![s] = {}]
  /\ turn' = [q \in SessionCalls |-> IF turn[q] # Idle /\ turn[q].server = s THEN Idle ELSE turn[q]]
  /\ UNCHANGED <<row, provider, issued>>

Next ==
  \/ \E q \in SessionCalls :
       \/ \E s \in Servers : SignIn(q, s)
       \/ \E s \in Servers, kind \in {"use", "refresh", "signOut"}, token \in Tokens : Present(q, s, kind, token)
       \/ Lookup(q)
       \/ Loaded(q)
       \/ Authenticate(q)
       \/ Revoke(q)
       \/ ProviderAnswers(q)
       \/ Reissue(q)
       \/ Save(q)
       \/ SaveRevoked(q)
  \/ \E s \in Servers : RestartServer(s)

Spec == Init /\ [][Next]_vars

-----------------------------------------------------------------------------
(* Properties *)

TypeOK ==
  /\ row \in [token : 0 .. MaxTokens, revoked : BOOLEAN]
  /\ cached \in [Servers -> 0 .. MaxTokens]
  /\ index \in [Servers -> SUBSET Tokens]
  /\ provider \in {"none", "open", "ended"}
  /\ issued \in 0 .. MaxTokens
  /\ turn \in [SessionCalls -> {Idle} \cup
       [at : {"lookup", "loaded", "found", "provider", "refreshed", "refused", "signedOut", "save", "revoke"},
        kind : {"signIn", "use", "refresh", "signOut"}, server : Servers, token : Tokens]]

\* A process accepts exactly the tokens of the session it has in memory: those
\* that a refresh of its own has replaced, or a sign-out has ended, are not in
\* its index, however refreshes, sign-outs and look-ups overlap.
IndexFollowsSession == \A s \in Servers : index[s] = {cached[s]} \ {0}

\* The session is revoked, no process remembers it and no request that may
\* still remember it is under way.
Gone ==
  /\ row.revoked
  /\ \A s \in Servers : cached[s] = 0
  /\ \A q \in SessionCalls : turn[q].at \in {"idle", "lookup", "revoke"}

\* A session that is gone does not come back, whatever old token is presented
\* to whichever process.
GoneStaysGone == [][Gone => Gone']_vars
=============================================================================
