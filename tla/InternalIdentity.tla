--------------------------- MODULE InternalIdentity ---------------------------
(***************************************************************************)
(* The internal users, their roles, invitations and credentials            *)
(* (db/internal-identity-store.ts and the /admin/users, /admin/bootstrap   *)
(* and /internal-access handlers of http/router.ts, as server.ts runs      *)
(* them).  A request reads the tables one by one, works on what it has     *)
(* read, and writes all of it back in one transaction: every user, role    *)
(* and invitation it read, whether it has changed them or not.             *)
(*                                                                         *)
(* A user is named by email, which is unique; changing the email is left   *)
(* out, and so are names, audit, the email itself and password rules.  A   *)
(* setup token is outstanding or not: whoever is sent one has it.          *)
(***************************************************************************)
EXTENDS Naturals, FiniteSets

CONSTANTS
  Emails,          \* emails of internal users
  RoleLists,       \* sets of roles an administrator assigns
  Admin,           \* the email of the administrator the server starts with
  People,          \* requests in progress at a time
  MaxInvitations,  \* bound on the invitations made
  MaxCalls         \* bound on the requests

AdminEmail == Admin \in Emails /\ "none" \notin Emails
BoundsNat == MaxInvitations \in Nat /\ MaxCalls \in Nat

VARIABLES
  users,           \* app_users: the status of the user of an email
  roles,           \* user_role_assignments
  invitations,     \* internal_user_invitations, in the order they were made
  secrets,         \* internal_access_secrets of an email
  call,            \* the requests in progress
  calls            \* number of requests so far

tables == <<users, roles, invitations, secrets>>
vars == <<users, roles, invitations, secrets, call, calls>>

Roles == (UNION RoleLists) \cup {"platform_admin", "super_admin"}
Numbers == 1 .. MaxInvitations
NoInvitation == [email |-> "none"]
NoSecret == [token |-> FALSE, password |-> FALSE]
Idle == [at |-> "idle"]
Now == [users |-> users, roles |-> roles, invitations |-> invitations, secrets |-> secrets]

Init ==
  /\ users = [e \in Emails |-> IF e = Admin THEN "active" ELSE "none"]
  /\ roles = [e \in Emails |-> IF e = Admin THEN {"platform_admin"} ELSE {}]
  /\ invitations = [n \in Numbers |-> NoInvitation]
  /\ secrets = [e \in Emails |-> [NoSecret EXCEPT !.password = (e = Admin)]]
  /\ call = [p \in People |-> Idle]
  /\ calls = 0

-----------------------------------------------------------------------------
(* refreshInternalIdentityStateFromTables: the queries run on connections of *)
(* their own, in any order; their rows are the state the handler works on.   *)

Blank ==
  [users |-> [e \in Emails |-> "none"], roles |-> [e \in Emails |-> {}],
   invitations |-> [n \in Numbers |-> NoInvitation], secrets |-> [e \in Emails |-> NoSecret]]

Refresh(p) ==
  /\ call[p] = Idle
  /\ calls < MaxCalls
  /\ calls' = calls + 1
  /\ \E table \in DOMAIN Now :
       call' = [call EXCEPT ![p] = [at |-> "read", unread |-> DOMAIN Now \ {table},
                                    rows |-> [Blank EXCEPT ![table] = Now[table]]]]
  /\ UNCHANGED tables

Query(p, table) ==
  /\ call[p].at = "read"
  /\ table \in call[p].unread
  /\ call' = [call EXCEPT ![p].rows[table] = Now[table], ![p].unread = @ \ {table}]
  /\ UNCHANGED <<tables, calls>>

-----------------------------------------------------------------------------
(* Handlers: what they leave of the draft d, and when they are not refused.  *)

IsAdmin(list) == list \cap {"platform_admin", "super_admin"} # {}
ActiveAdmins(d) == {e \in Emails : d.users[e] = "active" /\ IsAdmin(d.roles[e])}

Of(d, e) == {n \in Numbers : d.invitations[n].email = e}
Sent(d, e) == {n \in Of(d, e) : d.invitations[n].status = "sent"}
Newest(numbers) == CHOOSE n \in numbers : \A m \in numbers : m <= n

\* A number no table and no draft uses (a random id and key).
Unused(n) ==
  /\ invitations[n] = NoInvitation
  /\ \A p \in People : call[p].at = "persist" => call[p].draft.invitations[n] = NoInvitation
CanInvite == \E n \in Numbers : Unused(n)
FreshNumber == CHOOSE n \in Numbers : Unused(n) /\ \A m \in Numbers : Unused(m) => n <= m
Invitation(e, role) == [email |-> e, role |-> role, status |-> "sent"]

\* withApiStateTransaction around a handler that works on e.
Handling(p) == call[p].at = "read" /\ call[p].unread = {}
Leave(p, e, d) ==
  /\ call' = [call EXCEPT ![p] = [at |-> "persist", draft |-> d,
       new |-> IF call[p].rows.users[e] = "none" /\ d.users[e] # "none" THEN {e} ELSE {}]]
  /\ UNCHANGED <<tables, calls>>

\* assignRoles: the roles of a user are replaced.
Assigned(d, e, list) == [d EXCEPT !.roles[e] = list]

\* POST /admin/users/invitations, with a new key.
Invite(p, s, e, role) ==
  /\ CanInvite
  /\ s.users[e] \in {"none", "invited"}
  /\ Leave(p, e, [Assigned(s, e, {role}) EXCEPT
       !.users[e] = "invited", !.secrets[e] = [token |-> TRUE, password |-> FALSE],
       !.invitations[FreshNumber] = Invitation(e, role)])

\* POST /admin/users/:id/invitation/resend, for a role other than super_admin
\* if there is one.
Resend(p, s, e, role) ==
  /\ s.users[e] = "invited"
  /\ role \in s.roles[e]
  /\ role = "super_admin" => s.roles[e] = {"super_admin"}
  /\ Sent(s, e) = {} => CanInvite
  /\ LET n == IF Sent(s, e) = {} THEN FreshNumber ELSE Newest(Sent(s, e))
     IN  Leave(p, e, [s EXCEPT !.invitations[n] = Invitation(e, role), !.secrets[e].token = TRUE])

\* PATCH /admin/users/:id: the last active administrator stays one.
UpdateUser(p, s, e, status, list) ==
  /\ s.users[e] # "none"
  /\ (e \in ActiveAdmins(s) /\ ~(status = "active" /\ IsAdmin(list))) => Cardinality(ActiveAdmins(s)) > 1
  /\ Leave(p, e, [Assigned(s, e, list) EXCEPT !.users[e] = status])

\* PATCH /admin/users/:id/roles
UpdateRoles(p, s, e, list) ==
  /\ s.users[e] \notin {"none", "disabled"}
  /\ Leave(p, e, Assigned(s, e, list))

\* PATCH /admin/users/:id/status
UpdateStatus(p, s, e, status) ==
  /\ s.users[e] # "none"
  /\ (status = "disabled" /\ "platform_admin" \in s.roles[e]) => Cardinality(ActiveAdmins(s)) > 1
  /\ Leave(p, e, [s EXCEPT !.users[e] = status])

\* POST /admin/bootstrap/super-admin: an invitation, for whatever email is given,
\* without a user.
Bootstrap(p, s, e) ==
  /\ CanInvite
  /\ \A f \in Emails : s.users[f] # "none" => "super_admin" \notin s.roles[f]
  /\ \A n \in Numbers : s.invitations[n] # NoInvitation => s.invitations[n].role # "super_admin"
  /\ Leave(p, e, [s EXCEPT
       !.invitations[FreshNumber] = Invitation(e, "super_admin"), !.secrets[e].token = TRUE])

\* POST /internal-access/initialize with the token; the invitation may have
\* expired.
Initialize(p, s, e, expired) ==
  /\ s.users[e] # "disabled"
  /\ s.users[e] = "none" => Sent(s, e) # {} /\ ~expired
  /\ s.secrets[e].token
  /\ LET sent == Sent(s, e)
         d == IF sent = {} \/ expired THEN s
              ELSE Assigned(s, e, {s.invitations[Newest(sent)].role})
     IN  Leave(p, e, [d EXCEPT
           !.users[e] = "active", !.secrets[e] = [token |-> FALSE, password |-> TRUE],
           !.invitations = [n \in Numbers |-> IF n \in sent THEN [@[n] EXCEPT !.status = "accepted"] ELSE @[n]]])

\* POST /internal-access/forgot-credentials: the newest invitation is sent again.
Forget(p, s, e, role) ==
  /\ IF Of(s, e) = {} THEN role \in s.roles[e] /\ CanInvite
                           ELSE role = s.invitations[Newest(Of(s, e))].role
  /\ LET n == IF Of(s, e) = {} THEN FreshNumber ELSE Newest(Of(s, e))
     IN  Leave(p, e, [s EXCEPT !.invitations[n] = Invitation(e, role), !.secrets[e].token = TRUE])

Handle(p, s, e) ==
  \/ \E role \in UNION RoleLists : Invite(p, s, e, role)
  \/ \E role \in Roles : Resend(p, s, e, role) \/ Forget(p, s, e, role)
  \/ \E status \in {"invited", "active", "disabled"} :
       \/ \E list \in RoleLists \cup {s.roles[e]} : UpdateUser(p, s, e, status, list)
       \/ UpdateStatus(p, s, e, status)
  \/ \E list \in RoleLists : UpdateRoles(p, s, e, list)
  \/ Bootstrap(p, s, e)
  \/ \E expired \in BOOLEAN : Initialize(p, s, e, expired)

-----------------------------------------------------------------------------
(* persistInternalIdentityTables: one transaction; the alter table it starts *)
(* with lets only one run at a time.                                         *)

\* A new user whose email has meanwhile been taken fails the transaction.
Fits(c) == \A e \in c.new : users[e] = "none"

\* insert into app_users ... on conflict (id) do update.
\* Mutant: new users are not inserted.
UsersUpdated(d) == [e \in Emails |-> IF users[e] = "none" THEN "none" ELSE d.users[e]]
UsersUpserted(d) == [e \in Emails |-> IF d.users[e] = "none" THEN users[e] ELSE d.users[e]]

\* Assignments of the users in the draft are deleted, and the draft's inserted;
\* invitations and secrets are only inserted or updated.
Persist(p) ==
  /\ call[p].at = "persist"
  /\ call' = [call EXCEPT ![p] = Idle]
  /\ UNCHANGED calls
  /\ LET d == call[p].draft
     IN  IF ~Fits(call[p])
         THEN UNCHANGED tables
         ELSE /\ users' = UsersUpserted(d)
              /\ roles' = [e \in Emails |->
                   IF d.users[e] = "none" THEN roles[e] \cup d.roles[e] ELSE d.roles[e]]
              /\ invitations' = [n \in Numbers |->
                   IF d.invitations[n] = NoInvitation THEN invitations[n] ELSE d.invitations[n]]
              /\ secrets' = [e \in Emails |-> IF d.secrets[e] = NoSecret THEN secrets[e] ELSE d.secrets[e]]

\* The request fails or the server stops before the transaction.
Abort(p) ==
  /\ call[p] # Idle
  /\ call' = [call EXCEPT ![p] = Idle]
  /\ UNCHANGED <<tables, calls>>

\* GET /admin/users: repairInvitationOnlyInternalUsersWithPostgres makes the
\* user of a sent invitation that has none.
Repair ==
  /\ \E e \in Emails : users[e] = "none" /\ Sent(Now, e) # {}
  /\ LET missing == {e \in Emails : users[e] = "none" /\ Sent(Now, e) # {}}
         role(e) == invitations[Newest(Sent(Now, e))].role
     IN  /\ users' = [e \in Emails |-> IF e \in missing THEN "invited" ELSE users[e]]
         /\ roles' = [e \in Emails |-> IF e \in missing THEN {role(e)} ELSE roles[e]]
  /\ UNCHANGED <<invitations, secrets, call, calls>>

Next ==
  \/ \E p \in People :
       \/ Refresh(p)
       \/ \E table \in DOMAIN Now : Query(p, table)
       \/ /\ Handling(p)
          /\ \E e \in Emails : Handle(p, call[p].rows, e)
       \/ Persist(p)
       \/ Abort(p)
  \/ Repair

Spec == Init /\ [][Next]_vars

-----------------------------------------------------------------------------
(* Properties *)

Invitations == {NoInvitation} \cup [email : Emails, role : Roles, status : {"sent", "accepted"}]
Drafts == [users : [Emails -> {"none", "invited", "active", "disabled"}], roles : [Emails -> SUBSET Roles],
           invitations : [Numbers -> Invitations], secrets : [Emails -> [token : BOOLEAN, password : BOOLEAN]]]

TypeOK ==
  /\ Now \in Drafts
  /\ calls \in 0 .. MaxCalls
  /\ \A p \in People : call[p].at \in {"idle", "read", "persist"}

\* An invitation is accepted, and a password kept, together with the user they
\* are for, through overlapping, torn and stale requests alike: a request that
\* lost the email to another, or never saw the user, leaves neither alone.
AcceptedHasUser ==
  \A e \in Emails :
    (secrets[e].password \/ \E n \in Of(Now, e) : invitations[n].status = "accepted") => users[e] # "none"
=============================================================================
