--------------------------- MODULE LinkedInstruments ---------------------------
(***************************************************************************)
(* The linked instruments of one client: the internal commands             *)
(* (createLinkedInstrument, patchLinkedInstrument and                      *)
(* updateLinkedInstrumentAction of db/postgres-route-handler.ts) and the   *)
(* business user's own requests (handleCreateMyLinkedInstrument and the    *)
(* like of modules/client-onboarding/self-registration.ts), which the      *)
(* schema decides the outcome of: rail_code is a column that no migration  *)
(* adds.                                                                   *)
(*                                                                         *)
(* All instruments have one purpose; of the rail type only whether it is   *)
(* null counts, and the verification status is left out.  The provider     *)
(* call for a wire instrument precedes the insert and is left out with     *)
(* what it returns.                                                        *)
(***************************************************************************)
EXTENDS FiniteSets, Naturals

CONSTANTS
  Ledgers,      \* accounts of digital asset of the client
  Instruments,  \* ids of instruments
  Editors       \* patches in progress at a time

VARIABLES
  railColumns,  \* whether linked_instruments has the columns rail_code and rail_name
  instrument,   \* linked_instruments
  edit          \* the patches' transactions

vars == <<railColumns, instrument, edit>>

NoInstrument == [status |-> "none"]
Unassigned == "unassigned"
Idle == [at |-> "idle"]

Init ==
  /\ railColumns \in BOOLEAN
  /\ instrument = [i \in Instruments |-> NoInstrument]
  /\ edit = [e \in Editors |-> Idle]

Exists(i) == instrument[i] # NoInstrument

\* The rows a patch has locked: its own and, once it has cleared them, others.
Locked(i) == \E e \in Editors : edit[e] # Idle /\ i \in edit[e].holds
LockedByOther(e, i) == \E f \in Editors \ {e} : edit[f] # Idle /\ i \in edit[f].holds

\* What linked_instruments_ada_default_purpose_uidx is about: two rows whose
\* rail type is null do not collide.  Mutant: there is no such index.
Counted(row) == row # NoInstrument /\ row.default /\ row.typed /\ row.status = "active" /\ row.account # Unassigned
Anything(i, row) == TRUE
Unique(i, row) ==
  Counted(row) => \A j \in Instruments \ {i} : ~(Counted(instrument[j]) /\ instrument[j].account = row.account)

Stored(i, row) == instrument' = [instrument EXCEPT ![i] = row]

-----------------------------------------------------------------------------
(* Internal commands *)

\* createLinkedInstrument: the status is the request's, others' defaults stay.
CreateLinkedInstrument(i, a, status, default, typed) ==
  /\ ~Exists(i)
  /\ LET row == [account |-> a, status |-> status, default |-> default, typed |-> typed]
     IN  Unique(i, row) /\ Stored(i, row)
  /\ UNCHANGED <<railColumns, edit>>

\* patchLinkedInstrument locks the instrument.
Patch(e, i, status, setDefault) ==
  /\ edit[e] = Idle
  /\ Exists(i) /\ instrument[i].account # Unassigned
  /\ ~Locked(i)
  /\ edit' = [edit EXCEPT ![e] =
       [at |-> IF setDefault THEN "clear" ELSE "update", on |-> i, status |-> status, default |-> setDefault, holds |-> {i}]]
  /\ UNCHANGED <<railColumns, instrument>>

\* The rows whose default is taken away, set or not.
Others(i) ==
  {j \in Instruments \ {i} : Exists(j) /\ instrument[j].account = instrument[i].account
                             /\ instrument[j].typed = instrument[i].typed /\ instrument[j].status = "active"}

\* The update locks them one after the other.
LockOther(e, j) ==
  /\ edit[e].at = "clear"
  /\ j \in Others(edit[e].on) \ edit[e].holds
  /\ ~LockedByOther(e, j)
  /\ edit' = [edit EXCEPT ![e].holds = @ \cup {j}]
  /\ UNCHANGED <<railColumns, instrument>>

Cleared(e) ==
  /\ edit[e].at = "clear"
  /\ Others(edit[e].on) \subseteq edit[e].holds
  /\ edit' = [edit EXCEPT ![e].at = "update"]
  /\ UNCHANGED <<railColumns, instrument>>

\* The instruments as the patch leaves them.
PatchedAlone(e) ==
  [instrument EXCEPT ![edit[e].on].status = IF edit[e].status = "same" THEN @ ELSE edit[e].status,
                     ![edit[e].on].default = @ \/ edit[e].default]
Patched(e) ==
  [i \in Instruments |->
     IF i = edit[e].on THEN PatchedAlone(e)[i]
     ELSE IF edit[e].default /\ i \in edit[e].holds THEN [instrument[i] EXCEPT !.default = FALSE]
     ELSE instrument[i]]

UniqueAfter(e) ==
  LET i == edit[e].on IN
    Counted(Patched(e)[i]) =>
      \A j \in Instruments \ {i} : ~(Counted(Patched(e)[j]) /\ Patched(e)[j].account = Patched(e)[i].account)

Commit(e) ==
  /\ edit[e].at = "update"
  /\ UniqueAfter(e)
  /\ instrument' = Patched(e)
  /\ edit' = [edit EXCEPT ![e] = Idle]
  /\ UNCHANGED railColumns

\* The index refuses the update, the database ends a deadlock, the connection
\* is lost or the server stops.
RollBack(e) ==
  /\ edit[e] # Idle
  /\ edit' = [edit EXCEPT ![e] = Idle]
  /\ UNCHANGED <<railColumns, instrument>>

\* updateLinkedInstrumentAction
Verify(i) ==
  /\ Exists(i) /\ instrument[i].account # Unassigned /\ ~Locked(i)
  /\ LET row == [instrument[i] EXCEPT !.status = "active"]
     IN  Unique(i, row) /\ Stored(i, row)
  /\ UNCHANGED <<railColumns, edit>>

Disable(i) ==
  /\ Exists(i) /\ instrument[i].account # Unassigned /\ ~Locked(i)
  /\ Stored(i, [instrument[i] EXCEPT !.status = "restricted", !.default = FALSE])
  /\ UNCHANGED <<railColumns, edit>>

-----------------------------------------------------------------------------
(* Requests of the business user *)

\* handleCreateMyLinkedInstrument, handleCreateMyBusinessLinkedInstrument:
\* without the columns, only owner, type and status are stored.
CreateMine(i, a, status, default) ==
  /\ ~Exists(i)
  /\ LET row == IF railColumns
                THEN [account |-> a, status |-> status, default |-> default, typed |-> TRUE]
                ELSE [account |-> a, status |-> status, default |-> FALSE, typed |-> FALSE]
     IN  Unique(i, row) /\ Stored(i, row)
  /\ UNCHANGED <<railColumns, edit>>

\* handleUpdateMyLinkedInstrument, handleUpdateMyBusinessLinkedInstrument: they
\* select the columns first.  The default may be given up as well.
UpdateMine(i, status, default) ==
  /\ railColumns
  /\ Exists(i) /\ ~Locked(i)
  /\ LET row == [instrument[i] EXCEPT !.status = status, !.default = default]
     IN  Unique(i, row) /\ Stored(i, row)
  /\ UNCHANGED <<railColumns, edit>>

\* handleAssignMyLinkedInstrumentToAda: from one account to another, too.
AssignMine(i, a) ==
  /\ railColumns
  /\ Exists(i) /\ ~Locked(i)
  /\ LET row == [instrument[i] EXCEPT !.account = a, !.status = IF @ = "draft" THEN "active" ELSE @]
     IN  Unique(i, row) /\ Stored(i, row)
  /\ UNCHANGED <<railColumns, edit>>

Next ==
  \/ \E i \in Instruments, status \in {"draft", "active", "restricted"}, default \in BOOLEAN :
       \/ \E a \in Ledgers, typed \in BOOLEAN : CreateLinkedInstrument(i, a, status, default, typed)
       \/ \E a \in Ledgers \cup {Unassigned} : CreateMine(i, a, status, default)
       \/ UpdateMine(i, status, default)
  \/ \E i \in Instruments : Verify(i) \/ Disable(i) \/ \E a \in Ledgers : AssignMine(i, a)
  \/ \E e \in Editors :
       \/ \E i \in Instruments, status \in {"same", "active", "restricted"}, setDefault \in BOOLEAN :
            Patch(e, i, status, setDefault)
       \/ \E j \in Instruments : LockOther(e, j)
       \/ Cleared(e)
       \/ Commit(e)
       \/ RollBack(e)

Spec == Init /\ [][Next]_vars

-----------------------------------------------------------------------------
(* Properties *)

TypeOK ==
  /\ railColumns \in BOOLEAN
  /\ instrument \in [Instruments -> {NoInstrument} \cup
       [account : Ledgers \cup {Unassigned}, status : {"draft", "active", "restricted"},
        default : BOOLEAN, typed : BOOLEAN]]
  /\ edit \in [Editors -> {Idle} \cup
       [at : {"clear", "update"}, on : Instruments, status : {"same", "active", "restricted"},
        default : BOOLEAN, holds : SUBSET Instruments]]

\* An account never has two defaults that payments could be sent to, unless
\* their rail type is null: not when patches that overlap each make their
\* instrument the default, and not by an insert, an assignment or a
\* verification that brings back a default of before.
OneDefault ==
  \A a \in Ledgers :
    Cardinality({i \in Instruments : Counted(instrument[i]) /\ instrument[i].account = a}) <= 1
=============================================================================
