---------------------------- MODULE LedgerJournals ----------------------------
(***************************************************************************)
(* The journal of the Postgres path (db/postgres-route-handler.ts):        *)
(* opening and manual entries, reversals, and the entries of funding       *)
(* settlements (postFundingJournal), which are posted in transactions that *)
(* overlap.  An entry names its source event, which the schema keeps       *)
(* unique: the idempotency key of the command, except that a manual entry  *)
(* may name any event and a settlement names its own.                      *)
(*                                                                         *)
(* Entries and lines are only ever added (a trigger refuses the rest).     *)
(* Amounts, accounts, posting rules and audit rows are left out.           *)
(***************************************************************************)
EXTENDS FiniteSets, Naturals

CONSTANTS
  JournalKeys,  \* idempotency keys, each of one command (see IdempotentCommands)
  Settlements,  \* source events of funding settlements
  Posters       \* transactions in progress at a time

JournalsAssumption == IsFiniteSet(Posters) /\ "none" \notin JournalKeys \cup Settlements

VARIABLES
  entries,  \* treasury_journal_entries
  poster    \* the transactions

vars == <<entries, poster>>

Idle == [at |-> "idle"]
None == "none"

Init ==
  /\ entries = {}
  /\ poster = [x \in Posters |-> Idle]

Sources == {e.source : e \in entries}
Keyed == {e.key : e \in entries} \cup {poster[x].entry.key : x \in {y \in Posters : poster[y] # Idle}}

-----------------------------------------------------------------------------
Entry(k, source, reversal) == [key |-> k, source |-> source, reversalOf |-> reversal]

\* postOpeningJournal, postManualJournal and postFundingJournal come to their
\* insert.  A key whose command failed may be used again.
Prepare(x, k, source) ==
  /\ poster[x] = Idle
  /\ k \notin Keyed
  /\ poster' = [poster EXCEPT ![x] = [at |-> "insert", entry |-> Entry(k, source, None)]]
  /\ UNCHANGED entries

\* reverseJournal answers with the reversal there is, if it finds one.
\* Mutant: it does not look.
Regardless(reversed) == {}
Reversals(reversed) == {e \in entries : e.reversalOf = reversed}

\* reverseJournal finds the entry and no reversal of it, and holds nothing.
PrepareReversal(x, k, reversed) ==
  /\ poster[x] = Idle
  /\ k \notin Keyed
  /\ reversed \in Sources
  /\ Reversals(reversed) = {}
  /\ poster' = [poster EXCEPT ![x] = [at |-> "insert", entry |-> Entry(k, k, reversed)]]
  /\ UNCHANGED entries

\* The unique source: the insert waits for one of the same source that has not
\* ended, and fails after one that was committed.  Mutant: no such index.
NoIndex(source) == TRUE
SourceFree(source) == source \notin Sources /\ \A x \in Posters : poster[x].at = "commit" => poster[x].entry.source # source

Insert(x) ==
  /\ poster[x].at = "insert"
  /\ SourceFree(poster[x].entry.source)
  /\ poster' = [poster EXCEPT ![x].at = "commit"]
  /\ UNCHANGED entries

\* The lines, the audit row and the event follow; the transaction ends.
Commit(x) ==
  /\ poster[x].at = "commit"
  /\ entries' = entries \cup {poster[x].entry}
  /\ poster' = [poster EXCEPT ![x] = Idle]

\* The insert is refused, a statement fails or the connection is lost.
RollBack(x) ==
  /\ poster[x] # Idle
  /\ poster' = [poster EXCEPT ![x] = Idle]
  /\ UNCHANGED entries

Next ==
  \E x \in Posters :
    \/ \E k \in JournalKeys :
         \/ \E source \in {k} \cup Settlements : Prepare(x, k, source)
         \/ \E reversed \in JournalKeys \cup Settlements : PrepareReversal(x, k, reversed)
    \/ Insert(x)
    \/ Commit(x)
    \/ RollBack(x)

Spec == Init /\ [][Next]_vars

-----------------------------------------------------------------------------
(* Properties *)

AllEntries == [key : JournalKeys, source : JournalKeys \cup Settlements, reversalOf : JournalKeys \cup Settlements \cup {None}]

TypeOK ==
  /\ entries \subseteq AllEntries
  /\ poster \in [Posters -> {Idle} \cup [at : {"insert", "commit"}, entry : AllEntries]]

\* An event has one entry at most, whoever posts it: a manual entry may take
\* the event of a settlement, which then cannot be posted any more, but the
\* two are never both on the books.
SourcePostedOnce == \A e, f \in entries : e.source = f.source => e = f

\* An entry is not reversed by every command that asks for it: no more often
\* than such commands can overlap (nothing keeps those apart), however many
\* keys they come with.
ReversedInOverlapOnly ==
  \A s \in Sources : Cardinality({e \in entries : e.reversalOf = s}) <= Cardinality(Posters)
=============================================================================
