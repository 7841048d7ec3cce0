------------------------------- MODULE AdaDrafts -------------------------------
(***************************************************************************)
(* BusinessClientAdaModule.tsx: the page of the business user's accounts   *)
(* and rails.  What a save could not bring to the server is kept as a      *)
(* draft in the browser's localStorage; "retry" reads the drafts, carries  *)
(* them out one after the other and writes back those that failed.  Saves  *)
(* and retries run side by side on the page, and the page may be closed.   *)
(*                                                                         *)
(* An item is what the user saves at one time.  The server carries it out  *)
(* or refuses it, and its answer may be lost.  The order of the drafts is  *)
(* left out, and a load that the page itself begins is merged with one     *)
(* that is under way.                                                      *)
(***************************************************************************)
EXTENDS Naturals

CONSTANTS
  Items,    \* what the user saves
  Rails,    \* those that are new rails: they need an account
  Retries,  \* retries in progress at a time
  MaxTimes  \* bound on how often the server carries an item out

DraftsAssumption == Rails \subseteq Items /\ MaxTimes \in Nat \ {0}

VARIABLES
  open,      \* the page is open
  known,     \* state `accounts' is not empty
  captured,  \* ... and was not when retryDrafts was made
  reload,    \* a load by the page itself is under way
  drafts,    \* localStorage
  save,      \* runAction of an item
  retry,     \* retryDrafts in progress
  times,     \* how often the server carried an item out
  unsure     \* items whose answer was lost, or that two retries had, or that
             \* a retry had when the page was closed

vars == <<open, known, captured, reload, drafts, save, retry, times, unsure>>

Idle == [at |-> "idle"]
HasAccount == \E i \in Items \ Rails : times[i] > 0

Init ==
  /\ open = FALSE /\ known = FALSE /\ captured = FALSE /\ reload = FALSE
  /\ drafts = {}
  /\ save = [i \in Items |-> "unsaved"]
  /\ retry = [t \in Retries |-> Idle]
  /\ times = [i \in Items |-> 0]
  /\ unsure = {}

-----------------------------------------------------------------------------
\* readDrafts at the start of retryDrafts: without drafts it returns.
Begins(t) ==
  /\ retry[t] = Idle
  /\ retry' = [retry EXCEPT ![t] =
       IF drafts = {} THEN Idle
       ELSE [at |-> "next", read |-> drafts, todo |-> drafts, remaining |-> {}]]
  /\ unsure' = unsure \cup
       UNION {drafts \cap retry[u].read : u \in {v \in Retries : retry[v] # Idle}}

\* The effects of the first render: a load, and a retry that knows no accounts.
Open(t) ==
  /\ ~open
  /\ open' = TRUE /\ known' = FALSE /\ captured' = FALSE /\ reload' = TRUE
  /\ Begins(t)
  /\ UNCHANGED <<drafts, save, times>>

\* loadLiveData and retryDrafts are made anew, and run, when the token changes.
TokenChanges(t) ==
  /\ open
  /\ captured' = known /\ reload' = TRUE
  /\ Begins(t)
  /\ UNCHANGED <<open, known, drafts, save, times>>

RetryDrafts(t) ==
  /\ open
  /\ Begins(t)
  /\ UNCHANGED <<open, known, captured, reload, drafts, save, times>>

\* What ran on the page ends; what it sent has arrived.
Close ==
  /\ open
  /\ open' = FALSE /\ reload' = FALSE
  /\ save' = [i \in Items |-> IF save[i] = "unsaved" THEN "unsaved" ELSE "ended"]
  /\ retry' = [t \in Retries |-> Idle]
  /\ unsure' = unsure \cup UNION {retry[t].read : t \in {u \in Retries : retry[u] # Idle}}
  /\ UNCHANGED <<known, captured, drafts, times>>

\* loadLiveData: a failure leaves no accounts.
Loads == known' \in {HasAccount, FALSE}
Reloaded ==
  /\ reload
  /\ reload' = FALSE
  /\ Loads
  /\ UNCHANGED <<open, captured, drafts, save, retry, times, unsure>>

\* The server's part of handleSave...: carried out, refused, or carried out
\* with an answer that does not come.
Carries(i, answer) ==
  \/ answer = "ok" /\ times[i] < MaxTimes /\ times' = [times EXCEPT ![i] = @ + 1] /\ UNCHANGED unsure
  \/ answer = "error" /\ UNCHANGED <<times, unsure>>
  \/ /\ answer = "error"
     /\ times[i] < MaxTimes /\ times' = [times EXCEPT ![i] = @ + 1]
     /\ unsure' = unsure \cup {i}

-----------------------------------------------------------------------------
\* runAction: "No ADA account available" is thrown before anything is sent.
Save(i) ==
  /\ open
  /\ save[i] = "unsaved"
  /\ IF i \in Rails /\ ~known
     THEN /\ save' = [save EXCEPT ![i] = "ended"]
          /\ drafts' = drafts \cup {i}
          /\ UNCHANGED <<times, unsure>>
     ELSE /\ \E answer \in {"ok", "error"} :
               Carries(i, answer) /\ save' = [save EXCEPT ![i] = answer]
          /\ UNCHANGED drafts
  /\ UNCHANGED <<open, known, captured, reload, retry>>

EnqueueDraft(i) ==
  /\ save[i] = "error"
  /\ save' = [save EXCEPT ![i] = "ended"]
  /\ drafts' = drafts \cup {i}
  /\ UNCHANGED <<open, known, captured, reload, retry, times, unsure>>

LoadAfterSave(i) ==
  /\ save[i] = "ok"
  /\ save' = [save EXCEPT ![i] = "ended"]
  /\ Loads
  /\ UNCHANGED <<open, captured, reload, drafts, retry, times, unsure>>

-----------------------------------------------------------------------------
\* retryDrafts, one draft after the other.  Mutant: a failure is forgotten.
Forgotten(remaining, i) == remaining
StillThere(remaining, i) == remaining \cup {i}

ExecuteDraft(t, i) ==
  /\ retry[t].at = "next"
  /\ i \in retry[t].todo
  /\ IF i \in Rails /\ ~captured
     THEN /\ retry' = [retry EXCEPT ![t].todo = @ \ {i},
                                    ![t].remaining = StillThere(@, i)]
          /\ UNCHANGED <<times, unsure>>
     ELSE \E answer \in {"ok", "error"} :
            /\ Carries(i, answer)
            /\ retry' = [retry EXCEPT ![t].todo = @ \ {i}, ![t].at = answer,
                 ![t].remaining = IF answer = "error" THEN StillThere(@, i) ELSE @]
  /\ UNCHANGED <<open, known, captured, reload, drafts, save>>

\* The answer; a draft that was carried out is followed by a load.
Answered(t) ==
  /\ \/ retry[t].at = "error" /\ UNCHANGED known
     \/ retry[t].at = "ok" /\ Loads
  /\ retry' = [retry EXCEPT ![t].at = "next"]
  /\ UNCHANGED <<open, captured, reload, drafts, save, times, unsure>>

\* Mutant: all that were read are written back.
AllRead(t) == retry[t].read
WrittenBack(t) == retry[t].remaining

WriteDrafts(t) ==
  /\ retry[t].at = "next" /\ retry[t].todo = {}
  /\ drafts' = WrittenBack(t)
  /\ retry' = [retry EXCEPT ![t] = Idle]
  /\ reload' = (reload \/ retry[t].remaining # retry[t].read)
  /\ UNCHANGED <<open, known, captured, save, times, unsure>>

Next ==
  \/ \E t \in Retries : \/ Open(t) \/ TokenChanges(t) \/ RetryDrafts(t)
                        \/ \E i \in Items : ExecuteDraft(t, i)
                        \/ Answered(t) \/ WriteDrafts(t)
  \/ Close \/ Reloaded
  \/ \E i \in Items : Save(i) \/ EnqueueDraft(i) \/ LoadAfterSave(i)

Spec == Init /\ [][Next]_vars

-----------------------------------------------------------------------------
(* Properties *)

TypeOK ==
  /\ {open, known, captured, reload} \subseteq BOOLEAN
  /\ drafts \subseteq Items /\ unsure \subseteq Items
  /\ save \in [Items -> {"unsaved", "ok", "error", "ended"}]
  /\ times \in [Items -> 0 .. MaxTimes]

\* "Saved as draft for retry.": a draft that the server never carried out goes
\* only when a retry that had read the drafts before it was there writes back.
DraftsAreRetried ==
  [][\A i \in drafts \ drafts' :
       times[i] > 0 \/ \E t \in Retries : retry'[t] = Idle /\ retry[t] # Idle /\ i \notin retry[t].read]_vars

\* "recovered": what has been carried out, and answered, is not carried out
\* again, unless two retries had it at a time or the page was closed on one.
CarriedOutOnce == \A i \in Items : times[i] > 1 => i \in unsure
=============================================================================
