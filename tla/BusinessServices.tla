---------------------------- MODULE BusinessServices ----------------------------
(***************************************************************************)
(* What the platform does for one business user, side by side: the         *)
(* onboarding application, the sign-in session and the drafts that the     *)
(* user's browser keeps.  They share nothing in what is modelled of them,  *)
(* so each run of this specification is a run of one of them, while the    *)
(* others stay as they begin.                                              *)
(***************************************************************************)
EXTENDS Naturals

CONSTANTS
  Ids, Requests, DatabaseAway,       \* BusinessOnboarding
  Servers, SessionCalls, MaxTokens,  \* BusinessSessions
  Items, Rails, Retries, MaxTimes    \* AdaDrafts

VARIABLES
  part,  \* the component that runs
  application, client, openTasks, reviews, runtimeCopy, visit,
  row, cached, index, provider, issued, turn,
  open, known, captured, reload, drafts, save, retry, times, unsure

Onboarding == INSTANCE BusinessOnboarding
Sessions == INSTANCE BusinessSessions
Drafts == INSTANCE AdaDrafts

ASSUME OnboardingAssumption == Onboarding!DatabaseAwayBool
ASSUME SessionsKnown == Sessions!SessionsAssumption
ASSUME DraftsKnown == Drafts!DraftsAssumption

onboardingVars == <<application, client, openTasks, reviews, runtimeCopy, visit>>
sessionVars == <<row, cached, index, provider, issued, turn>>
draftVars == <<open, known, captured, reload, drafts, save, retry, times, unsure>>
vars == <<part, onboardingVars, sessionVars, draftVars>>

Init ==
  /\ part \in {"onboarding", "sessions", "drafts"}
  /\ Onboarding!Init /\ Sessions!Init /\ Drafts!Init

OnboardingStep ==
  part = "onboarding" /\ Onboarding!Next /\ UNCHANGED <<part, sessionVars, draftVars>>
SessionStep ==
  part = "sessions" /\ Sessions!Next /\ UNCHANGED <<part, onboardingVars, draftVars>>
DraftStep ==
  part = "drafts" /\ Drafts!Next /\ UNCHANGED <<part, onboardingVars, sessionVars>>

Next == OnboardingStep \/ SessionStep \/ DraftStep

Spec == Init /\ [][Next]_vars

-----------------------------------------------------------------------------
(* The properties; the conjuncts are stated, and say what they mean, in the *)
(* modules of the components.                                               *)

Types ==
  /\ part = "onboarding" => Onboarding!TypeOK
  /\ part = "sessions" => Sessions!TypeOK
  /\ part = "drafts" => Drafts!TypeOK

\* self-registration.ts, business-onboarding-review-store.ts: stale copies that
\* are written back never invent a decision, the client approved is the
\* application's, no decision is without the client it needs, and a process
\* accepts the tokens of its session only.  BusinessClientAdaModule.tsx: a draft
\* that was carried out is not carried out again, but for a lost answer, a closed
\* page or two retries at a time.
CopiesKeepTheirWord ==
  /\ Types
  /\ Onboarding!DecisionsAreOnRecord
  /\ Onboarding!ApprovedClientIsTheApplications
  /\ Onboarding!DecidedHasClient
  /\ Sessions!IndexFollowsSession
  /\ Drafts!CarriedOutOnce

\* self-registration.ts: a revoked session that nobody holds does not come back.
\* BusinessClientAdaModule.tsx: a draft that nobody carried out is not lost, but to
\* a retry that began before it was there.
GoneStaysGone == Sessions!GoneStaysGone /\ Drafts!DraftsAreRetried
=============================================================================
