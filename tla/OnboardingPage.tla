--------------------------- MODULE OnboardingPage ---------------------------
(***************************************************************************)
(* features/onboarding of the web client, in one tab, on top of the        *)
(* server of module Onboarding.  The page sends one message, one document  *)
(* and one finalisation at a time, and shows the summary it fetched last;  *)
(* the session's id and secret outlive a reload, what it waits for does    *)
(* not, so requests overlap after a reload or a lost connection.           *)
(***************************************************************************)
EXTENDS Onboarding

CONSTANTS NoRequest, MaxLosses

ASSUME PageAssumption == NoRequest \notin Requests /\ MaxLosses \in Nat

VARIABLES
  waiting,  \* waiting[k]: the request of kind k whose answer the page waits for
  shown,    \* status and draft of the summary on the screen
  done,     \* the tenant shown as made; the stored session is cleared then
  losses    \* reloads and lost connections so far: a bound of the model

pageVars == <<waiting, shown, done, losses>>
allVars == <<vars, pageVars>>

Kinds == {"message", "upload", "final"}
OfKind(k) == CASE k = "message" -> Messages [] k = "upload" -> Uploads [] k = "final" -> Finals

PageTypeOK ==
  /\ TypeOK
  /\ waiting \in [Kinds -> Requests \cup {NoRequest}]
  /\ shown \in [status : Status \cup {"none"}, draft : SUBSET Facts]
  /\ done \in Finals \cup {NoTenant}
  /\ losses \in 0 .. MaxLosses

PageInit ==
  /\ Init
  /\ waiting = [k \in Kinds |-> NoRequest]
  /\ shown = [status |-> "none", draft |-> {}]
  /\ done = NoTenant /\ losses = 0

(* The card that finalises is there when the summary says so; the chat and *)
(* the upload are there until it says FINALIZED.                           *)
Offered(k) ==
  IF k = "final" THEN shown.status = "READY_TO_FINALIZE"
                 ELSE shown.status # "FINALIZED"

Submit(k, r) ==
  /\ r \in OfKind(k)
  /\ done = NoTenant /\ Offered(k) /\ waiting[k] = NoRequest
  /\ Begin(r)
  /\ waiting' = [waiting EXCEPT ![k] = r]
  /\ UNCHANGED <<shown, done, losses>>

(* mutant: any answer of the server is shown as success *)
MSucceeded(f) == f \in Finals

Succeeded(f) == f \in Finals /\ reply[f] = "ok"

(* An answer is heard; a finalisation that succeeded clears the store. *)
Hear(k) ==
  /\ waiting[k] # NoRequest /\ pc[waiting[k]] = "ended"
  /\ waiting' = [waiting EXCEPT ![k] = NoRequest]
  /\ done' = IF Succeeded(waiting[k]) THEN waiting[k] ELSE done
  /\ UNCHANGED <<vars, shown, losses>>

(* The connection is lost while the server goes on: an error is shown. *)
LoseAnswer(k) ==
  /\ losses < MaxLosses /\ losses' = losses + 1
  /\ waiting[k] # NoRequest /\ pc[waiting[k]] # "ended"
  /\ waiting' = [waiting EXCEPT ![k] = NoRequest]
  /\ UNCHANGED <<vars, shown, done>>

Reload ==
  /\ losses < MaxLosses /\ losses' = losses + 1
  /\ done = NoTenant
  /\ waiting' = [k \in Kinds |-> NoRequest]
  /\ shown' = [status |-> "none", draft |-> {}]
  /\ UNCHANGED <<vars, done>>

(* getSessionSummary: refused for an expired session, and what was shown stays *)
Refresh ==
  /\ done = NoTenant /\ Alive
  /\ shown' = [status |-> session.status, draft |-> session.draft]
  /\ UNCHANGED <<vars, waiting, done, losses>>

Page ==
  \/ \E k \in Kinds : \E r \in OfKind(k) : Submit(k, r)
  \/ \E k \in Kinds : Hear(k)
  \/ \E k \in Kinds : LoseAnswer(k)
  \/ Reload
  \/ Refresh

PageNext == Page \/ (Server /\ UNCHANGED pageVars)

PageSpec == PageInit /\ [][PageNext]_allVars

-----------------------------------------------------------------------------
(* What the page shows is never taken back: facts on the screen are in the *)
(* session, a session shown as ready is never chatted with again, and a    *)
(* tenant shown as made exists.                                            *)
ShownIsKept ==
  /\ PageTypeOK
  /\ shown.draft \subseteq session.draft
  /\ shown.status = "READY_TO_FINALIZE" => session.status # "IN_PROGRESS"
  /\ done # NoTenant => done \in tenants

(* Neither what was answered nor what is shown is ever taken back.         *)
NothingIsTakenBack == AnsweredIsKept /\ ShownIsKept
=============================================================================
