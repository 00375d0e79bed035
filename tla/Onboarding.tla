----------------------------- MODULE Onboarding -----------------------------
(***************************************************************************)
(* modules/onboarding: one session of the anonymous chat that sets up a    *)
(* business.  Messages, uploads of documents and finalisations of the      *)
(* session run at once.  Each statement on the session row is one action;  *)
(* what a request read before is in seen, and a conditional update that    *)
(* matches no row says so.  A draft is the set of facts recorded so far.   *)
(***************************************************************************)
EXTENDS Integers, FiniteSets

CONSTANTS
  Messages, Uploads, Finals,  \* requests, each made once
  Facts,      \* what the chat can record; Required must be there to finalise
  Required,
  MaxCalls,   \* ONBOARDING_MAX_LLM_CALLS_PER_SESSION
  MaxTurns,   \* MAX_TOOL_ITERATIONS
  MaxDocs,    \* MAX_DOCUMENTS_PER_TYPE
  MaxNames,   \* candidates for a subdomain, of which Others are taken
  Others,
  NoTenant

ASSUME OnboardingAssumption ==
  /\ Messages \cap Uploads = {} /\ Messages \cap Finals = {} /\ Uploads \cap Finals = {}
  /\ Required \subseteq Facts
  /\ MaxCalls \in Nat /\ MaxTurns \in Nat \ {0} /\ MaxDocs \in Nat
  /\ MaxNames \in Nat /\ Others \subseteq 0 .. MaxNames
  /\ NoTenant \notin Finals

VARIABLES
  session,   \* the row
  docs,      \* documents stored, each named by its upload
  tenants,   \* tenants created, each named by its finalisation
  name,      \* name[f]: the subdomain finalisation f picked
  taken,     \* subdomains of all tenants
  pc,        \* pc[r]: where request r is
  turn,      \* turn[m]: what message m read, reserved, used and recorded
  reply,     \* reply[f]: ok, refused (any 4xx) or failed (nobody knows)
  calls,     \* LLM calls that were answered, in the whole session
  promised,  \* facts of the messages answered with 200
  together   \* pairs of rivals that were in progress at once

tenantVars == <<tenants, name, taken>>
history == <<calls, promised, together>>
vars == <<session, docs, tenantVars, pc, turn, reply, history>>

Requests == Messages \cup Uploads \cup Finals
Names == 0 .. MaxNames
Status == {"IN_PROGRESS", "READY_TO_FINALIZE", "FINALIZED"}
Session == [status : Status, version : Nat, llmCallCount : Int, draft : SUBSET Facts,
            expires : {"later", "past"}, tenant : Finals \cup {NoTenant}]
Turn == [seen : Nat, budget : Nat, used : Nat, facts : SUBSET Facts, ready : {"no", "yes"}]
NoTurn == [seen |-> 0, budget |-> 0, used |-> 0, facts |-> {}, ready |-> "no"]

(* Requests whose overlap matters: they check what the other changes. *)
Rivals(r, s) ==
  \/ r \in Uploads /\ s \in Messages \cup Uploads
  \/ s \in Uploads /\ r \in Messages
  \/ r \in Finals /\ s \in Finals
Alive == session.expires = "later"
InProgress(r) == pc[r] \notin {"new", "ended"}

TypeOK ==
  /\ session \in Session
  /\ docs \subseteq Uploads /\ tenants \subseteq Finals
  /\ name \in [Finals -> Names] /\ taken \subseteq Names
  /\ pc \in [Requests -> {"new", "sent", "read", "chatting", "answered", "failing", "counted",
                          "reserved", "named", "created", "ended"}]
  /\ turn \in [Messages -> Turn]
  /\ reply \in [Finals -> {"none", "ok", "refused", "failed"}]
  /\ calls \in Nat /\ promised \subseteq Facts /\ together \subseteq SUBSET Requests

(* start *)
Init ==
  /\ session = [status |-> "IN_PROGRESS", version |-> 0, llmCallCount |-> 0, draft |-> {},
                expires |-> "later", tenant |-> NoTenant]
  /\ docs = {} /\ tenants = {} /\ name = [f \in Finals |-> 0] /\ taken = Others
  /\ pc = [r \in Requests |-> "new"] /\ turn = [m \in Messages |-> NoTurn]
  /\ reply = [f \in Finals |-> "none"]
  /\ calls = 0 /\ promised = {} /\ together = {}

(* A request that is refused ends; which 4xx it is answered is left out. *)
Goto(r, l) == pc' = [pc EXCEPT ![r] = l] /\ UNCHANGED reply
End(r) == Goto(r, "ended")
EndTurn(m) == End(m) /\ turn' = [turn EXCEPT ![m] = NoTurn]
EndFinal(f, x) == pc' = [pc EXCEPT ![f] = "ended"] /\ reply' = [reply EXCEPT ![f] = x]

(* The caller's request reaches the server. *)
Begin(r) ==
  /\ pc[r] = "new"
  /\ Goto(r, "sent")
  /\ together' = together \cup {{r, s} : s \in {s \in Requests : InProgress(s) /\ Rivals(r, s)}}
  /\ UNCHANGED <<session, docs, tenantVars, turn, calls, promised>>

(* A statement of r fails, or its process dies: nothing more of r happens. *)
Fail(r) ==
  /\ InProgress(r)
  /\ IF r \in Finals THEN EndFinal(r, "failed") ELSE End(r)
  /\ turn' = [m \in Messages |-> IF m = r THEN NoTurn ELSE turn[m]]
  /\ UNCHANGED <<session, docs, tenantVars, history>>

(* The time to live of the session runs out. *)
Expire ==
  /\ Alive
  /\ session' = [session EXCEPT !.expires = "past"]
  /\ UNCHANGED <<docs, tenantVars, pc, turn, reply, history>>

-----------------------------------------------------------------------------
(* sendMessage *)

Remaining == MaxCalls - session.llmCallCount
MayChat == Alive /\ session.status = "IN_PROGRESS" /\ Remaining > 0
Least(a, b) == IF a < b THEN a ELSE b

MessageReads(m) ==
  /\ pc[m] = "sent"
  /\ \/ ~MayChat /\ EndTurn(m)
     \/ /\ MayChat
        /\ turn' = [turn EXCEPT ![m] =
                      [seen |-> session.version, budget |-> Least(MaxTurns, Remaining), used |-> 0,
                       facts |-> session.draft, ready |-> "no"]]
        /\ Goto(m, "read")
  /\ UNCHANGED <<session, docs, tenantVars, history>>

Reservable(m) == session.version = turn[m].seen /\ session.status = "IN_PROGRESS"

MessageReserves(m) ==
  /\ pc[m] = "read"
  /\ \/ /\ Reservable(m)
        /\ session' = [session EXCEPT !.version = @ + 1, !.llmCallCount = @ + turn[m].budget]
        /\ Goto(m, "chatting") /\ UNCHANGED turn
     \/ ~Reservable(m) /\ EndTurn(m) /\ UNCHANGED session
  /\ UNCHANGED <<docs, tenantVars, history>>

(* complete and continueWithToolResults: one call, and the tools the model *)
(* called; a call of a tool that is refused records nothing.               *)
MessageCalls(m) ==
  /\ pc[m] = "chatting"
  /\ calls' = calls + 1
  /\ \/ turn' = [turn EXCEPT ![m].used = @ + 1] /\ Goto(m, "answered")
     \/ \E new \in SUBSET Facts, ready \in {turn[m].ready, "yes"} :
          /\ turn' = [turn EXCEPT ![m].used = @ + 1, ![m].facts = @ \cup new,
                                  ![m].ready = ready]
          /\ Goto(m, IF turn[m].used + 1 >= turn[m].budget THEN "answered" ELSE "chatting")
  /\ UNCHANGED <<session, docs, tenantVars, promised, together>>

MessageCallFails(m) ==
  /\ pc[m] = "chatting"
  /\ Goto(m, "failing")
  /\ UNCHANGED <<session, docs, tenantVars, turn, history>>

(* mutants: the whole budget is given back; the version is not tested *)
MUnused(m) == turn[m].budget
MOwns(m) == TRUE

Unused(m) == turn[m].budget - turn[m].used
Owns(m) == session.version = turn[m].seen + 1

(* releaseReservation: whether a row matched is not looked at *)
MessageReleases(m) ==
  /\ pc[m] = "failing"
  /\ session' = IF Owns(m)
                THEN [session EXCEPT !.version = @ + 1, !.llmCallCount = @ - Unused(m)]
                ELSE session
  /\ EndTurn(m)
  /\ UNCHANGED <<docs, tenantVars, history>>

MessageWrites(m) ==
  /\ pc[m] = "answered"
  /\ \/ /\ Owns(m)
        /\ session' = [session EXCEPT !.version = @ + 1, !.llmCallCount = @ - Unused(m),
                         !.draft = turn[m].facts,
                         !.status = IF turn[m].ready = "yes" THEN "READY_TO_FINALIZE" ELSE @]
        /\ promised' = promised \cup turn[m].facts
        /\ EndTurn(m)
     \/ ~Owns(m) /\ EndTurn(m) /\ UNCHANGED <<session, promised>>
  /\ UNCHANGED <<docs, tenantVars, calls, together>>

-----------------------------------------------------------------------------
(* uploadDocument and processUploadedDocument *)

(* The session is validated and the documents are counted, in one step: no *)
(* other request can make a difference between the two reads.              *)
UploadReads(u) ==
  /\ pc[u] = "sent"
  /\ IF ~Alive \/ Cardinality(docs) >= MaxDocs THEN End(u) ELSE Goto(u, "counted")
  /\ UNCHANGED <<session, docs, tenantVars, turn, history>>

UploadReserves(u) ==
  /\ pc[u] = "counted"
  /\ \/ /\ session.llmCallCount < MaxCalls
        /\ session' = [session EXCEPT !.llmCallCount = @ + 1]
        /\ Goto(u, "reserved")
     \/ session.llmCallCount >= MaxCalls /\ End(u) /\ UNCHANGED session
  /\ UNCHANGED <<docs, tenantVars, turn, history>>

(* The text cannot be read; or it is, the call answers or not, and the     *)
(* document is stored either way.                                          *)
UploadStores(u) ==
  /\ pc[u] = "reserved"
  /\ \/ End(u) /\ UNCHANGED <<docs, calls>>
     \/ /\ docs' = docs \cup {u}
        /\ calls' \in {calls, calls + 1}
        /\ End(u)
  /\ UNCHANGED <<session, tenantVars, turn, promised, together>>

-----------------------------------------------------------------------------
(* finalize.  A finalised session has expired, so the test of FINALIZED    *)
(* that follows validateSession never answers.                             *)

FinalReads(f) ==
  /\ pc[f] = "sent"
  /\ IF Alive /\ session.status = "READY_TO_FINALIZE" /\ Required \subseteq session.draft
     THEN Goto(f, "read")
     ELSE EndFinal(f, "refused")
  /\ UNCHANGED <<session, docs, tenantVars, turn, history>>

(* generateUniqueSubdomain: the first candidate no tenant has *)
Candidates == {n \in Names : n < MaxNames /\ n \notin taken}

FinalNames(f) ==
  /\ pc[f] = "read"
  /\ \/ Candidates = {} /\ EndFinal(f, "refused") /\ UNCHANGED name
     \/ \E n \in Candidates :
          /\ \A k \in Candidates : n <= k
          /\ name' = [name EXCEPT ![f] = n]
          /\ Goto(f, "named")
  /\ UNCHANGED <<session, docs, tenants, taken, turn, history>>

TakenByOther(f) == name[f] \in taken

(* createTenantGraph: one transaction, the subdomain is unique *)
FinalCreates(f) ==
  /\ pc[f] = "named"
  /\ \/ /\ ~TakenByOther(f)
        /\ tenants' = tenants \cup {f} /\ taken' = taken \cup {name[f]}
        /\ Goto(f, "created")
     \/ TakenByOther(f) /\ EndFinal(f, "refused") /\ UNCHANGED <<tenants, taken>>
  /\ UNCHANGED <<session, docs, name, turn, history>>

(* mutants: the session stays as it is; the status is not tested *)
MClosed(f) == session
MClosable == TRUE

Closed(f) == [session EXCEPT !.status = "FINALIZED", !.tenant = f, !.expires = "past",
                             !.version = @ + 1]
Closable == session.status = "READY_TO_FINALIZE"

(* computeSuggestedMarkup only reads; the count of the update is ignored *)
FinalCloses(f) ==
  /\ pc[f] = "created"
  /\ session' = IF Closable THEN Closed(f) ELSE session
  /\ EndFinal(f, "ok")
  /\ UNCHANGED <<docs, tenantVars, turn, history>>

-----------------------------------------------------------------------------
MessageStep(m) ==
  \/ MessageReads(m) \/ MessageReserves(m) \/ MessageCalls(m) \/ MessageCallFails(m)
  \/ MessageReleases(m) \/ MessageWrites(m)
UploadStep(u) == UploadReads(u) \/ UploadReserves(u) \/ UploadStores(u)
FinalStep(f) == FinalReads(f) \/ FinalNames(f) \/ FinalCreates(f) \/ FinalCloses(f)

Server ==
  \/ Expire
  \/ \E r \in Requests : Fail(r)
  \/ \E m \in Messages : MessageStep(m)
  \/ \E u \in Uploads : UploadStep(u)
  \/ \E f \in Finals : FinalStep(f)

Next == Server \/ \E r \in Requests : Begin(r)

Spec == Init /\ [][Next]_vars

-----------------------------------------------------------------------------
(* Every call the model answered is paid for by the session's counter: a   *)
(* refund never gives back a call that was made, whoever took the session  *)
(* over meanwhile.  The counter passes the limit only by uploads that ran  *)
(* beside a message, which checks the limit before it reserves and with    *)
(* the counter it read.  More documents than the limit are stored only by  *)
(* uploads that ran at once.                                               *)
Overlapping(r, S) == \E s \in S \ {r} : {r, s} \in together
BudgetIsKept ==
  /\ session.llmCallCount >= calls
  /\ session.llmCallCount <= MaxCalls + Cardinality({u \in Uploads : Overlapping(u, Messages)})
  /\ Cardinality(docs) > MaxDocs => \E u \in docs : Overlapping(u, docs)

(* A message answered with 200 has its facts in the session: no later or   *)
(* concurrent turn overwrites them.                                        *)
AnsweredIsKept == promised \subseteq session.draft

(* A session makes two tenants only if two finalisations ran at once or    *)
(* one failed after it had created its tenant; and a caller who is told of *)
(* a tenant is told of the session's, unless finalisations ran at once.    *)
OneTenant ==
  /\ \A f, g \in tenants : f # g => \/ {f, g} \in together
                                    \/ "failed" \in {reply[f], reply[g]}
  /\ \A f, g \in tenants : f # g => name[f] # name[g]
  /\ \A f \in Finals : reply[f] = "ok" => \/ session.tenant = f
                                          \/ Overlapping(f, Finals)

(* Nothing of a finalised session changes, whatever was in flight, but the *)
(* counter of calls.                                                       *)
FinalIsFinal ==
  [][session.status = "FINALIZED" =>
       session' = [session EXCEPT !.llmCallCount = session'.llmCallCount]]_vars

=============================================================================
