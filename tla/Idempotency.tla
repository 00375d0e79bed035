----------------------------- MODULE Idempotency -----------------------------
(***************************************************************************)
(* common/interceptors/idempotency.interceptor.ts: requests that carry an  *)
(* Idempotency-Key.  A request claims its key by inserting a row; whoever  *)
(* meets the unique index reads that row and is refused or answered from   *)
(* it.  The claimer runs the handler, answers, and only then, not awaited, *)
(* stores the answer or deletes the claim.  A key stands here for the      *)
(* triple (tenant, key, endpoint), a body for its hash.                    *)
(***************************************************************************)
CONSTANTS
  Keys, Bodies,
  Requests,   \* HTTP requests, retries included
  KeyOf,      \* KeyOf[r]: the key request r carries
  Body,       \* Body[r]: its body
  Faults,     \* subset of {"crash", "db", "store", "late"}
  NoRow, Nothing, Busy, Mismatch, Error

ASSUME IdempotencyAssumption ==
  /\ KeyOf \in [Requests -> Keys]
  /\ Body \in [Requests -> Bodies]
  /\ NoRow \notin Bodies
  /\ {Nothing, Busy, Mismatch, Error} \cap Requests = {}

VARIABLES
  hash,     \* hash[k]: requestHash of the row of k, or NoRow
  answer,   \* answer[k]: the request whose response the row stores, or Nothing
  pc,       \* pc[r]: where request r is
  reply,    \* reply[r]: what its client received; a request stands for the
            \* response of that request's handler
  did,      \* history: requests whose handler has committed its effect
  hit       \* history: requests that a crash or a failing statement has hit

vars == <<hash, answer, pc, reply, did, hit>>

Replies == Requests \cup {Nothing, Busy, Mismatch, Error}

TypeOK ==
  /\ hash \in [Keys -> Bodies \cup {NoRow}]
  /\ answer \in [Keys -> Requests \cup {Nothing}]
  /\ pc \in [Requests -> {"new", "reading", "handling", "storing", "releasing", "ended"}]
  /\ reply \in [Requests -> Replies]
  /\ did \subseteq Requests
  /\ hit \subseteq Requests

Init ==
  /\ hash = [k \in Keys |-> NoRow]
  /\ answer = [k \in Keys |-> Nothing]
  /\ pc = [r \in Requests |-> "new"]
  /\ reply = [r \in Requests |-> Nothing]
  /\ did = {}
  /\ hit = {}

Goto(r, l) == pc' = [pc EXCEPT ![r] = l]
Respond(r, x) == reply' = [reply EXCEPT ![r] = x]
End(r, x) == Goto(r, "ended") /\ Respond(r, x)

-----------------------------------------------------------------------------
(* claim *)

(* mutant: the row is read first and upserted afterwards *)
MUpsert(r) ==
  /\ hash' = [hash EXCEPT ![KeyOf[r]] = Body[r]]
  /\ answer' = [answer EXCEPT ![KeyOf[r]] = Nothing]

InsertRow(r) ==
  /\ hash[KeyOf[r]] = NoRow
  /\ hash' = [hash EXCEPT ![KeyOf[r]] = Body[r]]
  /\ answer' = [answer EXCEPT ![KeyOf[r]] = Nothing]

Claim(r) ==
  /\ pc[r] = "new"
  /\ InsertRow(r)
  /\ Goto(r, "handling")
  /\ UNCHANGED <<reply, did, hit>>

(* P2002: somebody was first *)
ClaimTaken(r) ==
  /\ pc[r] = "new" /\ hash[KeyOf[r]] # NoRow
  /\ Goto(r, "reading")
  /\ UNCHANGED <<hash, answer, reply, did, hit>>

(* Another error, before the row is committed or when it already is. *)
ClaimFails(r) ==
  /\ "db" \in Faults /\ pc[r] = "new"
  /\ InsertRow(r) \/ UNCHANGED <<hash, answer>>
  /\ End(r, Error)
  /\ hit' = hit \cup {r}
  /\ UNCHANGED did

(* What findFirst and the three tests after it make of the row of k. *)
Verdict(k, b) ==
  CASE hash[k] = NoRow     -> Busy        \* deleted in between
    [] hash[k] \notin {b, NoRow} -> Mismatch
    [] hash[k] = b         -> IF answer[k] = Nothing THEN Busy ELSE answer[k]

Read(r) ==
  /\ pc[r] = "reading"
  /\ End(r, Verdict(KeyOf[r], Body[r]))
  /\ UNCHANGED <<hash, answer, did, hit>>

ReadFails(r) ==
  /\ "db" \in Faults /\ pc[r] = "reading"
  /\ End(r, Error)
  /\ hit' = hit \cup {r}
  /\ UNCHANGED <<hash, answer, did>>

-----------------------------------------------------------------------------
(* The handler, and what the tap does after it. *)

Handle(r) ==
  /\ pc[r] = "handling"
  /\ did' = did \cup {r}
  /\ Respond(r, r)
  /\ Goto(r, "storing")
  /\ UNCHANGED <<hash, answer, hit>>

(* mutant: the claim is kept when the handler throws *)
MHandlerFails(r) ==
  /\ pc[r] = "handling"
  /\ End(r, Error)
  /\ UNCHANGED <<hash, answer, did, hit>>

(* The handler throws: before it has committed anything, or ("late") after. *)
HandlerFails(r) ==
  /\ pc[r] = "handling"
  /\ did' = did \/ ("late" \in Faults /\ did' = did \cup {r})
  /\ Respond(r, Error)
  /\ Goto(r, "releasing")
  /\ UNCHANGED <<hash, answer, hit>>

(* mutant: only a row that has an answer already is updated *)
MStore(r) ==
  /\ pc[r] = "storing"
  /\ answer' = [answer EXCEPT ![KeyOf[r]] = IF @ = Nothing THEN @ ELSE r]
  /\ Goto(r, "ended")
  /\ UNCHANGED <<hash, reply, did, hit>>

(* updateMany: no error when the row is gone *)
Store(r) ==
  /\ pc[r] = "storing"
  /\ answer' = [answer EXCEPT ![KeyOf[r]] = IF hash[KeyOf[r]] = NoRow THEN @ ELSE r]
  /\ Goto(r, "ended")
  /\ UNCHANGED <<hash, reply, did, hit>>

StoreFails(r) ==
  /\ "store" \in Faults /\ pc[r] = "storing"
  /\ Goto(r, "ended")
  /\ hit' = hit \cup {r}
  /\ UNCHANGED <<hash, answer, reply, did>>

(* deleteMany where statusCode is null *)
Release(r) ==
  /\ pc[r] = "releasing"
  /\ hash' = [hash EXCEPT ![KeyOf[r]] = IF answer[KeyOf[r]] = Nothing THEN NoRow ELSE @]
  /\ Goto(r, "ended")
  /\ UNCHANGED <<answer, reply, did, hit>>

ReleaseFails(r) ==
  /\ "db" \in Faults /\ pc[r] = "releasing"
  /\ Goto(r, "ended")
  /\ hit' = hit \cup {r}
  /\ UNCHANGED <<hash, answer, reply, did>>

(* The process dies; a running handler may have committed or not. *)
Crash(r) ==
  /\ "crash" \in Faults /\ pc[r] \notin {"new", "ended"}
  /\ did' = did \/ (pc[r] = "handling" /\ did' = did \cup {r})
  /\ Goto(r, "ended")
  /\ hit' = hit \cup {r}
  /\ UNCHANGED <<hash, answer, reply>>

-----------------------------------------------------------------------------
Step(r) ==
  \/ Claim(r) \/ ClaimTaken(r) \/ ClaimFails(r) \/ Read(r) \/ ReadFails(r)
  \/ Handle(r) \/ HandlerFails(r) \/ Store(r) \/ StoreFails(r) \/ Release(r)
  \/ ReleaseFails(r)

Next == \E r \in Requests : Step(r) \/ Crash(r)

Spec == Init /\ [][Next]_vars

(* A request that holds its key is never suspended for ever. *)
FairSpec ==
  Spec /\ \A r \in Requests :
            WF_vars(pc[r] # "new" /\ Step(r))

-----------------------------------------------------------------------------
(* Properties. *)

(* However often and however concurrently a request is repeated, whoever   *)
(* crashes and whatever statement fails, its effect is committed at most   *)
(* once per key; only a handler that commits and then throws can have its  *)
(* work done again, because its claim is released.                         *)
OneEffectPerKey ==
  \A q, r \in did :
    KeyOf[q] = KeyOf[r] /\ reply[q] # Error /\ reply[r] # Error => q = r

(* All successful answers under one key are the same answer, and they go   *)
(* to requests with the body of the request that was executed.             *)
SameAnswer ==
  \A q, r \in Requests :
    /\ reply[r] \in Requests =>
         /\ KeyOf[reply[r]] = KeyOf[r] /\ Body[reply[r]] = Body[r]
         /\ reply[r] \in did
    /\ reply[q] \in Requests /\ reply[r] \in Requests /\ KeyOf[q] = KeyOf[r] =>
         reply[q] = reply[r]

(* A key is executed once and answered with that one answer.               *)
OneAnswerPerKey == OneEffectPerKey /\ SameAnswer

Owner(k, q) == KeyOf[q] = k /\ pc[q] \in {"handling", "storing", "releasing"}

Unanswered(k) == hash[k] # NoRow /\ answer[k] = Nothing

(* A row without an answer has an owner that is still at work, so that     *)
(* 409 "still in progress" is true when it is said; only a crash or a      *)
(* failing statement of a request for this key can leave it without one.   *)
UnansweredIsOwned ==
  \A k \in Keys : Unanswered(k) =>
    \E q \in Requests : Owner(k, q) \/ (KeyOf[q] = k /\ q \in hit)

(* Claims are well formed and owned.                                       *)
ClaimsAreOwned == TypeOK /\ UnansweredIsOwned

(* A key is executed and answered once, and locked by those at work only.  *)
KeysAreSound == OneAnswerPerKey /\ ClaimsAreOwned

(* No key stays locked unless a fault hit a request for it: a claim ends   *)
(* answered or deleted, and a retry is then replayed or executed.          *)
ClaimsEnd ==
  \A k \in Keys :
    Unanswered(k) ~> ~Unanswered(k) \/ \E q \in hit : KeyOf[q] = k
=============================================================================
