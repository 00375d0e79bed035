----------------------------- MODULE DeskProofs -----------------------------
(* Proofs about Desk and its server Idempotency, for any requests, keys,     *)
(* contents and faults, and about Tab, for any users and number of tokens.  *)
EXTENDS Desk, Tab, TLAPS

USE IdempotencyAssumption

-----------------------------------------------------------------------------
(* The server *)


(* Request r holds the claim on its key.                                   *)
Active(r) == pc[r] \in {"handling", "storing", "releasing"}

(* The effect of r is committed and its handler has not thrown.            *)
Won(r) == r \in did /\ reply[r] # Error

(* What a request has done so far, as its place in the code tells.         *)
PlaceOK ==
  \A r \in Requests :
    /\ pc[r] \in {"new", "reading", "handling"} => reply[r] = Nothing /\ r \notin did
    /\ pc[r] = "storing" => reply[r] = r /\ r \in did
    /\ pc[r] = "releasing" => reply[r] = Error

(* The claim: its row is there without an answer, and nobody else has it.  *)
ClaimOK ==
  /\ \A r \in Requests : Active(r) => hash[KeyOf[r]] = Body[r] /\ answer[KeyOf[r]] = Nothing
  /\ \A q, r \in Requests : Active(q) /\ Active(r) /\ KeyOf[q] = KeyOf[r] => q = r

(* A committed effect keeps the key: its row stays, answered by it or not  *)
(* at all, and nobody else claims it.                                      *)
WonOK ==
  \A s \in Requests : Won(s) =>
    /\ hash[KeyOf[s]] = Body[s] /\ answer[KeyOf[s]] \in {Nothing, s}
    /\ pc[s] \in {"storing", "ended"}
    /\ \A q \in Requests : Active(q) /\ KeyOf[q] = KeyOf[s] => q = s
    /\ \A q \in Requests : Won(q) /\ KeyOf[q] = KeyOf[s] => q = s

(* A stored or received answer is that of a request which won.             *)
AnswerOK ==
  /\ \A k \in Keys : answer[k] # Nothing =>
       KeyOf[answer[k]] = k /\ reply[answer[k]] = answer[k] /\ answer[k] \in did
  /\ \A r \in Requests : reply[r] \in Requests =>
       /\ KeyOf[reply[r]] = KeyOf[r] /\ Body[reply[r]] = Body[r]
       /\ reply[r] \in did /\ reply[reply[r]] = reply[r]

IInv == TypeOK /\ PlaceOK /\ ClaimOK /\ WonOK /\ AnswerOK

LEMMA InitIInv == Init => IInv
  BY DEF Init, IInv, TypeOK, PlaceOK, ClaimOK, WonOK, AnswerOK, Active, Won, Replies

LEMMA StepIInv == IInv /\ [Next]_vars => IInv'
<1> SUFFICES ASSUME IInv, [Next]_vars PROVE IInv'
  OBVIOUS
<1> USE DEF IInv, TypeOK, PlaceOK, ClaimOK, WonOK, AnswerOK, Active, Won, Replies, Goto,
            Respond, End, InsertRow
<1>1. ASSUME NEW r \in Requests, Claim(r) PROVE IInv'
  BY <1>1 DEF Claim
<1>2. ASSUME NEW r \in Requests, ClaimTaken(r) PROVE IInv'
  BY <1>2 DEF ClaimTaken
<1>3. ASSUME NEW r \in Requests, ClaimFails(r) PROVE IInv'
  BY <1>3 DEF ClaimFails
<1>4. ASSUME NEW r \in Requests, Read(r) PROVE IInv'
  BY <1>4 DEF Read, Verdict
<1>5. ASSUME NEW r \in Requests, ReadFails(r) PROVE IInv'
  BY <1>5 DEF ReadFails
<1>6. ASSUME NEW r \in Requests, Handle(r) PROVE IInv'
  BY <1>6 DEF Handle
<1>7. ASSUME NEW r \in Requests, HandlerFails(r) PROVE IInv'
  BY <1>7 DEF HandlerFails
<1>8. ASSUME NEW r \in Requests, Store(r) PROVE IInv'
  BY <1>8 DEF Store
<1>9. ASSUME NEW r \in Requests, StoreFails(r) PROVE IInv'
  BY <1>9 DEF StoreFails
<1>10. ASSUME NEW r \in Requests, Release(r) PROVE IInv'
  BY <1>10 DEF Release
<1>11. ASSUME NEW r \in Requests, ReleaseFails(r) PROVE IInv'
  BY <1>11 DEF ReleaseFails
<1>12. ASSUME NEW r \in Requests, Crash(r) PROVE IInv'
  BY <1>12 DEF Crash
<1>13. CASE UNCHANGED vars
  BY <1>13 DEF vars
<1>14. QED
  BY <1>1, <1>2, <1>3, <1>4, <1>5, <1>6, <1>7, <1>8, <1>9, <1>10, <1>11, <1>12, <1>13
     DEF Next, Step

LEMMA AlwaysIInv == Spec => []IInv
  BY InitIInv, StepIInv, PTL DEF Spec

(* Every value the interceptor and its table hold has its type.            *)
THEOREM TypeCorrect == Spec => []TypeOK
  BY AlwaysIInv, PTL DEF IInv

(* However often a request is repeated and whatever fails in between, its  *)
(* effect is committed at most once per key, unless a handler that had     *)
(* committed threw.                                                        *)
THEOREM EffectAtMostOnce == Spec => []OneEffectPerKey
<1>1. IInv => OneEffectPerKey
  BY DEF IInv, TypeOK, WonOK, Won, OneEffectPerKey
<1>2. QED
  BY <1>1, AlwaysIInv, PTL

(* All successful answers under one key are one answer, given to requests  *)
(* with the same body.                                                     *)
THEOREM AnswersAgree == Spec => []SameAnswer
<1>1. IInv => SameAnswer
  BY DEF IInv, TypeOK, WonOK, AnswerOK, Won, SameAnswer
<1>2. QED
  BY <1>1, AlwaysIInv, PTL

(* One effect and one answer per key, for any number of requests.          *)
THEOREM OneAnswer == Spec => []OneAnswerPerKey
  BY EffectAtMostOnce, AnswersAgree, PTL DEF OneAnswerPerKey

-----------------------------------------------------------------------------
(* No claim is without an owner.  The row of a key is touched by requests  *)
(* for that key only; the claimer is Active until it answers or deletes    *)
(* the row, or a fault hits it.                                            *)

Held(k) == \E q \in Requests : KeyOf[q] = k /\ (Active(q) \/ q \in hit)

LEMMA StepHeld ==
  ASSUME IInv, IInv', [Next]_vars, NEW k \in Keys,
         Unanswered(k) => Held(k), Unanswered(k)'
  PROVE  Held(k)'
<1> USE DEF IInv, TypeOK, Active, Held, Unanswered, Goto, Respond, End
<1>1. ASSUME NEW r \in Requests, Claim(r) PROVE Held(k)'
  BY <1>1 DEF Claim, InsertRow
<1>2. ASSUME NEW r \in Requests, ClaimTaken(r) PROVE Held(k)'
  BY <1>2 DEF ClaimTaken
<1>3. ASSUME NEW r \in Requests, ClaimFails(r) PROVE Held(k)'
  BY <1>3 DEF ClaimFails, InsertRow
<1>4. ASSUME NEW r \in Requests, Read(r) PROVE Held(k)'
  BY <1>4 DEF Read
<1>5. ASSUME NEW r \in Requests, ReadFails(r) PROVE Held(k)'
  BY <1>5 DEF ReadFails
<1>6. ASSUME NEW r \in Requests, Handle(r) PROVE Held(k)'
  BY <1>6 DEF Handle
<1>7. ASSUME NEW r \in Requests, HandlerFails(r) PROVE Held(k)'
  BY <1>7 DEF HandlerFails
<1>8. ASSUME NEW r \in Requests, Store(r) PROVE Held(k)'
  BY <1>8 DEF Store, ClaimOK
<1>9. ASSUME NEW r \in Requests, StoreFails(r) PROVE Held(k)'
  BY <1>9 DEF StoreFails
<1>10. ASSUME NEW r \in Requests, Release(r) PROVE Held(k)'
  BY <1>10 DEF Release, ClaimOK
<1>11. ASSUME NEW r \in Requests, ReleaseFails(r) PROVE Held(k)'
  BY <1>11 DEF ReleaseFails
<1>12. ASSUME NEW r \in Requests, Crash(r) PROVE Held(k)'
  BY <1>12 DEF Crash
<1>13. CASE UNCHANGED vars
  BY <1>13 DEF vars
<1>14. QED
  BY <1>1, <1>2, <1>3, <1>4, <1>5, <1>6, <1>7, <1>8, <1>9, <1>10, <1>11, <1>12, <1>13
     DEF Next, Step

(* A key is locked only while a request for it is at work, or after a      *)
(* fault hit one.                                                          *)
THEOREM ClaimsOwned == Spec => []ClaimsAreOwned
<1>1. Init => UnansweredIsOwned
  BY DEF Init, UnansweredIsOwned, Unanswered
<1>2. ASSUME IInv, IInv', UnansweredIsOwned, [Next]_vars PROVE UnansweredIsOwned'
  <2> SUFFICES ASSUME NEW k \in Keys, Unanswered(k)'
               PROVE  \E q \in Requests : Owner(k, q)' \/ (KeyOf[q] = k /\ q \in hit')
    BY DEF UnansweredIsOwned
  <2>1. Unanswered(k) => Held(k)
    BY <1>2 DEF UnansweredIsOwned, Held, Owner, Active
  <2>2. Held(k)'
    BY <1>2, <2>1, StepHeld
  <2> QED BY <2>2 DEF Held, Owner, Active
<1>3. QED
  BY <1>1, <1>2, AlwaysIInv, TypeCorrect, PTL DEF Spec, ClaimsAreOwned

(* Keys are executed and answered once and locked by those at work, for    *)
(* any requests, keys, bodies and faults.                                  *)
THEOREM KeysSound == Spec => []KeysAreSound
  BY OneAnswer, ClaimsOwned, PTL DEF KeysAreSound

-----------------------------------------------------------------------------
(* The dialogs.  What holds of the server alone carries over. *)

USE DeskAssumption

(* The server handles what was sent, and its rows are of requests sent.    *)
SentOK ==
  /\ did \subseteq sent
  /\ \A r \in Requests \ sent : pc[r] = "new"
  /\ \A k \in Keys : hash[k] # NoRow => \E q \in sent : KeyOf[q] = k /\ Body[q] = hash[k]

(* Keys are new when they are taken.                                       *)
KeysOK ==
  /\ kind # Clients => \A r \in sent : KeyOf[r] \in minted
  /\ dialog.opening # 0 =>
       /\ kind.key = "opening" => dialog.key \in minted
       /\ kind.key = "content" /\ dialog.content # Nothing => dialog.key \in minted

(* A series of repetitions has one key.                                    *)
SeriesOK ==
  kind.key \in {"opening", "content"} =>
    /\ \A q, r \in sent : run[q] = run[r] => KeyOf[q] = KeyOf[r]
    /\ \A r \in sent : run[r] <= dialog.run
    /\ dialog.opening # 0 /\ dialog.content # Nothing =>
         \A r \in sent : run[r] = dialog.run => KeyOf[r] = dialog.key

(* But for a dialog that keeps its key, a key has one content.             *)
BodiesOK ==
  kind.key \in {"content", "submit"} =>
    /\ \A q, r \in sent : KeyOf[q] = KeyOf[r] => Body[q] = Body[r]
    /\ kind.key = "content" /\ dialog.opening # 0 /\ dialog.content # Nothing =>
         \A r \in sent : KeyOf[r] = dialog.key => Body[r] = dialog.content

(* What was told is an answer of the server.                               *)
ToldOK == \A r \in told : reply[r] \in Requests

Answered == {reply[r] : r \in told \ early}

(* What a fetch has read, or the list shows, has what was told.            *)
ListOK ==
  /\ kind \notin Followed => list = Unloaded
  /\ list.loaded /\ ~list.stale => Answered \subseteq list.data
  /\ list.fetch = "read" => Answered \subseteq list.seen

DInv == DeskTypeOK /\ SentOK /\ KeysOK /\ SeriesOK /\ BodiesOK /\ ToldOK /\ ListOK

LEMMA KindsHaveKeys ==
  /\ \A k \in Kinds : k.key \in {"opening", "content", "submit"}
  /\ Clients.key = "none"
  BY DEF Kinds, Clients, Kind, NewTask, GenerateInvoice, NewQuote, NewCustomer, AdjustQuantity,
         NewItem, PriceItem, Cost, CloseTask, Equipment

LEMMA DeskInitHolds == DeskInit => DInv /\ MismatchIsEdited
<1> SUFFICES ASSUME DeskInit PROVE DInv /\ MismatchIsEdited
  OBVIOUS
<1> USE DEF DeskInit, Init, Shut, Unloaded, Clients, Kind
<1>1. DeskTypeOK
  BY DEF DeskTypeOK
<1>2. SentOK /\ KeysOK /\ SeriesOK /\ BodiesOK /\ ToldOK
  BY DEF SentOK, KeysOK, SeriesOK, BodiesOK, ToldOK, Kinds, NewTask, GenerateInvoice, NewQuote,
         NewCustomer, AdjustQuantity, NewItem, PriceItem, Cost, CloseTask, Equipment
<1>3. ListOK /\ MismatchIsEdited
  BY DEF ListOK, MismatchIsEdited
<1> QED BY <1>1, <1>2, <1>3 DEF DInv

-----------------------------------------------------------------------------
(* The server. *)

(* A reply that is an answer is never changed.                             *)
LEMMA RepliesStay ==
  ASSUME IInv, [Next]_vars, NEW r \in Requests, reply[r] \in Requests
  PROVE  reply'[r] = reply[r]
<1>1. pc[r] \in {"storing", "ended"}
  BY DEF IInv, TypeOK, PlaceOK
<1>2. ASSUME NEW q \in Requests, Step(q) \/ Crash(q) PROVE reply'[r] = reply[r]
  <2>1. UNCHANGED reply \/ \E x : reply' = [reply EXCEPT ![q] = x]
    BY <1>2 DEF Step, Claim, ClaimTaken, ClaimFails, Read, ReadFails, Handle, HandlerFails, Store,
                StoreFails, Release, ReleaseFails, Crash, End, Respond
  <2>2. UNCHANGED reply \/ pc[q] \notin {"storing", "ended"}
    BY <1>2 DEF Step, Claim, ClaimTaken, ClaimFails, Read, ReadFails, Handle, HandlerFails, Store,
                StoreFails, Release, ReleaseFails, Crash
  <2> QED BY <1>1, <2>1, <2>2 DEF IInv, TypeOK
<1>3. CASE UNCHANGED vars
  BY <1>3 DEF vars
<1> QED BY <1>2, <1>3 DEF Next

(* What a step of the server adds: effects and rows of its request.        *)
LEMMA ServerAdds ==
  ASSUME IInv, NEW r \in Requests, Step(r) \/ Crash(r)
  PROVE  /\ did \subseteq did' /\ did' \subseteq did \cup {r}
         /\ \A q \in Requests : q # r => pc'[q] = pc[q]
         /\ \A k \in Keys : hash'[k] \in {hash[k], NoRow} \/ (KeyOf[r] = k /\ hash'[k] = Body[r])
<1> USE DEF IInv, TypeOK, Goto, Respond, End, InsertRow
<1> QED
  BY DEF Step, Claim, ClaimTaken, ClaimFails, Read, ReadFails, Handle, HandlerFails, Store,
         StoreFails, Release, ReleaseFails, Crash

(* 422 is said of a key whose row is of another body.                      *)
LEMMA ServerMismatch ==
  ASSUME IInv, NEW r \in Requests, Step(r) \/ Crash(r), NEW q \in Requests, reply'[q] = Mismatch
  PROVE  reply[q] = Mismatch \/ (q = r /\ hash[KeyOf[r]] \notin {Body[r], NoRow})
<1> DEFINE G == reply[q] = Mismatch \/ (q = r /\ hash[KeyOf[r]] \notin {Body[r], NoRow})
<1>1. CASE Read(r)
  <2>1. reply' = [reply EXCEPT ![r] = Verdict(KeyOf[r], Body[r])]
    BY <1>1 DEF Read, End, Respond
  <2>2. CASE hash[KeyOf[r]] = Body[r]
    <3>1. Verdict(KeyOf[r], Body[r]) \in Requests \cup {Busy}
      BY <2>2 DEF Verdict, IInv, TypeOK
    <3> QED BY <2>1, <3>1 DEF IInv, TypeOK
  <2>3. CASE hash[KeyOf[r]] = NoRow
    <3>1. Verdict(KeyOf[r], Body[r]) = Busy
      BY <2>3 DEF Verdict
    <3> QED BY <2>1, <3>1 DEF IInv, TypeOK
  <2>4. CASE hash[KeyOf[r]] \notin {Body[r], NoRow}
    <3>1. q # r => reply'[q] = reply[q]
      BY <2>1 DEF IInv, TypeOK
    <3> QED BY <2>4, <3>1
  <2> QED BY <2>2, <2>3, <2>4
<1>2. CASE ~Read(r)
  <2>1. UNCHANGED reply \/ \E x \in {r, Error} : reply' = [reply EXCEPT ![r] = x]
    BY <1>2 DEF Step, Claim, ClaimTaken, ClaimFails, ReadFails, Handle, HandlerFails, Store,
                StoreFails, Release, ReleaseFails, Crash, End, Respond
  <2> QED BY <2>1 DEF IInv, TypeOK
<1> QED BY <1>1, <1>2

LEMMA ServerKeepsDesk ==
  ASSUME IInv, DInv, MismatchIsEdited, ServerStep, UNCHANGED deskVars
  PROVE  DInv' /\ MismatchIsEdited'
<1> USE DEF deskVars
<1>1. sent \subseteq Requests /\ told \subseteq sent
  BY DEF DInv, DeskTypeOK
<1>2. PICK s \in sent : Step(s) \/ Crash(s)
  BY DEF ServerStep
<1>3. [Next]_vars
  BY <1>1, <1>2 DEF Next
<1>4. /\ did \subseteq did' /\ did' \subseteq did \cup {s}
      /\ \A q \in Requests : q # s => pc'[q] = pc[q]
      /\ \A k \in Keys : hash'[k] \in {hash[k], NoRow} \/ (KeyOf[s] = k /\ hash'[k] = Body[s])
  BY <1>1, <1>2, ServerAdds
<1>5. \A r \in told : reply'[r] = reply[r]
  BY <1>1, <1>3, RepliesStay DEF DInv, ToldOK
<1>6. DeskTypeOK'
  BY <1>4 DEF DInv, DeskTypeOK
<1>7. SentOK'
  BY <1>1, <1>4 DEF DInv, SentOK
<1>8. KeysOK' /\ SeriesOK' /\ BodiesOK'
  BY DEF DInv, KeysOK, SeriesOK, BodiesOK
<1>9. ToldOK' /\ ListOK'
  BY <1>5 DEF DInv, ToldOK, ListOK, Answered, Unloaded
<1>10. MismatchIsEdited'
  <2> SUFFICES ASSUME NEW r \in sent, reply'[r] = Mismatch, kind # Clients
               PROVE  kind.key = "opening" /\ \E q \in sent : KeyOf[q] = KeyOf[r] /\ Body[q] # Body[r]
    BY DEF MismatchIsEdited
  <2>1. CASE reply[r] = Mismatch
    BY <2>1 DEF MismatchIsEdited
  <2>2. CASE r = s /\ hash[KeyOf[s]] \notin {Body[s], NoRow}
    <3>1. PICK q \in sent : KeyOf[q] = KeyOf[s] /\ Body[q] = hash[KeyOf[s]]
      BY <1>1, <2>2 DEF DInv, SentOK
    <3>2. kind.key \notin {"content", "submit"}
      BY <2>2, <3>1 DEF DInv, BodiesOK
    <3>3. kind \in Kinds
      BY DEF DInv, DeskTypeOK
    <3> QED BY <2>2, <3>1, <3>2, <3>3, KindsHaveKeys
  <2> QED BY <1>1, <1>2, <2>1, <2>2, ServerMismatch
<1> QED BY <1>6, <1>7, <1>8, <1>9, <1>10 DEF DInv

-----------------------------------------------------------------------------
(* The dialog and the list. *)

LEMMA FreshKeyIsNew ==
  ASSUME KeyIsLeft PROVE FreshKey \in Keys /\ FreshKey \notin minted
  BY DEF KeyIsLeft, FreshKey

LEMMA OpensKeeps ==
  ASSUME DInv, Opens, UNCHANGED vars PROVE DInv'
<1> USE DEF vars
<1> DEFINE k == IF kind.key = "opening" THEN FreshKey ELSE Nothing
<1>1. /\ dialog.opening = 0
      /\ dialog' = [dialog EXCEPT !.opening = dialog.last + 1, !.last = dialog.last + 1,
                                  !.key = k, !.content = Nothing]
      /\ minted' = minted \cup ({k} \ {Nothing})
      /\ UNCHANGED <<kind, sent, run, awaiting, told, list, early>>
      /\ kind.key = "opening" => KeyIsLeft
  BY DEF Opens
<1>2. kind.key = "opening" => k \in Keys
  BY <1>1, FreshKeyIsNew
<1>3. dialog.last + 1 \in Nat /\ dialog.run \in Nat
  BY DEF DInv, DeskTypeOK
<1> HIDE DEF k
<1>4. k \in Keys \cup {Nothing}
  BY <1>2 DEF k
<1>5. DeskTypeOK'
  BY <1>1, <1>3, <1>4 DEF DInv, DeskTypeOK
<1>6. dialog'.key = k /\ dialog'.content = Nothing /\ dialog'.run = dialog.run
  BY <1>1 DEF DInv, DeskTypeOK
<1>7. KeysOK' /\ BodiesOK'
  BY <1>1, <1>2, <1>6 DEF DInv, KeysOK, BodiesOK
<1>8. SeriesOK'
  BY <1>1, <1>6 DEF DInv, SeriesOK
<1>9. SentOK' /\ ToldOK' /\ ListOK'
  BY <1>1 DEF DInv, SentOK, ToldOK, ListOK, Answered, Unloaded
<1> QED BY <1>5, <1>7, <1>8, <1>9 DEF DInv

(* What the properties need of a dialog that is closed or settled          *)
Preserved(d, e) ==
  /\ e \in [opening : Nat, last : Nat, key : Keys \cup {Nothing}, run : Nat,
            content : Bodies \cup {Nothing}, latest : Requests \cup {Nothing}]
  /\ e.opening \in {0, d.opening} /\ e.key = d.key /\ e.content = d.content /\ e.run = d.run

LEMMA DialogKept ==
  ASSUME DeskTypeOK, NEW r \in Requests
  PROVE  /\ Preserved(dialog, Left(dialog)) /\ Preserved(dialog, Settled(dialog, r))
         /\ Preserved(dialog, Left(Settled(dialog, r)))
  BY DEF DeskTypeOK, Preserved, Left, Settled

LEMMA KeptIsEnough ==
  ASSUME DInv, Preserved(dialog, dialog'), UNCHANGED <<kind, minted, sent, run>>
  PROVE  KeysOK' /\ SeriesOK' /\ BodiesOK'
<1> USE DEF Preserved
<1>1. KeysOK' /\ BodiesOK'
  BY DEF DInv, KeysOK, BodiesOK
<1>2. SeriesOK'
  BY DEF DInv, SeriesOK
<1> QED BY <1>1, <1>2

LEMMA ClosesKeeps ==
  ASSUME DInv, Closes, UNCHANGED vars PROVE DInv'
<1> USE DEF vars, Closes
<1>0. DeskTypeOK
  BY DEF DInv
<1>1. Preserved(dialog, dialog')
  <2>1. Preserved(dialog, Left(dialog))
    <3>1. CASE Requests = {}
      BY <1>0 DEF DeskTypeOK, Preserved, Left
    <3>2. CASE Requests # {}
      BY <1>0, <3>2, DialogKept
    <3> QED BY <3>1, <3>2
  <2> QED BY <2>1
<1>2. KeysOK' /\ SeriesOK' /\ BodiesOK'
  BY <1>1, KeptIsEnough
<1>3. DeskTypeOK'
  BY <1>1 DEF DInv, DeskTypeOK, Preserved
<1>4. SentOK' /\ ToldOK' /\ ListOK'
  BY DEF DInv, SentOK, ToldOK, ListOK, Answered, Unloaded
<1> QED BY <1>2, <1>3, <1>4 DEF DInv

LEMMA SubmitsKeeps ==
  ASSUME DInv, NEW b \in Bodies, Submits(b), UNCHANGED vars PROVE DInv'
<1> USE DEF vars
<1> DEFINE k == KeyFor(b)
           n == IF dialog.content = b THEN dialog.run ELSE dialog.run + 1
<1>1. PICK r \in Requests \ sent :
        /\ KeyOf[r] = k /\ Body[r] = b
        /\ dialog.opening # 0
        /\ Mints(b) => KeyIsLeft
        /\ dialog' = [dialog EXCEPT !.key = k, !.content = b, !.latest = r, !.run = n]
        /\ minted' = minted \cup {k}
        /\ sent' = sent \cup {r}
        /\ run' = [run EXCEPT ![r] = n]
        /\ awaiting' = awaiting \cup {r}
        /\ UNCHANGED <<kind, told, list, early>>
  BY DEF Submits
<1>2. k \in Keys
  BY <1>1
<1>3. n \in Nat /\ dialog.run \in Nat /\ n >= dialog.run /\ (dialog.content # b => n = dialog.run + 1)
  BY DEF DInv, DeskTypeOK
<1>4. dialog.content = b => n = dialog.run
  OBVIOUS
<1>5. IF Mints(b) THEN k \in Keys /\ k \notin minted ELSE k = dialog.key
  BY <1>1, FreshKeyIsNew DEF KeyFor
<1> HIDE DEF k, n
<1>6. DeskTypeOK'
  BY <1>1, <1>2, <1>3 DEF DInv, DeskTypeOK
<1>7. /\ dialog'.key = k /\ dialog'.content = b /\ dialog'.run = n /\ dialog'.opening = dialog.opening
      /\ run'[r] = n /\ \A q \in sent : run'[q] = run[q]
  BY <1>1 DEF DInv, DeskTypeOK
<1>8. KeysOK'
  BY <1>1, <1>7 DEF DInv, KeysOK
<1>9. SeriesOK'
  <2> SUFFICES ASSUME kind.key \in {"opening", "content"} PROVE SeriesOK'
    BY <1>1 DEF SeriesOK
  <2>1. \A q \in sent : run[q] \in Nat /\ run[q] <= dialog.run
    BY DEF DInv, DeskTypeOK, SeriesOK
  <2>2. \A q \in sent : run[q] <= n
    BY <2>1, <1>3
  <2>3. \A q \in sent : run[q] = n => KeyOf[q] = k
    <3>1. CASE dialog.content = b
      <4>1. ~Mints(b) /\ dialog.content # Nothing
        BY <3>1 DEF Mints
      <4> QED BY <1>1, <1>4, <1>5, <3>1, <4>1 DEF DInv, SeriesOK
    <3>2. CASE dialog.content # b
      BY <1>3, <2>1, <3>2
    <3> QED BY <3>1, <3>2
  <2>4. \A p, q \in sent' : run'[p] = run'[q] => KeyOf[p] = KeyOf[q]
    BY <1>1, <1>7, <2>3 DEF DInv, SeriesOK
  <2>5. \A q \in sent' : run'[q] <= n /\ (run'[q] = n => KeyOf[q] = k)
    BY <1>1, <1>3, <1>7, <2>2, <2>3
  <2> QED BY <1>7, <2>4, <2>5 DEF SeriesOK
<1>10. BodiesOK'
  <2> SUFFICES ASSUME kind.key \in {"content", "submit"} PROVE BodiesOK'
    BY <1>1 DEF BodiesOK
  <2>1. \A q \in sent : KeyOf[q] = k => Body[q] = b
    <3>1. CASE Mints(b)
      <4>1. kind # Clients
        BY KindsHaveKeys
      <4> QED BY <1>5, <3>1, <4>1 DEF DInv, KeysOK
    <3>2. CASE ~Mints(b)
      <4>1. kind.key = "content" /\ dialog.content = b /\ dialog.content # Nothing
        BY <3>2 DEF Mints
      <4> QED BY <1>1, <1>5, <3>2, <4>1 DEF DInv, BodiesOK
    <3> QED BY <3>1, <3>2
  <2> QED BY <1>1, <1>7, <2>1 DEF DInv, BodiesOK
<1>11. SentOK' /\ ToldOK' /\ ListOK'
  BY <1>1 DEF DInv, SentOK, ToldOK, ListOK, Answered, Unloaded
<1> QED BY <1>6, <1>8, <1>9, <1>10, <1>11 DEF DInv

(* What an action may do to the list without losing what was told          *)
ListTypeOK == list \in [data : SUBSET did, loaded : BOOLEAN, stale : BOOLEAN,
                        fetch : {"idle", "asked", "read"}, seen : SUBSET did]

LEMMA AnswersKeep ==
  ASSUME DInv, NEW r \in awaiting, UNCHANGED <<kind, minted, sent, run, did, pc, hash, reply>>,
         Preserved(dialog, dialog'), awaiting' = awaiting \ {r},
         told' \subseteq told \cup {r}, early' \subseteq told', told \subseteq told',
         r \in told' => reply[r] \in Requests, ListTypeOK', ListOK'
  PROVE  DInv'
<1>1. KeysOK' /\ SeriesOK' /\ BodiesOK'
  BY KeptIsEnough
<1>2. DeskTypeOK'
  BY DEF DInv, DeskTypeOK, Preserved, ListTypeOK
<1>3. SentOK' /\ ToldOK'
  BY DEF DInv, SentOK, ToldOK
<1> QED BY <1>1, <1>2, <1>3 DEF DInv

LEMMA InvalidatedKeeps ==
  ASSUME DInv, list' = Invalidated(list), UNCHANGED <<kind, did, reply>>,
         \/ UNCHANGED <<told, early>>
         \/ \E r : /\ told' = told \cup {r}
                   /\ early' = IF ~list.loaded /\ list.fetch # "idle" THEN early \cup {r} ELSE early
  PROVE  ListTypeOK' /\ ListOK'
<1> USE DEF DInv, DeskTypeOK, Invalidated, Refreshed
<1>1. ListTypeOK'
  BY DEF ListTypeOK
<1>2. CASE kind \notin Followed
  <2>1. list' = Unloaded
    BY <1>2 DEF ListOK
  <2> QED BY <1>1, <1>2, <2>1 DEF ListOK, Unloaded
<1>3. CASE kind \in Followed
  <2>1. list'.stale
    BY <1>3
  <2>2. list'.fetch = "read" => list.fetch = "read" /\ ~list.loaded /\ list'.seen = list.seen
    BY <1>3
  <2>3. list.fetch = "read" /\ ~list.loaded => Answered' \subseteq Answered
    BY DEF Answered
  <2>4. list'.fetch = "read" => Answered' \subseteq list'.seen
    BY <2>2, <2>3 DEF ListOK
  <2> QED BY <1>1, <1>3, <2>1, <2>4 DEF ListOK
<1> QED BY <1>2, <1>3

LEMMA SucceedsKeeps ==
  ASSUME DInv, NEW r \in Requests, Succeeds(r), UNCHANGED vars PROVE DInv'
<1> USE DEF vars, Succeeds
<1>1. Preserved(dialog, dialog')
  BY DialogKept DEF DInv
<1>2. ListTypeOK' /\ ListOK'
  BY InvalidatedKeeps
<1>3. early' \subseteq told'
  BY DEF DInv, DeskTypeOK
<1> QED BY <1>1, <1>2, <1>3, AnswersKeep

LEMMA ListStays ==
  ASSUME DInv, UNCHANGED <<list, kind, did, reply, told, early>> PROVE ListTypeOK' /\ ListOK'
  BY DEF DInv, DeskTypeOK, ListTypeOK, ListOK, Answered, Unloaded

LEMMA RefusesKeeps ==
  ASSUME DInv, NEW r \in Requests, Refuses(r), UNCHANGED vars PROVE DInv'
<1> USE DEF vars, Refuses
<1>1. Preserved(dialog, dialog')
  BY DialogKept DEF DInv
<1>2. ListTypeOK' /\ ListOK'
  BY InvalidatedKeeps, ListStays
<1>3. early' \subseteq told' /\ (r \in told' => reply[r] \in Requests)
  BY DEF DInv, DeskTypeOK, ToldOK
<1> QED BY <1>1, <1>2, <1>3, AnswersKeep

LEMMA LosesKeeps ==
  ASSUME DInv, NEW r \in Requests, Loses(r), UNCHANGED vars PROVE DInv'
<1> USE DEF vars, Loses
<1>1. Preserved(dialog, dialog')
  BY DialogKept DEF DInv
<1>2. ListTypeOK' /\ ListOK'
  BY ListStays
<1>3. early' \subseteq told' /\ (r \in told' => reply[r] \in Requests)
  BY DEF DInv, DeskTypeOK, ToldOK
<1> QED BY <1>1, <1>2, <1>3, AnswersKeep

(* A fetch that reads the server's state reads what was told.              *)
LEMMA ListKeeps ==
  ASSUME IInv, DInv, ListAsks \/ ListReads \/ ListArrives \/ ListFails, UNCHANGED vars PROVE DInv'
<1> USE DEF vars
<1>1. UNCHANGED <<kind, dialog, minted, sent, run, awaiting, told, early>>
  BY DEF ListAsks, ListReads, ListArrives, ListFails
<1>2. Answered \subseteq did
  BY DEF IInv, AnswerOK, DInv, ToldOK, DeskTypeOK, Answered
<1>3. Answered' = Answered
  BY <1>1 DEF Answered
<1>4. ListTypeOK'
  <2> USE DEF DInv, DeskTypeOK, ListTypeOK
  <2>1. CASE ListAsks
    BY <2>1 DEF ListAsks
  <2>2. CASE ListReads
    BY <2>2 DEF ListReads
  <2>3. CASE ListArrives
    BY <2>3 DEF ListArrives
  <2>4. CASE ListFails
    BY <2>4 DEF ListFails
  <2> QED BY <2>1, <2>2, <2>3, <2>4
<1>5. ListOK'
  <2>1. CASE ListAsks
    BY <1>3, <2>1 DEF ListAsks, DInv, DeskTypeOK, ListOK
  <2>2. CASE ListReads
    BY <1>2, <1>3, <2>2 DEF ListReads, DInv, DeskTypeOK, ListOK, Unloaded
  <2>3. CASE ListArrives
    BY <1>3, <2>3 DEF ListArrives, DInv, DeskTypeOK, ListOK, Unloaded
  <2>4. CASE ListFails
    BY <1>3, <2>4 DEF ListFails, DInv, DeskTypeOK, ListOK, Unloaded
  <2> QED BY <2>1, <2>2, <2>3, <2>4
<1>6. DeskTypeOK'
  BY <1>1, <1>4 DEF DInv, DeskTypeOK, ListTypeOK
<1>7. KeysOK' /\ SeriesOK' /\ BodiesOK' /\ SentOK' /\ ToldOK'
  BY <1>1 DEF DInv, KeysOK, SeriesOK, BodiesOK, SentOK, ToldOK
<1> QED BY <1>5, <1>6, <1>7 DEF DInv

(* Requests that were not sent have no answer.                             *)
LEMMA DeskKeepsMismatch ==
  ASSUME IInv, DInv, MismatchIsEdited, DeskStep, UNCHANGED vars PROVE MismatchIsEdited'
<1> USE DEF vars
<1>1. kind' = kind /\ (sent' = sent \/ \E b \in Bodies : Submits(b))
  BY DEF DeskStep, Opens, Closes, Submits, Succeeds, Refuses, Loses, ListAsks, ListReads,
         ListArrives, ListFails
<1>2. ASSUME NEW b \in Bodies, Submits(b) PROVE \E r \in Requests : sent' = sent \cup {r}
  BY <1>2 DEF Submits
<1>3. sent \subseteq sent' /\ sent' \subseteq Requests
  BY <1>1, <1>2 DEF DInv, DeskTypeOK
<1>4. \A r \in sent' \ sent : reply[r] # Mismatch
  BY <1>3 DEF DInv, SentOK, IInv, PlaceOK
<1> QED BY <1>1, <1>3, <1>4 DEF MismatchIsEdited

-----------------------------------------------------------------------------
(* The theorems. *)

LEMMA DeskIsNext == DeskTypeOK /\ [DeskNext]_<<vars, deskVars>> => [Next]_vars
  BY DEF DeskTypeOK, DeskNext, ServerStep, Next, vars

LEMMA DeskKeeps ==
  ASSUME IInv, DInv, MismatchIsEdited, [DeskNext]_<<vars, deskVars>>
  PROVE  (IInv /\ DInv /\ MismatchIsEdited)'
<1>1. IInv'
  BY DeskIsNext, StepIInv DEF DInv
<1>2. CASE DeskStep /\ UNCHANGED vars
  <2>1. DInv'
    BY <1>2, OpensKeeps, ClosesKeeps, SubmitsKeeps, SucceedsKeeps, RefusesKeeps, LosesKeeps,
       ListKeeps DEF DeskStep
  <2> QED BY <1>1, <1>2, <2>1, DeskKeepsMismatch
<1>3. CASE ServerStep /\ UNCHANGED deskVars
  BY <1>1, <1>3, ServerKeepsDesk
<1>4. CASE UNCHANGED <<vars, deskVars>>
  BY <1>1, <1>4 DEF vars, deskVars, DInv, DeskTypeOK, SentOK, KeysOK, SeriesOK, BodiesOK, ToldOK,
                    ListOK, Answered, MismatchIsEdited
<1> QED BY <1>2, <1>3, <1>4 DEF DeskNext

LEMMA DeskHolds == DeskSpec => [](IInv /\ DInv /\ MismatchIsEdited)
<1>1. DeskInit => IInv /\ DInv /\ MismatchIsEdited
  BY DeskInitHolds, InitIInv DEF DeskInit
<1>2. IInv /\ DInv /\ MismatchIsEdited /\ [DeskNext]_<<vars, deskVars>>
        => (IInv /\ DInv /\ MismatchIsEdited)'
  BY DeskKeeps
<1> QED BY <1>1, <1>2, PTL DEF DeskSpec

(* The dialogs use the keys as the interceptor expects of any client: what *)
(* they and the server do together is a behaviour of Idempotency.          *)
THEOREM DeskImplements == DeskSpec => Spec
<1>1. DeskInit => Init
  BY DEF DeskInit
<1>2. DInv /\ [DeskNext]_<<vars, deskVars>> => [Next]_vars
  BY DeskIsNext DEF DInv
<1> QED BY <1>1, <1>2, DeskHolds, PTL DEF DeskSpec, Spec

(* What is submitted from a dialog with a key is done at most once, a      *)
(* success is told only of what was done, and 422 is said only of a dialog *)
(* that was edited while it kept its key.                                  *)
THEOREM SubmissionsSound == DeskSpec => []SubmissionsAreSound
<1>1. IInv /\ DInv => SubmittedOnce
  <2> SUFFICES ASSUME IInv, DInv, kind.key \in {"opening", "content"}, NEW q \in did, NEW r \in did,
                      run[q] = run[r], reply[q] # Error, reply[r] # Error
               PROVE  q = r
    BY DEF SubmittedOnce
  <2>1. KeyOf[q] = KeyOf[r]
    BY DEF DInv, SentOK, SeriesOK
  <2>2. Won(q) /\ Won(r)
    BY DEF Won
  <2> QED BY <2>1, <2>2 DEF IInv, TypeOK, WonOK
<1>2. IInv /\ DInv => ToldIsDone
  BY DEF IInv, AnswerOK, DInv, DeskTypeOK, ToldOK, ToldIsDone
<1>3. IInv /\ DInv /\ MismatchIsEdited => SubmissionsAreSound
  BY <1>1, <1>2 DEF DInv, SubmissionsAreSound
<1> QED BY <1>3, DeskHolds, PTL

(* A page at rest shows what its user was told was done.                   *)
THEOREM ListCurrent == DeskSpec => []ListIsCurrent
<1>1. DInv => ListIsCurrent
  BY DEF DInv, ListOK, Answered, ListIsCurrent
<1> QED BY <1>1, DeskHolds, PTL

(* The keys of the server are sound also under the dialogs that send them, *)
(* and what the dialogs say of their submissions is true.                  *)
THEOREM DialogsSound == DeskSpec => []DialogsAreSound
  BY DeskImplements, KeysSound, SubmissionsSound, PTL DEF DialogsAreSound

-----------------------------------------------------------------------------
(* Tab: whose session, whose token and whose tasks.  On the phone a page   *)
(* inside means a token, a fetch carries the token of the tab, and nobody  *)
(* signs in while somebody is inside.                                      *)
CallsAreSound ==
  /\ UnderWay("login") => calls["login"].user \in Users
  /\ calls["change"].state = "done" => calls["change"].token # 0
  /\ Phone =>
       /\ ~UnderWay("change") /\ (Inside <=> tab.token # 0)
       /\ UnderWay("login") => ~Inside
       /\ UnderWay("fetch") => Inside /\ calls["fetch"].token = tab.token

(* Those whose tasks may be here rightly: the holder of the tab's token.   *)
Rightly == IF tab.token = 0 THEN {} ELSE {Holder(tab.token)}

SavedIsOwn ==
  Phone /\ ~crossed /\ tab.token # 0 => tab.saved \in {Holder(tab.token), Nobody}

(* What the phone keeps is of the holder of the token, or was there when a *)
(* session ended and is remembered as such.                                *)
KeptIsOwn ==
  Phone => /\ cache \in {Nobody} \cup Rightly \cup dirty
           /\ filling \subseteq Rightly \cup dirty
           /\ \A q \in Queries : memory[q] \in {Nobody} \cup Rightly \cup left \cup dirty

TabInv == TabTypeOK /\ CallsAreSound /\ IdentityIsOwn /\ SavedIsOwn /\ KeptIsOwn

LEMMA MemberOfSeq ==
  ASSUME NEW S, NEW s \in Seq(S), NEW i \in 1..Len(s)
  PROVE  s[i] \in S
OBVIOUS

(* A token signed has a holder.                                            *)
LEMMA HolderIsUser ==
  ASSUME AccountsTypeOK, NEW t \in 0..Len(issued), t # 0
  PROVE  Holder(t) \in Users
<1>1. t \in 1..Len(issued) /\ issued \in Seq([user : Users, must : BOOLEAN])
  BY DEF AccountsTypeOK
<1>2. issued[t] \in [user : Users, must : BOOLEAN]
  BY <1>1, MemberOfSeq
<1> QED
  BY <1>2 DEF Holder

(* A new token leaves those there were and is its user's.                  *)
LEMMA NewToken ==
  ASSUME AccountsTypeOK, NEW u \in Users, Issues(u)
  PROVE  /\ issued' \in Seq([user : Users, must : BOOLEAN])
         /\ Newest \in 0..Len(issued') /\ Newest # 0
         /\ \A t \in 0..Len(issued) : t \in 0..Len(issued')
         /\ expired \subseteq DOMAIN issued'
         /\ issued'[Newest].user = u
<1>1. [user |-> u, must |-> u \in mustChange] \in [user : Users, must : BOOLEAN]
  OBVIOUS
<1>2. Len(issued') = Len(issued) + 1 /\ issued' \in Seq([user : Users, must : BOOLEAN])
  BY <1>1 DEF AccountsTypeOK, Issues
<1>3. issued'[Newest] = [user |-> u, must |-> u \in mustChange]
  BY DEF AccountsTypeOK, Issues, Newest
<1>4. Len(issued) \in Nat
  BY DEF AccountsTypeOK
<1>5. expired \subseteq DOMAIN issued'
  BY <1>2, <1>4 DEF AccountsTypeOK
<1> QED
  BY <1>2, <1>3, <1>4, <1>5 DEF Newest

(* What a call that may be aborted leaves to the service worker is what    *)
(* was under way, or a task of the holder of the token.                    *)
LEMMA AbortedFills ==
  ASSUME TabInv, Aborted
  PROVE  filling' \subseteq Users /\ (Phone => filling' \subseteq Rightly \cup dirty)
<1>1. CASE filling' = filling
  BY <1>1 DEF TabInv, TabTypeOK, KeptIsOwn
<1>2. CASE UnderWay("fetch") /\ calls["fetch"].token # 0
           /\ filling' = filling \cup {Holder(calls["fetch"].token)}
  <2>1. calls["fetch"].token \in 0..Len(issued)
    BY DEF TabInv, TabTypeOK, Calls
  <2>2. Holder(calls["fetch"].token) \in Users
    BY <1>2, <2>1, HolderIsUser DEF TabInv, TabTypeOK
  <2>3. Phone => Holder(calls["fetch"].token) \in Rightly
    BY <1>2 DEF TabInv, CallsAreSound, Rightly
  <2> QED
    BY <1>2, <2>2, <2>3 DEF TabInv, TabTypeOK, KeptIsOwn
<1> QED
  BY <1>1, <1>2 DEF Aborted

(* The type of a tab, in parts the provers take as they are.               *)
Tokens == 0..Len(issued)
Persons == Users \cup {Nobody}
Statuses == {"loading", "authenticated", "anonymous"}
Pages == {"login", "day", "jobs"}
Tabs == [token : Tokens, saved : Persons, session : Persons, status : Statuses, page : Pages]

LEMMA TabTypes ==
  ASSUME TabTypeOK
  PROVE  /\ tab \in Tabs /\ 0 \in Tokens /\ Nobody \in Persons
         /\ "loading" \in Statuses /\ "authenticated" \in Statuses /\ "anonymous" \in Statuses
         /\ "login" \in Pages /\ "day" \in Pages /\ "jobs" \in Pages
<1>1. Len(issued) \in Nat
  BY DEF TabTypeOK, AccountsTypeOK
<1> QED
  BY <1>1 DEF TabTypeOK, Tabs, Tokens, Persons, Statuses, Pages

LEMMA TabInvInit == TabInit => TabInv
<1> SUFFICES ASSUME TabInit PROVE TabInv
  OBVIOUS
<1>1. TabTypeOK
  <2>1. AccountsTypeOK
    BY DEF TabInit, AccountsInit, AccountsTypeOK
  <2>2. Len(issued) = 0
    BY DEF TabInit, AccountsInit
  <2>3. NoCall \in [token : 0..Len(issued), user : Users \cup {Nobody}, state : {"none", "sent", "done"}]
    BY <2>2 DEF NoCall
  <2>4. tab \in [token : 0..Len(issued), saved : Users \cup {Nobody}, session : Users \cup {Nobody},
                 status : {"loading", "authenticated", "anonymous"}, page : {"login", "day", "jobs"}]
    BY <2>2 DEF TabInit
  <2>5. calls \in [Calls -> [token : 0..Len(issued), user : Users \cup {Nobody}, state : {"none", "sent", "done"}]]
    BY <2>3 DEF TabInit
  <2> QED
    BY <2>1, <2>4, <2>5 DEF TabInit, TabTypeOK
<1>2. CallsAreSound
  BY DEF TabInit, CallsAreSound, UnderWay, Calls, NoCall, Inside
<1> QED
  BY <1>1, <1>2 DEF TabInit, TabInv, IdentityIsOwn, SavedIsOwn, KeptIsOwn

(* Calls that end leave the others as they were.                           *)
LEMMA CallsEnd ==
  ASSUME TabTypeOK, NEW c \in Calls, NEW d \in Calls,
         calls' = [calls EXCEPT ![c] = NoCall, ![d] = NoCall]
  PROVE  /\ calls' \in [Calls -> [token : 0..Len(issued), user : Users \cup {Nobody},
                                  state : {"none", "sent", "done"}]]
         /\ \A b \in Calls : calls'[b] \in {calls[b], NoCall}
         /\ calls'[c] = NoCall /\ calls'[d] = NoCall
<1>1. NoCall \in [token : 0..Len(issued), user : Users \cup {Nobody}, state : {"none", "sent", "done"}]
  BY DEF NoCall, TabTypeOK, AccountsTypeOK
<1> QED
  BY <1>1 DEF TabTypeOK

(* A session ends: what was kept becomes what is remembered.               *)
LEMMA SessionEnds ==
  ASSUME TabInv, NEW c \in Calls, NEW t, t \in {SignedOut(tab), Anonymous(tab)},
         EndsSession(c, t), UNCHANGED accountVars
  PROVE  TabInv'
<1>0. /\ tab'.token = 0 /\ tab'.saved = Nobody /\ tab'.session \in {tab.session, Nobody}
      /\ tab'.status = "anonymous" /\ tab'.page = (IF Phone THEN "login" ELSE tab.page)
      /\ tab' \in Tabs
  <2>1. tab' = t /\ Len(issued) \in Nat
    BY DEF EndsSession, TabInv, TabTypeOK, AccountsTypeOK
  <2>2. Anonymous(tab) \in Tabs
    <3> DEFINE p == IF Phone THEN "login" ELSE tab.page
    <3>1. p \in Pages
      BY TabTypes DEF TabInv, Tabs
    <3>2. Anonymous(tab) = [tab EXCEPT !.token = 0, !.saved = Nobody, !.status = "anonymous", !.page = p]
      BY DEF Anonymous
    <3> HIDE DEF p
    <3> QED
      BY <3>1, <3>2, TabTypes DEF TabInv, Tabs
  <2>3. SignedOut(tab) \in Tabs
    BY <2>2, TabTypes DEF SignedOut, Tabs, TabInv
  <2>4. /\ Anonymous(tab).token = 0 /\ Anonymous(tab).saved = Nobody
        /\ Anonymous(tab).session = tab.session /\ Anonymous(tab).status = "anonymous"
        /\ Anonymous(tab).page = (IF Phone THEN "login" ELSE tab.page)
    BY DEF Anonymous, TabInv, TabTypeOK
  <2>5. /\ SignedOut(tab).token = 0 /\ SignedOut(tab).saved = Nobody
        /\ SignedOut(tab).session = Nobody /\ SignedOut(tab).status = "anonymous"
        /\ SignedOut(tab).page = (IF Phone THEN "login" ELSE tab.page)
    BY <2>2, <2>4 DEF SignedOut, Tabs
  <2> QED
    BY <2>1, <2>2, <2>3, <2>4, <2>5
<1>a. (IF Phone THEN calls' = [calls EXCEPT ![c] = NoCall, !["fetch"] = NoCall]
               ELSE calls' = [calls EXCEPT ![c] = NoCall, ![c] = NoCall])
  BY DEF EndsSession, Ends, TabInv, TabTypeOK
<1>b. filling' \subseteq Users /\ (Phone => filling' \subseteq Rightly \cup dirty)
  BY AbortedFills DEF EndsSession, TabInv, TabTypeOK
<1>c. "fetch" \in Calls /\ "login" \in Calls /\ "change" \in Calls
  BY DEF Calls
<1>d. /\ calls' \in [Calls -> [token : 0..Len(issued), user : Users \cup {Nobody},
                               state : {"none", "sent", "done"}]]
      /\ \A b \in Calls : calls'[b] \in {calls[b], NoCall}
      /\ Phone => calls'["fetch"] = NoCall
  BY <1>a, <1>c, CallsEnd DEF TabInv
<1>e. Phone' = Phone
  BY DEF EndsSession, Phone
<1>1. TabTypeOK'
  <2>1. Kept \subseteq Users /\ Cached \subseteq Users
    BY DEF Kept, Cached, TabInv, TabTypeOK
  <2> QED
    BY <1>0, <1>b, <1>d, <2>1 DEF EndsSession, TabInv, TabTypeOK, accountVars, AccountsTypeOK, Tabs, Persons, Statuses, Pages
<1>2. CallsAreSound'
  BY <1>0, <1>c, <1>d, <1>e DEF TabInv, CallsAreSound, UnderWay, NoCall, Inside
<1>3. IdentityIsOwn' /\ SavedIsOwn'
  BY <1>0 DEF IdentityIsOwn, SavedIsOwn
<1>4. KeptIsOwn'
  BY <1>0, <1>e DEF EndsSession, KeptIsOwn, Rightly, Kept, Cached, TabInv, Queries
<1> QED
  BY <1>1, <1>2, <1>3, <1>4 DEF TabInv

LEMMA UnauthorizedKeeps ==
  ASSUME TabInv, NEW c \in Calls, Unauthorized(c)
  PROVE  TabInv'
  BY SessionEnds DEF Unauthorized

LEMMA CallTypes ==
  ASSUME TabTypeOK
  PROVE  /\ calls \in [Calls -> [token : Tokens, user : Persons, state : {"none", "sent", "done"}]]
         /\ NoCall \in [token : Tokens, user : Persons, state : {"none", "sent", "done"}]
         /\ \A t \in Tokens, u \in Persons :
              /\ Call(t, u) \in [token : Tokens, user : Persons, state : {"none", "sent", "done"}]
              /\ Call(t, u) # NoCall /\ Call(t, u).token = t /\ Call(t, u).user = u
              /\ Call(t, u).state = "sent"
         /\ "me" \in Calls /\ "login" \in Calls /\ "change" \in Calls /\ "fetch" \in Calls
  BY TabTypes DEF TabTypeOK, Tokens, Persons, Calls, Call, NoCall

LEMMA LogoutKeeps ==
  ASSUME TabInv, Logout
  PROVE  TabInv'
<1>0. /\ tab' = SignedOut(tab) /\ Phone' = Phone /\ UNCHANGED <<issued, crossed>>
      /\ UNCHANGED <<memory, device, mustChange, expired>>
      /\ cache' \in {cache, Nobody} /\ (Phone => cache' = Nobody)
      /\ left' = left \cup Kept /\ dirty' = filling'
  BY DEF Logout, Cleared, Phone, accountVars
<1>1. /\ tab'.token = 0 /\ tab'.session = Nobody
      /\ tab'.page = (IF Phone THEN "login" ELSE tab.page) /\ tab' \in Tabs
  <2> DEFINE p == IF Phone THEN "login" ELSE tab.page
  <2>1. p \in Pages
    BY TabTypes DEF TabInv, Tabs
  <2>2. tab' = [[tab EXCEPT !.token = 0, !.saved = Nobody, !.status = "anonymous", !.page = p] EXCEPT !.session = Nobody]
    BY <1>0 DEF SignedOut, Anonymous
  <2>3. tab'.page = p /\ tab'.token = 0 /\ tab'.session = Nobody /\ tab' \in Tabs
    <3> HIDE DEF p
    <3> QED
      BY <2>1, <2>2, TabTypes DEF TabInv, Tabs
  <2> QED
    BY <2>3
<1>2. filling' \subseteq Users
  BY AbortedFills DEF Logout, TabInv, TabTypeOK
<1>3. /\ calls' \in [Calls -> [token : Tokens, user : Persons, state : {"none", "sent", "done"}]]
      /\ \A b \in Calls : calls'[b] \in {calls[b], NoCall}
      /\ Phone => calls'["fetch"] = NoCall
  BY CallTypes DEF Logout, TabInv
<1>4. TabTypeOK'
  <2>1. Kept \subseteq Users
    BY DEF Kept, TabInv, TabTypeOK
  <2> QED
    BY <1>0, <1>1, <1>2, <1>3, <2>1
       DEF TabInv, TabTypeOK, AccountsTypeOK, Tabs, Tokens, Persons, Statuses, Pages
<1>5. CallsAreSound'
  BY <1>0, <1>1, <1>3, CallTypes DEF TabInv, CallsAreSound, UnderWay, NoCall, Inside
<1>6. IdentityIsOwn' /\ SavedIsOwn'
  BY <1>1 DEF IdentityIsOwn, SavedIsOwn
<1>7. KeptIsOwn'
  BY <1>0 DEF KeptIsOwn, Kept
<1> QED
  BY <1>4, <1>5, <1>6, <1>7 DEF TabInv

(* A new load of the page, with the token and the saved session it had or  *)
(* without.                                                                *)
LEMMA LoadsKeeps ==
  ASSUME TabInv, NEW t \in Tabs, Loads(t), dirty' \subseteq Users, dirty \subseteq dirty',
         \/ t = tab
         \/ t.token = 0 /\ Cached \cup filling' \subseteq dirty'
  PROVE  TabInv'
<1>0. /\ UNCHANGED <<device, cache, crossed, issued, expired, mustChange>> /\ Phone' = Phone
      /\ left' = {} /\ memory' = [q \in Queries |-> Nobody]
  BY DEF Loads, accountVars, Phone
<1>1. /\ tab'.token = t.token /\ tab'.saved = t.saved /\ tab'.session = Nobody
      /\ tab'.page = (IF t.token = 0 THEN "login" ELSE "day") /\ tab' \in Tabs
  <2> DEFINE s == IF t.token = 0 THEN "anonymous" ELSE "loading"
             p == IF t.token = 0 THEN "login" ELSE "day"
  <2>1. p \in Pages /\ s \in Statuses
    BY TabTypes DEF TabInv
  <2>2. tab' = [t EXCEPT !.session = Nobody, !.status = s, !.page = p]
    BY DEF Loads
  <2>3. /\ tab'.token = t.token /\ tab'.saved = t.saved /\ tab'.session = Nobody
        /\ tab'.page = p /\ tab' \in Tabs
    <3> HIDE DEF p, s
    <3> QED
      BY <2>1, <2>2, TabTypes DEF TabInv, Tabs
  <2> QED
    BY <2>3
<1>2. filling' \subseteq Users /\ (Phone => filling' \subseteq Rightly \cup dirty)
  BY AbortedFills DEF Loads, TabInv, TabTypeOK
<1>3. /\ calls' \in [Calls -> [token : Tokens, user : Persons, state : {"none", "sent", "done"}]]
      /\ calls'["login"] = NoCall /\ calls'["change"] = NoCall /\ calls'["fetch"] = NoCall
  <2>1. t.token \in Tokens /\ Nobody \in Persons
    BY TabTypes DEF Tabs, TabInv
  <2> QED
    BY <2>1, CallTypes DEF Loads, TabInv
<1>4. TabTypeOK'
  BY <1>0, <1>1, <1>2, <1>3
     DEF TabInv, TabTypeOK, AccountsTypeOK, Tabs, Tokens, Persons, Statuses, Pages
<1>5. CallsAreSound'
  BY <1>0, <1>1, <1>3 DEF CallsAreSound, UnderWay, NoCall, Inside
<1>6. IdentityIsOwn' /\ SavedIsOwn'
  BY <1>0, <1>1 DEF TabInv, IdentityIsOwn, SavedIsOwn, Holder
<1>7. KeptIsOwn'
  <2>1. \A q \in Queries : memory'[q] = Nobody
    BY <1>0
  <2>2. CASE t = tab
    BY <1>0, <1>1, <1>2, <2>1, <2>2 DEF TabInv, KeptIsOwn, Rightly, Holder
  <2>3. CASE t.token = 0 /\ Cached \cup filling' \subseteq dirty'
    BY <1>0, <2>1, <2>3 DEF TabInv, KeptIsOwn, Cached
  <2> QED
    BY <2>2, <2>3
<1> QED
  BY <1>4, <1>5, <1>6, <1>7 DEF TabInv

LEMMA ReloadKeeps ==
  ASSUME TabInv, Reload
  PROVE  TabInv'
  BY LoadsKeeps, TabTypes DEF Reload, TabInv, TabTypeOK

LEMMA CloseTabKeeps ==
  ASSUME TabInv, CloseTab
  PROVE  TabInv'
<1>1. /\ [tab EXCEPT !.token = 0, !.saved = Nobody] \in Tabs
      /\ [tab EXCEPT !.token = 0, !.saved = Nobody].token = 0
  BY TabTypes DEF TabInv, Tabs
<1>2. dirty' \subseteq Users
  <2>1. filling' \subseteq Users
    BY AbortedFills DEF CloseTab, Loads
  <2> QED
    BY <2>1 DEF CloseTab, Cached, TabInv, TabTypeOK
<1> QED
  BY <1>1, <1>2, LoadsKeeps DEF CloseTab

LEMMA NavigateKeeps ==
  ASSUME TabInv, NEW p \in Pages, Navigate(p)
  PROVE  TabInv'
<1>0. /\ UNCHANGED <<device, memory, cache, left, dirty, crossed, issued, expired, mustChange>>
      /\ Phone' = Phone
  BY DEF Navigate, accountVars, Phone
<1>1. /\ tab'.token = tab.token /\ tab'.saved = tab.saved /\ tab'.session = tab.session
      /\ tab' \in Tabs /\ (tab'.page = "login" <=> tab.token = 0)
  <2> DEFINE e == IF tab.token = 0 THEN "login" ELSE IF p = "login" THEN "day" ELSE p
  <2>1. e \in Pages /\ (e = "login" <=> tab.token = 0)
    BY TabTypes DEF TabInv
  <2>2. tab' = [tab EXCEPT !.page = e]
    BY DEF Navigate
  <2> HIDE DEF e
  <2> QED
    BY <2>1, <2>2, TabTypes DEF TabInv, Tabs
<1>2. filling' \subseteq Users /\ (Phone => filling' \subseteq Rightly \cup dirty)
  BY AbortedFills DEF Navigate, TabInv, TabTypeOK
<1>3. /\ calls' \in [Calls -> [token : Tokens, user : Persons, state : {"none", "sent", "done"}]]
      /\ \A b \in Calls : calls'[b] \in {calls[b], NoCall}
      /\ Phone => calls'["fetch"] = NoCall
  BY CallTypes DEF Navigate, TabInv
<1>4. TabTypeOK'
  BY <1>0, <1>1, <1>2, <1>3
     DEF TabInv, TabTypeOK, AccountsTypeOK, Tabs, Tokens, Persons, Statuses, Pages
<1>5. CallsAreSound'
  BY <1>0, <1>1, <1>3, CallTypes DEF TabInv, CallsAreSound, UnderWay, NoCall, Inside
<1>6. IdentityIsOwn' /\ SavedIsOwn'
  BY <1>0, <1>1 DEF TabInv, IdentityIsOwn, SavedIsOwn, Holder
<1>7. KeptIsOwn'
  BY <1>0, <1>1, <1>2 DEF TabInv, KeptIsOwn, Rightly, Holder
<1> QED
  BY <1>4, <1>5, <1>6, <1>7 DEF TabInv

(* A call that may be answered carries a token, which has a holder.        *)
LEMMA LetIn ==
  ASSUME TabInv, NEW c \in Calls, NEW open, "ok" \in Guarded(calls[c].token, open)
  PROVE  calls[c].token \in Tokens /\ calls[c].token # 0 /\ Holder(calls[c].token) \in Users
<1>1. calls[c].token \in Tokens
  BY CallTypes DEF TabInv
<1>2. calls[c].token # 0
  BY DEF Guarded
<1> QED
  BY <1>1, <1>2, HolderIsUser DEF TabInv, TabTypeOK, Tokens

(* A step of AuthProvider or of a call which leaves the accounts and what  *)
(* is kept: the new tab and the new calls must be right.                   *)
LEMMA TabMoves ==
  ASSUME TabInv, UNCHANGED <<issued, expired, device, kept>>, mustChange' \subseteq Users,
         crossed' \in BOOLEAN, crossed => crossed', tab' \in Tabs, tab'.token = tab.token,
         Phone => tab'.page = tab.page,
         calls' \in [Calls -> [token : Tokens, user : Persons, state : {"none", "sent", "done"}]],
         CallsAreSound', IdentityIsOwn', SavedIsOwn'
  PROVE  TabInv'
<1>1. TabTypeOK'
  BY DEF TabInv, TabTypeOK, AccountsTypeOK, Tabs, Tokens, Persons, Statuses, Pages, kept
<1>2. KeptIsOwn'
  BY DEF TabInv, KeptIsOwn, Rightly, Holder, Phone, kept
<1> QED
  BY <1>1, <1>2 DEF TabInv

(* A call that ends leaves the calls sound, whatever page comes.           *)
LEMMA EndsSoundly ==
  ASSUME TabInv, NEW c \in Calls, Ends(c), UNCHANGED device,
         tab'.token = tab.token, tab'.page = tab.page
  PROVE  /\ calls' \in [Calls -> [token : Tokens, user : Persons, state : {"none", "sent", "done"}]]
         /\ CallsAreSound'
<1>1. /\ calls' \in [Calls -> [token : Tokens, user : Persons, state : {"none", "sent", "done"}]]
      /\ \A b \in Calls : calls'[b] \in {calls[b], NoCall}
  BY CallTypes DEF Ends, TabInv
<1> QED
  BY <1>1, CallTypes DEF TabInv, CallsAreSound, UnderWay, NoCall, Inside, Phone

LEMMA MeAnsweredKeeps ==
  ASSUME TabInv, MeAnswered
  PROVE  TabInv'
<1> DEFINE u == Holder(calls["me"].token)
           b == IF Phone THEN u ELSE tab.saved
<1>0. "me" \in Calls /\ UNCHANGED <<issued, expired, mustChange, device, kept>> /\ Ends("me")
  BY DEF MeAnswered, accountVars, Calls
<1>1. calls["me"].token \in Tokens /\ u \in Users
  BY <1>0, LetIn DEF MeAnswered
<1>2. b \in Persons /\ u \in Persons
  BY <1>1, TabTypes DEF TabInv, Tabs, Persons
<1>3. tab' = [tab EXCEPT !.session = u, !.status = "authenticated", !.saved = b]
  BY DEF MeAnswered
<1>4. /\ tab' \in Tabs /\ tab'.token = tab.token /\ tab'.page = tab.page
      /\ tab'.session = u /\ tab'.saved = b
  <2> HIDE DEF u, b
  <2> QED
    BY <1>2, <1>3, TabTypes DEF TabInv, Tabs
<1>5. crossed' \in BOOLEAN /\ (crossed => crossed') /\ (~crossed' => tab.token = calls["me"].token)
  BY DEF MeAnswered, TabInv, TabTypeOK
<1>6. IdentityIsOwn' /\ SavedIsOwn'
  BY <1>0, <1>4, <1>5 DEF IdentityIsOwn, SavedIsOwn, Holder, Phone
<1> QED
  BY <1>0, <1>4, <1>5, <1>6, EndsSoundly, TabMoves DEF TabInv, TabTypeOK, AccountsTypeOK

LEMMA MeOfflineKeeps ==
  ASSUME TabInv, MeOffline
  PROVE  TabInv'
<1>0. /\ "me" \in Calls /\ UNCHANGED <<issued, expired, mustChange, device, kept, crossed>>
      /\ Ends("me") /\ Phone /\ tab.saved \in Persons
  BY TabTypes DEF MeOffline, accountVars, Calls, TabInv, Tabs
<1>1. /\ tab' \in Tabs /\ tab'.token = tab.token /\ tab'.page = tab.page
      /\ tab'.session = tab.saved /\ tab'.saved = tab.saved
  BY <1>0, TabTypes DEF MeOffline, TabInv, Tabs
<1>2. IdentityIsOwn' /\ SavedIsOwn'
  BY <1>0, <1>1 DEF TabInv, IdentityIsOwn, SavedIsOwn, Holder, Phone
<1> QED
  BY <1>0, <1>1, <1>2, EndsSoundly, TabMoves DEF TabInv, TabTypeOK, AccountsTypeOK

LEMMA LoginKeeps ==
  ASSUME TabInv, NEW u \in Users, Login(u)
  PROVE  TabInv'
<1>0. UNCHANGED <<issued, expired, mustChange, device, tab, kept, crossed>>
  BY DEF Login, accountVars
<1>1. 0 \in Tokens /\ u \in Persons
  BY TabTypes DEF TabInv, Persons
<1>2. calls' \in [Calls -> [token : Tokens, user : Persons, state : {"none", "sent", "done"}]]
  BY <1>1, CallTypes DEF Login, TabInv
<1>3. CallsAreSound'
  <2>1. /\ calls'["login"].user = u /\ ~Inside
        /\ calls'["change"] = calls["change"] /\ calls'["fetch"] = calls["fetch"]
    BY <1>1, CallTypes DEF Login, TabInv
  <2> QED
    BY <1>0, <2>1 DEF TabInv, CallsAreSound, UnderWay, NoCall, Inside, Phone
<1>4. IdentityIsOwn' /\ SavedIsOwn'
  BY <1>0 DEF TabInv, IdentityIsOwn, SavedIsOwn, Holder, Phone
<1> QED
  BY <1>0, <1>2, <1>3, <1>4, TabTypes, TabMoves DEF TabInv, TabTypeOK, AccountsTypeOK

LEMMA NoAnswerKeeps ==
  ASSUME TabInv, NEW c \in Calls, Ends(c), UNCHANGED <<accountVars, device, tab, kept, crossed>>
  PROVE  TabInv'
<1>0. UNCHANGED <<issued, expired, mustChange>>
  BY DEF accountVars
<1>1. IdentityIsOwn' /\ SavedIsOwn'
  BY <1>0 DEF TabInv, IdentityIsOwn, SavedIsOwn, Holder, Phone
<1> QED
  BY <1>0, <1>1, TabTypes, EndsSoundly, TabMoves DEF TabInv, TabTypeOK, AccountsTypeOK

LEMMA ChangePasswordKeeps ==
  ASSUME TabInv, ChangePassword
  PROVE  TabInv'
<1>0. UNCHANGED <<issued, expired, mustChange, device, tab, kept, crossed>> /\ ~Phone
  BY DEF ChangePassword, accountVars, Phone
<1>1. tab.token \in Tokens /\ tab.session \in Persons
  BY TabTypes DEF TabInv, Tabs
<1>2. calls' \in [Calls -> [token : Tokens, user : Persons, state : {"none", "sent", "done"}]]
  BY <1>1, CallTypes DEF ChangePassword, TabInv
<1>3. CallsAreSound'
  <2>1. calls'["login"] = calls["login"] /\ calls'["change"].state = "sent"
    BY <1>1, CallTypes DEF ChangePassword, TabInv
  <2> QED
    BY <1>0, <2>1 DEF TabInv, CallsAreSound, UnderWay, NoCall, Phone
<1>4. IdentityIsOwn' /\ SavedIsOwn'
  BY <1>0 DEF TabInv, IdentityIsOwn, SavedIsOwn, Holder, Phone
<1> QED
  BY <1>0, <1>2, <1>3, <1>4, TabTypes, TabMoves DEF TabInv, TabTypeOK, AccountsTypeOK

LEMMA ChangeCommitsKeeps ==
  ASSUME TabInv, ChangeCommits
  PROVE  TabInv'
<1>0. /\ UNCHANGED <<issued, expired, device, tab, kept, crossed>>
      /\ mustChange' \subseteq Users
  BY DEF ChangeCommits, PasswordChanges, TabInv, TabTypeOK, AccountsTypeOK
<1>1. calls["change"].token # 0
  BY LetIn, CallTypes DEF ChangeCommits, TabInv
<1>2. /\ calls' \in [Calls -> [token : Tokens, user : Persons, state : {"none", "sent", "done"}]]
      /\ calls'["login"] = calls["login"] /\ calls'["fetch"] = calls["fetch"]
      /\ calls'["change"].token = calls["change"].token
  BY CallTypes DEF ChangeCommits, TabInv
<1>3. calls["change"] # NoCall
  BY DEF ChangeCommits, NoCall
<1>4. CallsAreSound'
  BY <1>0, <1>1, <1>2, <1>3 DEF TabInv, CallsAreSound, UnderWay, NoCall, Inside, Phone
<1>5. IdentityIsOwn' /\ SavedIsOwn'
  BY <1>0 DEF TabInv, IdentityIsOwn, SavedIsOwn, Holder, Phone
<1> QED
  BY <1>0, <1>2, <1>4, <1>5, TabTypes, TabMoves DEF TabInv, TabTypeOK, AccountsTypeOK

(* A new token: the types, and the holders of the tokens there were.       *)
LEMMA SignedKeeps ==
  ASSUME TabInv, NEW u \in Users, Issues(u), UNCHANGED <<mustChange, expired, device, kept>>,
         crossed' \in BOOLEAN, NEW c \in Calls, Ends(c),
         NEW b \in Persons, NEW s \in Persons, NEW d \in Statuses, NEW p \in Pages,
         tab' \in [token : {Newest}, saved : {b}, session : {s}, status : {d}, page : {p}]
  PROVE  /\ TabTypeOK' /\ tab'.token # 0 /\ issued'[tab'.token].user = u
         /\ \A a \in Calls : calls'[a] \in {calls[a], NoCall}
         /\ calls'[c] = NoCall
<1>1. /\ issued' \in Seq([user : Users, must : BOOLEAN])
      /\ Newest \in 0..Len(issued') /\ Newest # 0
      /\ \A t \in 0..Len(issued) : t \in 0..Len(issued')
      /\ expired \subseteq DOMAIN issued'
      /\ issued'[Newest].user = u
  BY NewToken DEF TabInv, TabTypeOK
<1>2. /\ tab'.token = Newest
      /\ tab' \in [token : 0..Len(issued'), saved : Persons, session : Persons, status : Statuses, page : Pages]
  <2> HIDE DEF Newest
  <2> QED
    BY <1>1
<1>3. /\ calls' \in [Calls -> [token : Tokens, user : Persons, state : {"none", "sent", "done"}]]
      /\ \A a \in Calls : calls'[a] \in {calls[a], NoCall}
      /\ calls'[c] = NoCall
  BY CallTypes DEF Ends, TabInv
<1>4. calls' \in [Calls -> [token : 0..Len(issued'), user : Persons, state : {"none", "sent", "done"}]]
  <2>1. Tokens \subseteq 0..Len(issued')
    BY <1>1 DEF Tokens
  <2> QED
    BY <1>3, <2>1
<1>5. TabTypeOK'
  BY <1>1, <1>2, <1>4 DEF TabInv, TabTypeOK, AccountsTypeOK, Persons, Statuses, Pages, kept
<1> QED
  BY <1>1, <1>2, <1>3, <1>5

LEMMA LoginAnsweredKeeps ==
  ASSUME TabInv, LoginAnswered
  PROVE  TabInv'
<1> DEFINE u == calls["login"].user
           b == IF Phone THEN u ELSE tab.saved
<1>0. /\ "login" \in Calls /\ u \in Users /\ Ends("login") /\ Issues(u)
      /\ UNCHANGED <<mustChange, expired, device, kept, crossed>>
  BY DEF LoginAnswered, Calls, TabInv, CallsAreSound
<1>1. u \in Persons /\ b \in Persons
  BY <1>0, TabTypes DEF Persons, TabInv, Tabs
<1>2. tab' = [tab EXCEPT !.token = Newest, !.saved = b, !.session = u, !.status = "authenticated", !.page = "day"]
  BY DEF LoginAnswered, LoggedIn
<1>3. tab' \in [token : {Newest}, saved : {b}, session : {u}, status : {"authenticated"}, page : {"day"}]
  <2> HIDE DEF b, u
  <2> QED
    BY <1>2, TabTypes DEF Tabs, TabInv
<1>4. /\ TabTypeOK' /\ tab'.token # 0 /\ issued'[tab'.token].user = u
      /\ \A a \in Calls : calls'[a] \in {calls[a], NoCall}
      /\ calls'["login"] = NoCall
  <2>1. "authenticated" \in Statuses /\ "day" \in Pages /\ crossed' \in BOOLEAN
    BY <1>0, TabTypes DEF TabInv, TabTypeOK
  <2> HIDE DEF b, u
  <2> QED
    BY <1>0, <1>1, <1>3, <2>1, SignedKeeps
<1>5. tab'.session = u /\ tab'.page = "day" /\ (Phone => tab'.saved = u)
  BY <1>3
<1>6. Phone => tab.token = 0 /\ ~UnderWay("fetch")
  BY DEF LoginAnswered, TabInv, CallsAreSound
<1>7. CallsAreSound'
  BY <1>0, <1>4, <1>5, <1>6, CallTypes DEF TabInv, CallsAreSound, UnderWay, NoCall, Inside, Phone
<1>8. IdentityIsOwn' /\ SavedIsOwn'
  BY <1>0, <1>4, <1>5 DEF IdentityIsOwn, SavedIsOwn, Holder, Phone
<1>9. KeptIsOwn'
  BY <1>0, <1>6 DEF TabInv, KeptIsOwn, Rightly, Phone, kept
<1> QED
  BY <1>4, <1>7, <1>8, <1>9 DEF TabInv

LEMMA ChangeAnsweredKeeps ==
  ASSUME TabInv, ChangeAnswered
  PROVE  TabInv'
<1> DEFINE u == Holder(calls["change"].token)
<1>0. /\ "change" \in Calls /\ Ends("change") /\ Issues(u)
      /\ UNCHANGED <<mustChange, expired, device, kept>>
      /\ crossed' = (crossed \/ tab.session \notin {u, Nobody})
  BY DEF ChangeAnswered, Calls
<1>1. u \in Users
  <2>1. calls["change"].token \in Tokens /\ calls["change"].token # 0
    BY CallTypes DEF TabInv, CallsAreSound, ChangeAnswered
  <2> QED
    BY <2>1, HolderIsUser DEF TabInv, TabTypeOK, Tokens
<1>2. tab' \in [token : {Newest}, saved : {tab.saved}, session : {tab.session}, status : {tab.status}, page : {tab.page}]
  BY TabTypes DEF Tabs, TabInv, ChangeAnswered
<1>3. /\ TabTypeOK' /\ tab'.token # 0 /\ issued'[tab'.token].user = u
      /\ \A a \in Calls : calls'[a] \in {calls[a], NoCall}
      /\ calls'["change"] = NoCall
  <2>1. /\ tab.saved \in Persons /\ tab.session \in Persons /\ tab.status \in Statuses
        /\ tab.page \in Pages /\ crossed' \in BOOLEAN
    BY <1>0, TabTypes DEF TabInv, TabTypeOK, Tabs
  <2> HIDE DEF u
  <2> QED
    BY <1>0, <1>1, <1>2, <2>1, SignedKeeps
<1>4. ~Phone
  BY DEF ChangeAnswered, TabInv, CallsAreSound, UnderWay, NoCall
<1>5. CallsAreSound'
  BY <1>0, <1>3, <1>4, CallTypes DEF TabInv, CallsAreSound, UnderWay, NoCall, Phone
<1>6. IdentityIsOwn' /\ SavedIsOwn' /\ KeptIsOwn'
  BY <1>0, <1>2, <1>3, <1>4 DEF IdentityIsOwn, SavedIsOwn, KeptIsOwn, Holder, Phone
<1> QED
  BY <1>3, <1>5, <1>6 DEF TabInv

(* A step which leaves the tab and the accounts, and what is remembered.   *)
LEMMA DataMoves ==
  ASSUME TabInv, UNCHANGED <<accountVars, device, tab, left, dirty, crossed>>,
         calls' \in [Calls -> [token : Tokens, user : Persons, state : {"none", "sent", "done"}]],
         CallsAreSound', cache' \in Persons, filling' \subseteq Users,
         memory' \in [Queries -> Persons], KeptIsOwn'
  PROVE  TabInv'
<1>1. TabTypeOK'
  BY DEF TabInv, TabTypeOK, AccountsTypeOK, Tokens, Persons, accountVars
<1>2. IdentityIsOwn' /\ SavedIsOwn'
  BY DEF TabInv, IdentityIsOwn, SavedIsOwn, Holder, Phone, accountVars
<1> QED
  BY <1>1, <1>2 DEF TabInv

LEMMA DataTypes ==
  ASSUME TabInv
  PROVE  cache \in Persons /\ filling \subseteq Users /\ memory \in [Queries -> Persons]
  BY DEF TabInv, TabTypeOK, Persons

LEMMA FetchesKeeps ==
  ASSUME TabInv, Fetches
  PROVE  TabInv'
<1>1. tab.token \in Tokens /\ tab.session \in Persons
  BY TabTypes DEF TabInv, Tabs
<1>2. calls' \in [Calls -> [token : Tokens, user : Persons, state : {"none", "sent", "done"}]]
  BY <1>1, CallTypes DEF Fetches, TabInv
<1>3. CallsAreSound'
  <2>1. /\ calls'["login"] = calls["login"] /\ calls'["change"] = calls["change"]
        /\ calls'["fetch"].token = tab.token
    BY <1>1, CallTypes DEF Fetches, TabInv
  <2> QED
    BY <2>1 DEF Fetches, TabInv, CallsAreSound, UnderWay, NoCall, Inside, Phone
<1>4. KeptIsOwn'
  BY DEF Fetches, TabInv, KeptIsOwn, Rightly, Holder, Phone, kept, accountVars
<1> QED
  BY <1>2, <1>3, <1>4, DataTypes, DataMoves DEF Fetches, kept

(* What a fetch shows and leaves to store, is the holder's or was stored.  *)
LEMMA ShownKeeps ==
  ASSUME TabInv, Ends("fetch"), UnderWay("fetch"),
         UNCHANGED <<accountVars, device, tab, cache, left, dirty, crossed>>,
         NEW u \in Persons, Shows(u), filling' \subseteq Users,
         Phone => u \in {Nobody} \cup Rightly \cup left \cup dirty,
         Phone => filling' \subseteq Rightly \cup dirty
  PROVE  TabInv'
<1>0. "fetch" \in Calls
  BY DEF Calls
<1>1. /\ memory' \in [Queries -> Persons]
      /\ \A q \in Queries : memory'[q] \in {memory[q], u}
  BY DataTypes DEF Shows
<1>2. KeptIsOwn'
  BY <1>1 DEF TabInv, KeptIsOwn, Rightly, Holder, Phone, accountVars
<1> QED
  BY <1>0, <1>1, <1>2, DataTypes, EndsSoundly, DataMoves

LEMMA FetchedKeeps ==
  ASSUME TabInv, Fetched
  PROVE  TabInv'
<1> DEFINE u == Holder(calls["fetch"].token)
<1>1. "fetch" \in Calls /\ u \in Users
  BY LetIn, CallTypes DEF Fetched, TabInv
<1>2. Phone => u \in Rightly
  BY <1>1, LetIn DEF Fetched, TabInv, CallsAreSound, Rightly
<1>3. filling' \subseteq filling \cup {u} /\ u \in Persons
  BY <1>1 DEF Fetched, Persons
<1>4. filling \subseteq Users /\ (Phone => filling \subseteq Rightly \cup dirty)
  BY DataTypes DEF TabInv, KeptIsOwn
<1>5. Shows(u) /\ Ends("fetch") /\ UnderWay("fetch")
      /\ UNCHANGED <<accountVars, device, tab, cache, left, dirty, crossed>>
  BY DEF Fetched
<1> HIDE DEF u
<1> QED
  BY <1>1, <1>2, <1>3, <1>4, <1>5, ShownKeeps

LEMMA FetchedFromCacheKeeps ==
  ASSUME TabInv, FetchedFromCache
  PROVE  TabInv'
<1>1. "fetch" \in Calls /\ cache \in Persons
  BY DataTypes, CallTypes DEF TabInv
<1>2. Phone => cache \in {Nobody} \cup Rightly \cup left \cup dirty
  BY DEF TabInv, KeptIsOwn
<1>3. filling' \subseteq Users /\ (Phone => filling' \subseteq Rightly \cup dirty)
  <2>1. filling \subseteq Users /\ (Phone => filling \subseteq Rightly \cup dirty)
    BY DataTypes DEF TabInv, KeptIsOwn
  <2>2. CASE filling' = filling
    BY <2>1, <2>2
  <2>3. CASE /\ "ok" \in Guarded(calls["fetch"].token, FALSE)
             /\ filling' = filling \cup {Holder(calls["fetch"].token)}
    <3>1. Holder(calls["fetch"].token) \in Users /\ calls["fetch"].token # 0
      BY <1>1, <2>3, LetIn
    <3>2. Phone => Holder(calls["fetch"].token) \in Rightly
      BY <3>1 DEF FetchedFromCache, TabInv, CallsAreSound, Rightly
    <3> QED
      BY <2>1, <2>3, <3>1, <3>2
  <2> QED
    BY <2>2, <2>3 DEF FetchedFromCache
<1> QED
  BY <1>1, <1>2, <1>3, ShownKeeps DEF FetchedFromCache

LEMMA StoredKeeps ==
  ASSUME TabInv,
         \/ \E u \in Users : Fill(u)
         \/ \E q \in Queries : Forget(q)
         \/ TooOld
  PROVE  TabInv'
<1>0. UNCHANGED <<accountVars, device, tab, calls, left, dirty, crossed>>
  BY DEF Fill, Forget, TooOld
<1>1. /\ calls' \in [Calls -> [token : Tokens, user : Persons, state : {"none", "sent", "done"}]]
      /\ CallsAreSound'
  BY <1>0, CallTypes DEF TabInv, CallsAreSound, UnderWay, Inside, Phone
<1>2. /\ cache' \in {cache, Nobody} \cup filling /\ filling' \subseteq filling
      /\ memory' \in [Queries -> Persons]
      /\ \A q \in Queries : memory'[q] \in {memory[q], Nobody}
  BY DataTypes, TabTypes DEF Fill, Forget, TooOld, TabInv
<1>3. KeptIsOwn'
  BY <1>0, <1>2 DEF TabInv, KeptIsOwn, Rightly, Holder, Phone, accountVars
<1> QED
  BY <1>0, <1>1, <1>2, <1>3, DataTypes, TabTypes, DataMoves DEF Persons, TabInv

LEMMA ExpiresKeeps ==
  ASSUME TabInv, NEW t \in DOMAIN issued, Expires(t), UNCHANGED tabVars
  PROVE  TabInv'
<1>1. TabTypeOK'
  BY DEF Expires, tabVars, TabInv, TabTypeOK, AccountsTypeOK
<1>2. CallsAreSound' /\ IdentityIsOwn' /\ SavedIsOwn' /\ KeptIsOwn'
  BY DEF Expires, tabVars, TabInv, CallsAreSound, IdentityIsOwn, SavedIsOwn, KeptIsOwn,
         Rightly, Holder, Phone, Inside, UnderWay
<1> QED
  BY <1>1, <1>2 DEF TabInv

LEMMA TabStutterKeeps ==
  ASSUME TabInv, UNCHANGED <<accountVars, tabVars>>
  PROVE  TabInv'
<1>1. TabTypeOK'
  BY DEF accountVars, tabVars, TabInv, TabTypeOK, AccountsTypeOK
<1>2. CallsAreSound' /\ IdentityIsOwn' /\ SavedIsOwn' /\ KeptIsOwn'
  BY DEF accountVars, tabVars, TabInv, CallsAreSound, IdentityIsOwn, SavedIsOwn, KeptIsOwn,
         Rightly, Holder, Phone, Inside, UnderWay
<1> QED
  BY <1>1, <1>2 DEF TabInv

LEMMA TabInvNext ==
  ASSUME TabInv, [TabNext]_<<accountVars, tabVars>>
  PROVE  TabInv'
<1>0. "me" \in Calls /\ "login" \in Calls /\ "change" \in Calls /\ "fetch" \in Calls
  BY DEF Calls
<1>1. CASE Logout
  BY <1>1, LogoutKeeps
<1>2. CASE Reload \/ CloseTab
  BY <1>2, ReloadKeeps, CloseTabKeeps
<1>3. CASE \E p \in {"login", "day", "jobs"} : Navigate(p)
  BY <1>3, NavigateKeeps DEF Pages
<1>4. CASE MeAnswered \/ MeOffline
  BY <1>4, MeAnsweredKeeps, MeOfflineKeeps
<1>5. CASE MeUnauthorized \/ LoginRefused \/ ChangeRefused \/ FetchUnauthorized
  BY <1>0, <1>5, UnauthorizedKeeps DEF MeUnauthorized, LoginRefused, ChangeRefused, FetchUnauthorized
<1>6. CASE MeFails
  BY <1>0, <1>6, SessionEnds DEF MeFails
<1>7. CASE \E u \in Users : Login(u)
  BY <1>7, LoginKeeps
<1>8. CASE LoginAnswered \/ ChangeAnswered
  BY <1>8, LoginAnsweredKeeps, ChangeAnsweredKeeps
<1>9. CASE (\E c \in Calls : NoAnswer(c)) \/ FetchFails
  BY <1>0, <1>9, NoAnswerKeeps DEF NoAnswer, FetchFails
<1>10. CASE ChangePassword \/ ChangeCommits
  BY <1>10, ChangePasswordKeeps, ChangeCommitsKeeps
<1>11. CASE Fetches \/ Fetched \/ FetchedFromCache
  BY <1>11, FetchesKeeps, FetchedKeeps, FetchedFromCacheKeeps
<1>12. CASE (\E u \in Users : Fill(u)) \/ (\E q \in Queries : Forget(q)) \/ TooOld
  BY <1>12, StoredKeeps
<1>13. CASE (\E t \in DOMAIN issued : Expires(t)) /\ UNCHANGED tabVars
  BY <1>13, ExpiresKeeps
<1>14. CASE UNCHANGED <<accountVars, tabVars>>
  BY <1>14, TabStutterKeeps
<1> QED
  BY <1>1, <1>2, <1>3, <1>4, <1>5, <1>6, <1>7, <1>8, <1>9, <1>10, <1>11, <1>12, <1>13, <1>14
     DEF TabNext

LEMMA TabInvIsEnough == TabInv => TabIsOwn
<1> SUFFICES ASSUME TabInv PROVE DataIsOwn
  BY DEF TabInv, TabIsOwn
<1> SUFFICES ASSUME Phone, Inside, tab.session # Nobody, ~crossed
             PROVE  Shown \in {tab.session, Nobody} \cup left \cup dirty
  BY DEF DataIsOwn
<1>1. tab.token # 0 /\ tab.session = Holder(tab.token)
  BY DEF TabInv, CallsAreSound, IdentityIsOwn
<1>2. QueryOf(tab.page, tab.session) \in Queries
  BY TabTypes DEF TabInv, Tabs, Persons, QueryOf, Queries
<1> QED
  BY <1>1, <1>2 DEF TabInv, KeptIsOwn, Rightly, Shown

(* Whoever uses the tab one after the other, and in whatever order calls   *)
(* are answered: the session a page shows is the one its requests act      *)
(* for, and on the phone the tasks are those of the technician it shows,   *)
(* except where the code lets an answer asked for by another in.           *)
THEOREM TabOwn == TabSpec => []TabIsOwn
<1>1. TabInv /\ [TabNext]_<<accountVars, tabVars>> => TabInv'
  BY TabInvNext
<1> QED
  BY <1>1, TabInvInit, TabInvIsEnough, PTL DEF TabSpec
=============================================================================
