--------------------------- MODULE OnboardingProofs --------------------------
(* Proofs about Onboarding and its page: the page only takes steps of the   *)
(* server's specification, so that what is proved of a session holds with   *)
(* the page; answered facts are kept, a finalised session is final, and a   *)
(* session makes one tenant unless finalisations overlap or fail.           *)
EXTENDS OnboardingPage, FiniteSetTheorems, TLAPS

(* The page implements the server's specification: it only decides which    *)
(* requests begin, and when.                                                *)
LEMMA PageImplements == PageSpec => Spec
  <1>1. PageInit => Init
    BY DEF PageInit
  <1>2. ASSUME [PageNext]_allVars
        PROVE  [Next]_vars
    <2>1. CASE UNCHANGED allVars
      BY <2>1 DEF allVars
    <2>2. ASSUME NEW k \in Kinds, NEW r \in OfKind(k), Submit(k, r)
          PROVE  Next
      BY <2>2 DEF Submit, OfKind, Kinds, Next, Requests
    <2>3. CASE Server
      BY <2>3 DEF Next
    <2>4. CASE UNCHANGED vars
      BY <2>4
    <2>5. CASE Page
      BY <2>2, <2>4, <2>5 DEF Page, Hear, LoseAnswer, Reload, Refresh
    <2> QED BY <1>2, <2>1, <2>3, <2>5 DEF PageNext
  <1> QED BY <1>1, <1>2, PTL DEF PageSpec, Spec

-----------------------------------------------------------------------------
(* Versions: who owns the session, and what that means for its draft.       *)

(* A message that has reserved and whose version is still the session's is  *)
(* the only one to write; what it recorded includes the draft.  The same    *)
(* holds of one that has read and could reserve.                            *)
VersionsAreSound ==
  \A m \in Messages :
    /\ pc[m] = "read" =>
         /\ turn[m].seen <= session.version
         /\ turn[m].seen = session.version => session.draft \subseteq turn[m].facts
    /\ pc[m] \in {"chatting", "answered", "failing"} =>
         /\ turn[m].seen < session.version
         /\ Owns(m) => session.status = "IN_PROGRESS" /\ session.draft \subseteq turn[m].facts

ClosedHasExpired == session.status = "FINALIZED" => session.expires = "past"

IInv == TypeOK /\ VersionsAreSound /\ ClosedHasExpired /\ promised \subseteq session.draft

LEMMA InitHolds == Init => IInv
  BY OnboardingAssumption
  DEF Init, IInv, TypeOK, Session, Status, Turn, NoTurn, Names, VersionsAreSound,
      ClosedHasExpired, Requests, Owns

-----------------------------------------------------------------------------
(* One lemma per kind of request; fact of TypeOK and of the versions.       *)

LEMMA BeginStep ==
  ASSUME IInv, NEW r \in Requests, Begin(r) \/ Fail(r)
  PROVE  IInv'
  <1>1. CASE Begin(r)
    BY <1>1
    DEF Begin, Goto, IInv, TypeOK, VersionsAreSound, ClosedHasExpired, Requests, Owns,
        tenantVars
  <1>2. CASE Fail(r)
    <2>1. /\ pc' = [pc EXCEPT ![r] = "ended"]
          /\ reply' \in [Finals -> {"none", "ok", "refused", "failed"}]
          /\ turn' = [m \in Messages |-> IF m = r THEN NoTurn ELSE turn[m]]
          /\ UNCHANGED <<session, docs, tenantVars, history>>
      BY <1>2 DEF Fail, EndFinal, End, Goto, IInv, TypeOK
    <2> QED
      BY <2>1
      DEF IInv, TypeOK, VersionsAreSound, ClosedHasExpired, Requests, Owns, Turn, NoTurn,
          tenantVars, history
  <1> QED BY <1>1, <1>2

LEMMA MessageStepLemma ==
  ASSUME IInv, NEW m \in Messages, MessageStep(m)
  PROVE  IInv'
  <1> USE OnboardingAssumption
      DEF IInv, TypeOK, VersionsAreSound, ClosedHasExpired, Requests, Owns, Turn, NoTurn,
          tenantVars, history, Session, Status
  <1>1. CASE MessageReads(m)
    <2>1. CASE ~MayChat /\ EndTurn(m)
      BY <1>1, <2>1 DEF MessageReads, Goto, End, EndTurn
    <2>2. CASE MayChat /\ Goto(m, "read")
      <3> DEFINE t == [seen |-> session.version, budget |-> Least(MaxTurns, Remaining), used |-> 0,
                       facts |-> session.draft, ready |-> "no"]
      <3>1. t \in Turn
        BY <2>2 DEF MayChat, Remaining, Least
      <3>2. turn' = [turn EXCEPT ![m] = t]
        BY <1>1, <2>2 DEF MessageReads, MayChat, EndTurn, End, Goto
      <3> HIDE DEF t
      <3>3. TypeOK'
        BY <1>1, <2>2, <3>1, <3>2 DEF MessageReads, Goto
      <3>4. t.seen = session.version /\ t.facts = session.draft
        BY DEF t
      <3> QED BY <1>1, <2>2, <3>1, <3>2, <3>3, <3>4 DEF MessageReads, Goto
    <2> QED BY <1>1, <2>1, <2>2 DEF MessageReads
  <1>2. CASE MessageReserves(m)
    <2>1. CASE EndTurn(m) /\ UNCHANGED session
      BY <1>2, <2>1 DEF MessageReserves, Goto, End, EndTurn
    <2>2. CASE Reservable(m) /\ Goto(m, "chatting") /\ UNCHANGED turn
               /\ session' = [session EXCEPT !.version = @ + 1, !.llmCallCount = @ + turn[m].budget]
      <3>1. session' \in Session /\ session'.version = session.version + 1
            /\ session'.status = session.status /\ session'.draft = session.draft
            /\ session'.expires = session.expires
        <4>1. session.version + 1 \in Nat /\ session.llmCallCount + turn[m].budget \in Int
          OBVIOUS
        <4> QED BY <2>2, <4>1
      <3>2. TypeOK'
        BY <1>2, <2>2, <3>1 DEF MessageReserves, Goto
      <3> QED BY <1>2, <2>2, <3>1, <3>2 DEF MessageReserves, Goto, Reservable
    <2> QED BY <1>2, <2>1, <2>2 DEF MessageReserves
  <1>3. CASE MessageCalls(m)
    <2>1. PICK t \in Turn, pcm \in {"answered", "chatting"} :
            /\ turn' = [turn EXCEPT ![m] = t] /\ Goto(m, pcm)
            /\ t.seen = turn[m].seen /\ turn[m].facts \subseteq t.facts
      <3>1. CASE turn' = [turn EXCEPT ![m].used = @ + 1] /\ Goto(m, "answered")
        <4> DEFINE t == [turn[m] EXCEPT !.used = @ + 1]
        <4>1. t \in Turn /\ t.seen = turn[m].seen /\ t.facts = turn[m].facts
          OBVIOUS
        <4> QED BY <3>1, <4>1
      <3>2. ASSUME NEW new \in SUBSET Facts, NEW ready \in {turn[m].ready, "yes"},
                   turn' = [turn EXCEPT ![m].used = @ + 1, ![m].facts = @ \cup new,
                                        ![m].ready = ready],
                   Goto(m, IF turn[m].used + 1 >= turn[m].budget THEN "answered" ELSE "chatting")
            PROVE  \E t \in Turn, pcm \in {"answered", "chatting"} :
                     /\ turn' = [turn EXCEPT ![m] = t] /\ Goto(m, pcm)
                     /\ t.seen = turn[m].seen /\ turn[m].facts \subseteq t.facts
        <4> DEFINE t == [turn[m] EXCEPT !.used = @ + 1, !.facts = @ \cup new, !.ready = ready]
        <4>1. t \in Turn /\ t.seen = turn[m].seen /\ t.facts = turn[m].facts \cup new
          <5>1. /\ turn[m] \in Turn /\ turn[m].used + 1 \in Nat
                /\ turn[m].facts \cup new \in SUBSET Facts /\ ready \in {"no", "yes"}
            OBVIOUS
          <5> QED BY <5>1 DEF Turn
        <4>2. turn' = [turn EXCEPT ![m] = t]
          BY <3>2
        <4> QED BY <3>2, <4>1, <4>2
      <3> QED BY <1>3, <3>1, <3>2 DEF MessageCalls
    <2>2. /\ pc' = [pc EXCEPT ![m] = pcm] /\ calls' \in Nat
          /\ UNCHANGED <<session, docs, tenantVars, reply, promised, together>>
      <3>1. calls' = calls + 1 /\ UNCHANGED <<session, docs, tenantVars, promised, together>>
        BY <1>3 DEF MessageCalls
      <3>2. pc' = [pc EXCEPT ![m] = pcm] /\ UNCHANGED reply
        BY <2>1 DEF Goto
      <3> QED BY <3>1, <3>2
    <2>3. TypeOK'
      BY <2>1, <2>2
    <2>4. pc[m] = "chatting"
      BY <1>3 DEF MessageCalls
    <2> QED BY <2>1, <2>2, <2>3, <2>4
  <1>4. CASE MessageCallFails(m)
    BY <1>4 DEF MessageCallFails, Goto
  <1>5. CASE MessageReleases(m)
    <2>1. session' \in Session /\ session'.status = session.status
          /\ session'.draft = session.draft /\ session'.expires = session.expires
          /\ session'.version \in {session.version, session.version + 1}
      <3>1. session.version + 1 \in Nat /\ session.llmCallCount - Unused(m) \in Int
        BY DEF Unused
      <3> QED BY <1>5, <3>1 DEF MessageReleases
    <2>2. pc' = [pc EXCEPT ![m] = "ended"] /\ turn' = [turn EXCEPT ![m] = NoTurn]
          /\ UNCHANGED <<docs, tenantVars, history, reply>>
      BY <1>5 DEF MessageReleases, End, EndTurn, Goto
    <2>3. TypeOK'
      BY <2>1, <2>2
    <2> QED BY <2>1, <2>2, <2>3
  <1>6. CASE MessageWrites(m)
    <2>1. CASE ~Owns(m)
      BY <1>6, <2>1 DEF MessageWrites, End, EndTurn, Goto
    <2>2. CASE Owns(m)
      <3>1. session.version + 1 \in Nat /\ session.llmCallCount - Unused(m) \in Int
        BY DEF Unused
      <3>2. /\ session' \in Session /\ session'.draft = turn[m].facts
            /\ session'.expires = session.expires /\ session'.version = session.version + 1
            /\ session'.status \in {session.status, "READY_TO_FINALIZE"}
        BY <1>6, <2>2, <3>1 DEF MessageWrites
      <3>3. /\ pc' = [pc EXCEPT ![m] = "ended"] /\ turn' = [turn EXCEPT ![m] = NoTurn]
            /\ promised' = promised \cup turn[m].facts
            /\ UNCHANGED <<docs, tenantVars, reply, calls, together>>
        BY <1>6, <2>2 DEF MessageWrites, End, EndTurn, Goto
      <3>4. pc[m] = "answered"
        BY <1>6 DEF MessageWrites
      <3>5. TypeOK'
        BY <3>2, <3>3
      <3>6. session.status = "IN_PROGRESS" /\ promised' \subseteq session'.draft
        BY <2>2, <3>2, <3>3, <3>4
      <3>7. VersionsAreSound'
        BY <3>2, <3>3, <3>5
      <3> QED BY <3>2, <3>5, <3>6, <3>7
    <2> QED BY <2>1, <2>2
  <1> QED BY <1>1, <1>2, <1>3, <1>4, <1>5, <1>6 DEF MessageStep

LEMMA OtherSteps ==
  ASSUME IInv,
         \/ Expire
         \/ \E u \in Uploads : UploadStep(u)
         \/ \E f \in Finals : FinalStep(f)
  PROVE  IInv'
  <1> USE OnboardingAssumption
      DEF IInv, TypeOK, VersionsAreSound, ClosedHasExpired, Requests, Owns, Session, Status,
          tenantVars, history
  <1>1. CASE Expire
    BY <1>1 DEF Expire
  <1>2. ASSUME NEW u \in Uploads, UploadStep(u)
        PROVE  IInv'
    BY <1>2 DEF UploadStep, UploadReads, UploadReserves, UploadStores, End, Goto
  <1>3. ASSUME NEW f \in Finals, FinalReads(f) \/ FinalNames(f) \/ FinalCreates(f)
        PROVE  IInv'
    BY <1>3 DEF FinalReads, FinalNames, FinalCreates, EndFinal, Goto, Candidates, Names
  <1>4. ASSUME NEW f \in Finals, FinalCloses(f)
        PROVE  IInv'
    <2>1. CASE Closable
      <3>1. session.version + 1 \in Nat
        OBVIOUS
      <3>2. /\ session' \in Session /\ session'.draft = session.draft
            /\ session'.expires = "past" /\ session'.version = session.version + 1
        BY <1>4, <2>1, <3>1 DEF FinalCloses, Closed
      <3>3. /\ pc' = [pc EXCEPT ![f] = "ended"] /\ reply' = [reply EXCEPT ![f] = "ok"]
            /\ UNCHANGED <<docs, tenantVars, turn, history>>
        BY <1>4 DEF FinalCloses, EndFinal
      <3>4. session.status = "READY_TO_FINALIZE"
        BY <2>1 DEF Closable
      <3>5. TypeOK'
        BY <3>2, <3>3
      <3>6. \A m \in Messages : pc'[m] = pc[m] /\ turn'[m] = turn[m] /\ turn[m].seen \in Nat
        <4>1. \A m \in Messages : turn[m].seen \in Nat
          BY DEF Turn
        <4>2. \A m \in Messages : pc'[m] = pc[m]
          BY <3>3
        <4> QED BY <3>3, <4>1, <4>2
      <3>7. session.version \in Nat /\ session'.version = session.version + 1
        BY <3>2
      <3>8. \A m \in Messages : pc[m] \in {"chatting", "answered", "failing"} => ~Owns(m)
        BY <3>4
      <3>9. VersionsAreSound'
        <4> HIDE DEF IInv, TypeOK
        <4> QED BY <3>6, <3>7, <3>8 DEF IInv
      <3> QED BY <3>2, <3>3, <3>5, <3>9
    <2>2. CASE ~Closable
      BY <1>4, <2>2 DEF FinalCloses, EndFinal
    <2> QED BY <2>1, <2>2
  <1> QED BY <1>1, <1>2, <1>3, <1>4 DEF FinalStep

LEMMA Inductive == Spec => []IInv
  <1>1. Init => IInv
    BY InitHolds
  <1>2. ASSUME IInv, [Next]_vars
        PROVE  IInv'
    <2>1. CASE UNCHANGED vars
      BY <1>2, <2>1
      DEF vars, tenantVars, history, IInv, TypeOK, VersionsAreSound, ClosedHasExpired, Owns
    <2>2. ASSUME NEW r \in Requests, Begin(r) \/ Fail(r)
          PROVE  IInv'
      BY <1>2, <2>2, BeginStep
    <2>3. ASSUME NEW m \in Messages, MessageStep(m)
          PROVE  IInv'
      BY <1>2, <2>3, MessageStepLemma
    <2>4. CASE \/ Expire
               \/ \E u \in Uploads : UploadStep(u)
               \/ \E f \in Finals : FinalStep(f)
      BY <1>2, <2>4, OtherSteps
    <2> QED BY <1>2, <2>1, <2>2, <2>3, <2>4 DEF Next, Server
  <1> QED BY <1>1, <1>2, PTL DEF Spec

(* What a message answered with 200 recorded stays in the session, however *)
(* many messages, uploads and finalisations run beside it.                 *)
THEOREM AnsweredKept == PageSpec => []AnsweredIsKept
  <1>1. IInv => AnsweredIsKept
    BY DEF IInv, AnsweredIsKept
  <1> QED BY <1>1, PageImplements, Inductive, PTL
(* A finalised session is final for every number of requests: a turn that  *)
(* owns the session finds it in progress, and nothing expires twice.       *)
THEOREM FinalKept == PageSpec => FinalIsFinal
  <1> DEFINE Same == session' = [session EXCEPT !.llmCallCount = session'.llmCallCount]
  <1>1. ASSUME IInv, [Next]_vars, session.status = "FINALIZED"
        PROVE  Same
    <2>1. session \in Session
      BY <1>1 DEF IInv, TypeOK
    <2>2. ASSUME UNCHANGED session
          PROVE  Same
      BY <2>1, <2>2 DEF Session
    <2>3. ASSUME NEW m \in Messages, MessageStep(m)
          PROVE  UNCHANGED session
      <3>1. pc[m] \in {"chatting", "answered", "failing"} => ~Owns(m)
        BY <1>1 DEF IInv, VersionsAreSound
      <3> QED
        BY <1>1, <2>3, <3>1
        DEF MessageStep, MessageReads, MessageReserves, MessageCalls, MessageCallFails,
            MessageReleases, MessageWrites, Reservable
    <2>4. ASSUME NEW u \in Uploads, UploadStep(u)
          PROVE  Same
      <3>1. CASE UNCHANGED session
        BY <2>2, <3>1
      <3>2. CASE session' = [session EXCEPT !.llmCallCount = @ + 1]
        BY <2>1, <3>2 DEF Session
      <3> QED BY <2>4, <3>1, <3>2 DEF UploadStep, UploadReads, UploadReserves, UploadStores
    <2>5. ASSUME NEW f \in Finals, FinalStep(f)
          PROVE  UNCHANGED session
      BY <1>1, <2>5
      DEF FinalStep, FinalReads, FinalNames, FinalCreates, FinalCloses, Closable
    <2>6. CASE Expire
      BY <1>1, <2>6 DEF Expire, Alive, IInv, ClosedHasExpired
    <2>7. CASE \E r \in Requests : Begin(r) \/ Fail(r)
      BY <2>2, <2>7 DEF Begin, Fail
    <2>8. CASE UNCHANGED vars
      BY <2>2, <2>8 DEF vars
    <2> QED
      BY <1>1, <2>2, <2>3, <2>4, <2>5, <2>6, <2>7, <2>8 DEF Next, Server
  <1>2. Spec => [][session.status = "FINALIZED" => Same]_vars
    BY <1>1, Inductive, PTL DEF Spec
  <1> QED BY <1>2, PageImplements, PTL DEF FinalIsFinal

-----------------------------------------------------------------------------
(* Tenants: who has made one, and who is still on the way to make one.      *)

OnTheWay(f) == pc[f] \in {"read", "named", "created"}

TenantsAreSound ==
  /\ \A f \in tenants : \/ pc[f] = "created"
                        \/ pc[f] = "ended" /\ reply[f] \in {"ok", "failed"}
  /\ \A f \in Finals : reply[f] # "none" => pc[f] = "ended"
  /\ \A f \in Finals : pc[f] = "created" => f \in tenants
  /\ \A f \in Finals : reply[f] = "ok" => f \in tenants /\ session.status = "FINALIZED"
  /\ \A f \in Finals : OnTheWay(f) => session.status # "IN_PROGRESS"
  /\ session.status = "FINALIZED" => session.tenant \in tenants /\ reply[session.tenant] = "ok"

RivalsAreKnown ==
  /\ \A f, g \in Finals : f # g /\ InProgress(f) /\ InProgress(g) => {f, g} \in together
  /\ \A f \in tenants, g \in Finals :
       f # g /\ OnTheWay(g) => {f, g} \in together \/ reply[f] = "failed"

NamesAreSound == \A f \in tenants : name[f] \in taken

TInv == IInv /\ TenantsAreSound /\ RivalsAreKnown /\ NamesAreSound /\ OneTenant

LEMMA TenantsInit == Init => TInv
  <1>1. Init => IInv
    BY InitHolds
  <1>2. Init => TenantsAreSound /\ RivalsAreKnown /\ NamesAreSound /\ OneTenant
    BY DEF Init, TenantsAreSound, RivalsAreKnown, NamesAreSound, OneTenant, OnTheWay,
           InProgress, Requests
  <1> QED BY <1>1, <1>2 DEF TInv

(* A step that touches no finalisation and takes no status back. *)
LEMMA TenantsFrame ==
  ASSUME TInv, IInv',
         \A f \in Finals : pc'[f] = pc[f],
         reply' = reply, tenantVars' = tenantVars, together \subseteq together',
         session'.tenant = session.tenant,
         \/ session'.status = session.status
         \/ session.status = "IN_PROGRESS" /\ session'.status = "READY_TO_FINALIZE"
  PROVE  TInv'
  <1> USE DEF TInv, tenantVars
  <1>1. tenants \subseteq Finals
    BY DEF IInv, TypeOK
  <1>2. TenantsAreSound'
    BY <1>1 DEF TenantsAreSound, OnTheWay
  <1>3. RivalsAreKnown'
    BY <1>1 DEF RivalsAreKnown, OnTheWay, InProgress
  <1>4. NamesAreSound'
    BY DEF NamesAreSound
  <1>5. OneTenant'
    BY DEF OneTenant, Overlapping
  <1> QED BY <1>2, <1>3, <1>4, <1>5

LEMMA TenantsKept ==
  ASSUME TInv, IInv', [Next]_vars
  PROVE  TInv'
  <1> USE OnboardingAssumption DEF Requests
  <1>1. TypeOK /\ session \in Session /\ tenants \subseteq Finals
    BY DEF TInv, IInv, TypeOK
  <1>2. CASE UNCHANGED vars
    <2>1. /\ \A f \in Finals : pc'[f] = pc[f]
          /\ reply' = reply /\ tenantVars' = tenantVars /\ together \subseteq together'
          /\ session' = session
      BY <1>2 DEF vars, history
    <2> QED BY <2>1, TenantsFrame
  <1>3. CASE Expire
    <2>1. /\ \A f \in Finals : pc'[f] = pc[f]
          /\ reply' = reply /\ tenantVars' = tenantVars /\ together \subseteq together'
          /\ session'.status = session.status /\ session'.tenant = session.tenant
      BY <1>1, <1>3 DEF Expire, history, Session
    <2> QED BY <2>1, TenantsFrame
  <1>4. ASSUME NEW m \in Messages, MessageStep(m)
        PROVE  TInv'
    <2>1. \A f \in Finals : pc'[f] = pc[f]
      <3>1. \E l : pc' = [pc EXCEPT ![m] = l]
        BY <1>4
        DEF MessageStep, MessageReads, MessageReserves, MessageCalls, MessageCallFails,
            MessageReleases, MessageWrites, EndTurn, End, Goto
      <3> QED BY <1>1, <3>1 DEF TypeOK
    <2>2. reply' = reply /\ tenantVars' = tenantVars /\ together \subseteq together'
      BY <1>4
      DEF MessageStep, MessageReads, MessageReserves, MessageCalls, MessageCallFails,
          MessageReleases, MessageWrites, EndTurn, End, Goto, history
    <2>3. /\ session'.tenant = session.tenant
          /\ \/ session'.status = session.status
             \/ session.status = "IN_PROGRESS" /\ session'.status = "READY_TO_FINALIZE"
      <3>1. pc[m] = "answered" /\ Owns(m) => session.status = "IN_PROGRESS"
        BY DEF TInv, IInv, VersionsAreSound
      <3>2. CASE MessageWrites(m)
        BY <1>1, <3>1, <3>2 DEF MessageWrites, Session
      <3>3. CASE ~MessageWrites(m)
        BY <1>1, <1>4, <3>3
        DEF MessageStep, MessageReads, MessageReserves, MessageCalls, MessageCallFails,
            MessageReleases, Session
      <3> QED BY <3>2, <3>3
    <2> QED BY <2>1, <2>2, <2>3, TenantsFrame
  <1>5. ASSUME NEW u \in Uploads, UploadStep(u)
        PROVE  TInv'
    <2>1. /\ \A f \in Finals : pc'[f] = pc[f]
          /\ reply' = reply /\ tenantVars' = tenantVars /\ together \subseteq together'
      BY <1>1, <1>5
      DEF TypeOK, UploadStep, UploadReads, UploadReserves, UploadStores, End, Goto, history
    <2>2. session'.status = session.status /\ session'.tenant = session.tenant
      BY <1>1, <1>5 DEF UploadStep, UploadReads, UploadReserves, UploadStores, Session
    <2> QED BY <2>1, <2>2, TenantsFrame
  <1>6. ASSUME NEW r \in Messages \cup Uploads, Begin(r) \/ Fail(r)
        PROVE  TInv'
    <2>1. /\ \A f \in Finals : pc'[f] = pc[f]
          /\ reply' = reply /\ tenantVars' = tenantVars /\ together \subseteq together'
          /\ session' = session
      BY <1>1, <1>6 DEF TypeOK, Begin, Fail, End, Goto, history
    <2> QED BY <2>1, TenantsFrame
  <1>7. ASSUME NEW f \in Finals, Begin(f)
        PROVE  TInv'
    <2>1. /\ pc[f] = "new" /\ pc' = [pc EXCEPT ![f] = "sent"]
          /\ reply' = reply /\ tenantVars' = tenantVars /\ session' = session
          /\ \A g \in Finals : g # f /\ InProgress(g) => {f, g} \in together'
          /\ together \subseteq together'
      BY <1>7 DEF Begin, Goto, Rivals
    <2>2. \A g \in Finals : pc'[g] = IF g = f THEN "sent" ELSE pc[g]
      BY <1>1, <2>1 DEF TypeOK
    <2>3. TenantsAreSound'
      BY <1>1, <2>1, <2>2 DEF TInv, TenantsAreSound, OnTheWay, tenantVars
    <2>4. RivalsAreKnown'
      <3>1. \A g, h : {g, h} = {h, g}
        OBVIOUS
      <3> QED
        BY <1>1, <2>1, <2>2, <3>1 DEF TInv, RivalsAreKnown, OnTheWay, InProgress, tenantVars
    <2>5. NamesAreSound' /\ OneTenant'
      BY <2>1 DEF TInv, NamesAreSound, OneTenant, Overlapping, tenantVars
    <2> QED BY <2>3, <2>4, <2>5 DEF TInv
  <1>8. ASSUME NEW f \in Finals, Fail(f)
        PROVE  TInv'
    <2>1. /\ InProgress(f) /\ pc' = [pc EXCEPT ![f] = "ended"]
          /\ reply' = [reply EXCEPT ![f] = "failed"]
          /\ UNCHANGED <<tenants, name, taken, session, together>>
      BY <1>8 DEF Fail, EndFinal, tenantVars, history
    <2>2. \A g \in Finals : /\ pc'[g] = IF g = f THEN "ended" ELSE pc[g]
                            /\ reply'[g] = IF g = f THEN "failed" ELSE reply[g]
      BY <1>1, <2>1 DEF TypeOK
    <2>3. TenantsAreSound'
      BY <1>1, <2>1, <2>2 DEF TInv, TenantsAreSound, OnTheWay, InProgress
    <2>4. RivalsAreKnown'
      BY <1>1, <2>1, <2>2 DEF TInv, RivalsAreKnown, OnTheWay, InProgress
    <2>5. NamesAreSound' /\ OneTenant'
      <3>1. \A g \in Finals : reply'[g] = "ok" <=> g # f /\ reply[g] = "ok"
        BY <2>2
      <3>2. \A g \in tenants : reply[g] = "failed" => reply'[g] = "failed"
        BY <1>1, <2>2
      <3> QED BY <1>1, <2>1, <3>1, <3>2 DEF TInv, NamesAreSound, OneTenant, Overlapping
    <2> QED BY <2>3, <2>4, <2>5 DEF TInv
  <1>9. ASSUME NEW f \in Finals, FinalReads(f) \/ FinalNames(f)
        PROVE  TInv'
    <2>1. PICK l \in {"read", "named", "ended"} :
            /\ pc' = [pc EXCEPT ![f] = l]
            /\ reply' = IF l = "ended" THEN [reply EXCEPT ![f] = "refused"] ELSE reply
            /\ l = "read" => pc[f] = "sent" /\ session.status = "READY_TO_FINALIZE"
            /\ l = "named" => pc[f] = "read"
      BY <1>9 DEF FinalReads, FinalNames, Goto, EndFinal
    <2>2. /\ pc[f] \in {"sent", "read"}
          /\ UNCHANGED <<tenants, taken, session, together>>
          /\ \A g \in Finals : g # f => name'[g] = name[g]
      BY <1>1, <1>9 DEF FinalReads, FinalNames, tenantVars, history, TypeOK
    <2>3. \A g \in Finals :
            /\ pc'[g] = IF g = f THEN l ELSE pc[g]
            /\ reply'[g] = IF g = f /\ l = "ended" THEN "refused" ELSE reply[g]
      BY <1>1, <2>1 DEF TypeOK
    <2>4. f \notin tenants /\ reply[f] # "ok"
      BY <2>2 DEF TInv, TenantsAreSound
    <2>5. TenantsAreSound'
      BY <1>1, <2>1, <2>2, <2>3, <2>4 DEF TInv, TenantsAreSound, OnTheWay
    <2>6. RivalsAreKnown'
      <3>1. \A g \in tenants : l = "read" /\ g # f =>
              {g, f} \in together \/ reply[g] = "failed"
        BY <1>1, <2>1, <2>2 DEF TInv, TenantsAreSound, RivalsAreKnown, InProgress
      <3> QED
        BY <1>1, <2>1, <2>2, <2>3, <2>4, <3>1
        DEF TInv, RivalsAreKnown, OnTheWay, InProgress
    <2>7. NamesAreSound' /\ OneTenant'
      <3>1. \A g \in Finals : reply'[g] = "ok" <=> reply[g] = "ok"
        BY <2>3, <2>4
      <3>2. \A g \in tenants : reply'[g] = reply[g] /\ name'[g] = name[g]
        BY <1>1, <2>2, <2>3, <2>4
      <3>3. NamesAreSound'
        BY <2>2, <3>2 DEF TInv, NamesAreSound
      <3>4. \A g, h \in tenants : g # h => \/ {g, h} \in together
                                          \/ "failed" \in {reply'[g], reply'[h]}
        BY <3>2 DEF TInv, OneTenant
      <3>5. \A g, h \in tenants : g # h => name'[g] # name'[h]
        BY <3>2 DEF TInv, OneTenant
      <3>6. \A g \in Finals : reply'[g] = "ok" => session.tenant = g \/ Overlapping(g, Finals)
        BY <3>1 DEF TInv, OneTenant
      <3> QED BY <2>2, <3>3, <3>4, <3>5, <3>6 DEF OneTenant, Overlapping
    <2> QED BY <2>5, <2>6, <2>7 DEF TInv
  <1>10. ASSUME NEW f \in Finals, FinalCreates(f)
         PROVE  TInv'
    <2>1. CASE TakenByOther(f)
      <3>1. /\ pc[f] = "named" /\ pc' = [pc EXCEPT ![f] = "ended"]
            /\ reply' = [reply EXCEPT ![f] = "refused"]
            /\ UNCHANGED <<tenants, name, taken, session, together>>
        BY <1>10, <2>1 DEF FinalCreates, EndFinal, history
      <3>2. \A g \in Finals : /\ pc'[g] = IF g = f THEN "ended" ELSE pc[g]
                              /\ reply'[g] = IF g = f THEN "refused" ELSE reply[g]
        BY <1>1, <3>1 DEF TypeOK
      <3>3. f \notin tenants /\ reply[f] # "ok"
        BY <3>1 DEF TInv, TenantsAreSound
      <3>4. TenantsAreSound'
        BY <1>1, <3>1, <3>2, <3>3 DEF TInv, TenantsAreSound, OnTheWay
      <3>5. RivalsAreKnown'
        BY <1>1, <3>1, <3>2, <3>3 DEF TInv, RivalsAreKnown, OnTheWay, InProgress
      <3>6. NamesAreSound' /\ OneTenant'
        BY <1>1, <3>1, <3>2, <3>3 DEF TInv, NamesAreSound, OneTenant, Overlapping
      <3> QED BY <3>4, <3>5, <3>6 DEF TInv
    <2>2. CASE ~TakenByOther(f)
      <3>1. /\ pc[f] = "named" /\ pc' = [pc EXCEPT ![f] = "created"] /\ reply' = reply
            /\ tenants' = tenants \cup {f} /\ taken' = taken \cup {name[f]}
            /\ UNCHANGED <<name, session, together>>
        BY <1>10, <2>2 DEF FinalCreates, Goto, history
      <3>2. \A g \in Finals : pc'[g] = IF g = f THEN "created" ELSE pc[g]
        BY <1>1, <3>1 DEF TypeOK
      <3>3. f \notin tenants /\ reply[f] = "none"
        BY <1>1, <3>1 DEF TInv, TenantsAreSound
      <3>4. TenantsAreSound'
        BY <1>1, <3>1, <3>2, <3>3 DEF TInv, TenantsAreSound, OnTheWay
      <3>5. \A g \in Finals : g # f /\ OnTheWay(g) => {f, g} \in together
        BY <3>1 DEF TInv, RivalsAreKnown, OnTheWay, InProgress
      <3>6. RivalsAreKnown'
        BY <1>1, <3>1, <3>2, <3>5 DEF TInv, RivalsAreKnown, OnTheWay, InProgress
      <3>7. \A g \in tenants : {f, g} \in together \/ reply[g] = "failed"
        <4>1. \A g : {f, g} = {g, f}
          OBVIOUS
        <4> QED BY <3>1, <3>3, <4>1 DEF TInv, RivalsAreKnown, OnTheWay
      <3>8. NamesAreSound'
        BY <3>1 DEF TInv, NamesAreSound
      <3>9. \A g \in tenants : name[g] # name[f]
        BY <2>2 DEF TInv, NamesAreSound, TakenByOther
      <3>10. OneTenant'
        <4>1. \A g : {f, g} = {g, f}
          OBVIOUS
        <4> QED BY <1>1, <3>1, <3>3, <3>7, <3>9, <4>1 DEF TInv, OneTenant, Overlapping
      <3> QED BY <3>4, <3>6, <3>8, <3>10 DEF TInv
    <2> QED BY <2>1, <2>2
  <1>11. ASSUME NEW f \in Finals, FinalCloses(f)
         PROVE  TInv'
    <2>1. /\ pc[f] = "created" /\ pc' = [pc EXCEPT ![f] = "ended"]
          /\ reply' = [reply EXCEPT ![f] = "ok"]
          /\ UNCHANGED <<tenants, name, taken, together>>
      BY <1>11 DEF FinalCloses, EndFinal, tenantVars, history
    <2>2. \A g \in Finals : /\ pc'[g] = IF g = f THEN "ended" ELSE pc[g]
                            /\ reply'[g] = IF g = f THEN "ok" ELSE reply[g]
      BY <1>1, <2>1 DEF TypeOK
    <2>3. f \in tenants /\ session.status # "IN_PROGRESS"
      BY <2>1 DEF TInv, TenantsAreSound, OnTheWay
    <2>4. /\ session'.status = "FINALIZED"
          /\ session'.tenant = IF Closable THEN f ELSE session.tenant
      <3>1. CASE Closable
        <4>1. session' = [session EXCEPT !.status = "FINALIZED", !.tenant = f,
                                         !.expires = "past", !.version = session.version + 1]
          BY <1>11, <3>1 DEF FinalCloses, Closed
        <4> QED BY <1>1, <3>1, <4>1 DEF Session
      <3>2. CASE ~Closable
        BY <1>1, <1>11, <2>3, <3>2 DEF FinalCloses, Closable, Session, Status
      <3> QED BY <3>1, <3>2
    <2>5. ~Closable => /\ session.tenant \in tenants /\ session.tenant # f
                       /\ {session.tenant, f} \in together
      <3>1. ~Closable => session.status = "FINALIZED"
        BY <1>1, <2>3 DEF Closable, Session, Status
      <3>2. ~Closable => session.tenant \in tenants /\ reply[session.tenant] = "ok"
        BY <3>1 DEF TInv, TenantsAreSound
      <3> QED
        BY <1>1, <2>1, <3>2 DEF TInv, TenantsAreSound, RivalsAreKnown, OnTheWay
    <2>6. Closable => \A g \in Finals : reply[g] # "ok"
      BY DEF TInv, TenantsAreSound, Closable
    <2>7. TenantsAreSound'
      <3>1. session'.tenant \in tenants' /\ reply'[session'.tenant] = "ok"
        <4>1. session.status = "FINALIZED" \/ Closable
          BY <1>1, <2>3 DEF Closable, Session, Status
        <4>2. CASE Closable
          BY <1>1, <2>1, <2>2, <2>3, <2>4, <4>2
        <4>3. CASE ~Closable
          BY <1>1, <2>1, <2>2, <2>4, <2>5, <4>1, <4>3 DEF TInv, TenantsAreSound
        <4> QED BY <4>2, <4>3
      <3> QED
        BY <1>1, <2>1, <2>2, <2>3, <2>4, <3>1 DEF TInv, TenantsAreSound, OnTheWay
    <2>8. RivalsAreKnown'
      BY <1>1, <2>1, <2>2 DEF TInv, RivalsAreKnown, OnTheWay, InProgress
    <2>9. NamesAreSound'
      BY <2>1 DEF TInv, NamesAreSound
    <2>10. OneTenant'
      <3>1. \A g, h \in tenants' : g # h => \/ {g, h} \in together'
                                           \/ "failed" \in {reply'[g], reply'[h]}
        <4>1. reply[f] = "none"
          BY <1>1, <2>1 DEF TInv, TenantsAreSound, TypeOK
        <4> QED BY <1>1, <2>1, <2>2, <4>1 DEF TInv, OneTenant
      <3>2. \A g, h \in tenants' : g # h => name'[g] # name'[h]
        BY <2>1 DEF TInv, OneTenant
      <3>3. ASSUME NEW g \in Finals, reply'[g] = "ok"
            PROVE  session'.tenant = g \/ Overlapping(g, Finals)'
        <4>1. CASE g = f
          <5>1. {f, session.tenant} = {session.tenant, f}
            OBVIOUS
          <5> QED BY <1>1, <2>1, <2>4, <2>5, <4>1, <5>1 DEF Overlapping
        <4>2. CASE g # f
          BY <2>1, <2>2, <2>4, <2>6, <3>3, <4>2 DEF TInv, OneTenant, Overlapping
        <4> QED BY <4>1, <4>2
      <3> QED BY <3>1, <3>2, <3>3 DEF OneTenant
    <2> QED BY <2>7, <2>8, <2>9, <2>10 DEF TInv
  <1> QED
    BY <1>2, <1>3, <1>4, <1>5, <1>6, <1>7, <1>8, <1>9, <1>10, <1>11
    DEF Next, Server, FinalStep

LEMMA TenantsInductive == Spec => []TInv
  <1>1. Init => TInv
    BY TenantsInit
  <1>2. TInv /\ IInv' /\ [Next]_vars => TInv'
    BY TenantsKept
  <1> QED BY <1>1, <1>2, Inductive, PTL DEF Spec

(* However many finalisations there are, and however slow: two tenants of  *)
(* one session only come of finalisations that ran at once or that failed  *)
(* after the tenant was made.                                              *)
THEOREM OneTenantKept == PageSpec => []OneTenant
  <1>1. TInv => OneTenant
    BY DEF TInv
  <1> QED BY <1>1, PageImplements, TenantsInductive, PTL

-----------------------------------------------------------------------------
(* The page *)

(* What a step of the server never takes back: facts, and being ready. *)
LEMMA ServerGrows ==
  ASSUME IInv, [Next]_vars
  PROVE  /\ session.draft \subseteq session'.draft
         /\ session.status # "IN_PROGRESS" => session'.status # "IN_PROGRESS"
         /\ tenants \subseteq tenants'
  <1> USE DEF tenantVars
  <1>1. session \in Session
    BY DEF IInv, TypeOK
  <1>2. ASSUME NEW m \in Messages, MessageStep(m)
        PROVE  /\ session.draft \subseteq session'.draft
               /\ session.status # "IN_PROGRESS" => session'.status # "IN_PROGRESS"
    <2>1. pc[m] = "answered" /\ Owns(m) =>
            session.status = "IN_PROGRESS" /\ session.draft \subseteq turn[m].facts
      BY DEF IInv, VersionsAreSound
    <2>2. CASE MessageWrites(m)
      BY <1>1, <2>1, <2>2 DEF MessageWrites, Session
    <2>3. CASE ~MessageWrites(m)
      BY <1>1, <1>2, <2>3
      DEF MessageStep, MessageReads, MessageReserves, MessageCalls, MessageCallFails,
          MessageReleases, Session
    <2> QED BY <2>2, <2>3
  <1>3. ASSUME NEW m \in Messages, MessageStep(m)
        PROVE  UNCHANGED tenants
    BY <1>3
    DEF MessageStep, MessageReads, MessageReserves, MessageCalls, MessageCallFails,
        MessageReleases, MessageWrites
  <1>4. ASSUME NEW u \in Uploads, UploadStep(u)
        PROVE  /\ session'.draft = session.draft /\ session'.status = session.status
               /\ UNCHANGED tenants
    BY <1>1, <1>4 DEF UploadStep, UploadReads, UploadReserves, UploadStores, Session
  <1>5. ASSUME NEW f \in Finals, FinalStep(f)
        PROVE  /\ session.draft = session'.draft
               /\ session'.status \in {session.status, "FINALIZED"}
               /\ tenants \subseteq tenants'
    <2>1. CASE FinalCloses(f) /\ Closable
      <3>1. session' = [session EXCEPT !.status = "FINALIZED", !.tenant = f,
                                       !.expires = "past", !.version = session.version + 1]
        BY <2>1 DEF FinalCloses, Closed
      <3> QED BY <1>1, <2>1, <3>1 DEF FinalCloses, Session
    <2>2. CASE ~(FinalCloses(f) /\ Closable)
      BY <1>5, <2>2 DEF FinalStep, FinalReads, FinalNames, FinalCreates, FinalCloses
    <2> QED BY <2>1, <2>2
  <1>6. CASE Expire
    BY <1>1, <1>6 DEF Expire, Session
  <1>7. CASE \E r \in Requests : Begin(r) \/ Fail(r)
    BY <1>7 DEF Begin, Fail
  <1>8. CASE UNCHANGED vars
    BY <1>8 DEF vars
  <1> QED BY <1>2, <1>3, <1>4, <1>5, <1>6, <1>7, <1>8 DEF Next, Server

PInv == TInv /\ ShownIsKept

LEMMA PageStep ==
  ASSUME PInv, TInv', [PageNext]_allVars, [Next]_vars
  PROVE  ShownIsKept'
  <1> USE DEF PInv, ShownIsKept, PageTypeOK
  <1>1. TypeOK'
    BY DEF TInv, IInv
  <1>2. /\ session.draft \subseteq session'.draft
        /\ session.status # "IN_PROGRESS" => session'.status # "IN_PROGRESS"
        /\ tenants \subseteq tenants'
    BY ServerGrows DEF TInv
  <1>3. CASE UNCHANGED pageVars
    BY <1>1, <1>2, <1>3 DEF pageVars
  <1>4. ASSUME NEW k \in Kinds, NEW r \in OfKind(k), Submit(k, r)
        PROVE  ShownIsKept'
    <2>1. r \in Requests
      BY <1>4 DEF OfKind, Kinds, Requests
    <2>2. waiting' \in [Kinds -> Requests \cup {NoRequest}] /\ UNCHANGED <<shown, done, losses>>
      BY <1>4, <2>1 DEF Submit
    <2> QED BY <1>1, <1>2, <2>2
  <1>5. ASSUME NEW k \in Kinds, Hear(k)
        PROVE  ShownIsKept'
    <2>1. waiting' \in [Kinds -> Requests \cup {NoRequest}] /\ UNCHANGED <<shown, losses, vars>>
      BY <1>5 DEF Hear
    <2>2. done' \in tenants \/ done' = done
      BY <1>5 DEF Hear, Succeeded, TInv, TenantsAreSound
    <2>3. tenants \subseteq Finals
      BY DEF TInv, IInv, TypeOK
    <2> QED BY <1>1, <1>2, <2>1, <2>2, <2>3
  <1>6. ASSUME NEW k \in Kinds, LoseAnswer(k)
        PROVE  ShownIsKept'
    <2>1. losses' \in 0 .. MaxLosses
      BY <1>6, PageAssumption DEF LoseAnswer
    <2>2. waiting' \in [Kinds -> Requests \cup {NoRequest}] /\ UNCHANGED <<shown, done, vars>>
      BY <1>6 DEF LoseAnswer
    <2> QED BY <1>1, <1>2, <2>1, <2>2
  <1>7. CASE Reload
    <2>1. losses' \in 0 .. MaxLosses
      BY <1>7, PageAssumption DEF Reload
    <2>2. /\ waiting' \in [Kinds -> Requests \cup {NoRequest}] /\ UNCHANGED <<done, vars>>
          /\ shown' = [status |-> "none", draft |-> {}]
      BY <1>7 DEF Reload
    <2> QED BY <1>1, <1>2, <2>1, <2>2
  <1>8. CASE Refresh
    <2>1. session \in Session /\ UNCHANGED <<vars, waiting, done, losses>>
          /\ shown' = [status |-> session.status, draft |-> session.draft]
      BY <1>8 DEF Refresh, TInv, IInv, TypeOK
    <2>2. session' = session
      BY <2>1 DEF vars
    <2> QED BY <1>1, <1>2, <2>1, <2>2 DEF Session
  <1> QED BY <1>3, <1>4, <1>5, <1>6, <1>7, <1>8 DEF PageNext, Page, allVars

(* Whatever is reloaded, lost or late, the page never shows a fact, a      *)
(* readiness or a tenant that the server then does not have.               *)
THEOREM ShownKept == PageSpec => []ShownIsKept
  <1>1. PageInit => ShownIsKept
    BY InitHolds, PageAssumption
    DEF PageInit, ShownIsKept, PageTypeOK, Init, IInv, Kinds
  <1>2. TInv /\ TInv' /\ ShownIsKept /\ [PageNext]_allVars /\ [Next]_vars => ShownIsKept'
    BY PageStep DEF PInv
  <1>3. PageSpec => PageInit /\ [][PageNext]_allVars
    BY DEF PageSpec
  <1>4. PageSpec => [][Next]_vars
    BY PageImplements DEF Spec
  <1> QED BY <1>1, <1>2, <1>3, <1>4, PageImplements, TenantsInductive, PTL

(* What was answered and what is shown is never taken back, for any number *)
(* of messages, uploads, finalisations, reloads and lost answers.          *)
THEOREM NothingTakenBack == PageSpec => []NothingIsTakenBack
  BY AnsweredKept, ShownKept, PTL DEF NothingIsTakenBack

-----------------------------------------------------------------------------
(* The budget.  What is reserved and not yet spent is a set of pairs of a  *)
(* request and the number of a call, so that it can be counted: a message  *)
(* has the calls up to its budget, an upload has one.                      *)
Unspent(r) ==
  IF r \in Messages /\ pc[r] \in {"chatting", "answered", "failing"}
  THEN turn[r].used + 1 .. turn[r].budget
  ELSE IF r \in Uploads /\ pc[r] = "reserved" THEN {1} ELSE {}
Owed == UNION {{r} \X Unspent(r) : r \in Requests}

TurnsAreBounded ==
  \A m \in Messages :
    /\ pc[m] = "read" => turn[m].used = 0 /\ turn[m].budget >= 1
    /\ pc[m] = "chatting" => turn[m].used < turn[m].budget
    /\ pc[m] \in {"answered", "failing"} => turn[m].used <= turn[m].budget

CallsArePaid == IsFiniteSet(Owed) /\ session.llmCallCount >= calls + Cardinality(Owed)

(* An upload is paired with every message and upload that it ran beside,   *)
(* and with nothing before it has begun.                                   *)
PairsAreKnown ==
  /\ \A u \in Uploads, s \in Messages \cup Uploads :
       u # s /\ InProgress(u) /\ InProgress(s) => {u, s} \in together
  /\ \A u \in Uploads : \A p \in together : u \in p => pc[u] # "new"
  /\ IsFiniteSet({u \in Uploads : pc[u] # "new"})

(* The uploads that may have raised the counter since m read it. *)
Ahead(m) == {u \in Uploads : {u, m} \in together /\ pc[u] \in {"reserved", "ended"}}

OverlapMessages == {u \in Uploads : Overlapping(u, Messages)}
LimitIsKept ==
  /\ \A m \in Messages : pc[m] = "read" /\ turn[m].seen = session.version =>
       session.llmCallCount + turn[m].budget <= MaxCalls + Cardinality(Ahead(m))
  /\ session.llmCallCount <= MaxCalls + Cardinality(OverlapMessages)

(* The documents an upload has not run beside are those that it counted.   *)
DocsAreCounted ==
  /\ \A u \in docs : pc[u] = "ended"
  /\ \A u \in Uploads : pc[u] \in {"counted", "reserved"} =>
       Cardinality({d \in docs : {u, d} \notin together}) < MaxDocs
  /\ Cardinality(docs) > MaxDocs => \E u \in docs : Overlapping(u, docs)

BInv == TurnsAreBounded /\ CallsArePaid /\ PairsAreKnown /\ LimitIsKept /\ DocsAreCounted

(* Only the pairs of r change: what is owed changes by what r owes. *)
LEMMA OwedChanges ==
  ASSUME IsFiniteSet(Owed), NEW r \in Requests,
         IsFiniteSet(Unspent(r)), IsFiniteSet(Unspent(r)'),
         \A s \in Requests \ {r} : Unspent(s)' = Unspent(s)
  PROVE  /\ IsFiniteSet(Owed')
         /\ Cardinality(Owed') =
              Cardinality(Owed) - Cardinality(Unspent(r)) + Cardinality(Unspent(r)')
  <1> DEFINE Rest == UNION {{s} \X Unspent(s) : s \in Requests \ {r}}
             Mine == {r} \X Unspent(r)
             Mine2 == {r} \X (Unspent(r)')
  <1>1. Owed = Rest \cup Mine
    BY DEF Owed
  <1>2. Owed' = Rest \cup Mine2
    <2>1. Owed' = UNION {{s} \X (Unspent(s)') : s \in Requests}
      BY DEF Owed, Requests
    <2>2. UNION {{s} \X (Unspent(s)') : s \in Requests \ {r}} = Rest
      OBVIOUS
    <2> QED BY <2>1, <2>2
  <1>3. Rest \cap Mine = {} /\ Rest \cap Mine2 = {}
    OBVIOUS
  <1>4. IsFiniteSet({r}) /\ Cardinality({r}) = 1
    BY FS_Singleton
  <1>5. /\ IsFiniteSet(Mine) /\ Cardinality(Mine) = Cardinality(Unspent(r))
        /\ IsFiniteSet(Mine2) /\ Cardinality(Mine2) = Cardinality(Unspent(r)')
        /\ Cardinality(Mine) \in Nat /\ Cardinality(Mine2) \in Nat
    <2> DEFINE A == Unspent(r)
               B == Unspent(r)'
    <2>1. IsFiniteSet(A) /\ IsFiniteSet(B)
      OBVIOUS
    <2> HIDE DEF A, B
    <2>2. /\ IsFiniteSet({r} \X A) /\ Cardinality({r} \X A) = 1 * Cardinality(A)
          /\ IsFiniteSet({r} \X B) /\ Cardinality({r} \X B) = 1 * Cardinality(B)
      BY <1>4, <2>1, FS_Product
    <2>3. Cardinality(A) \in Nat /\ Cardinality(B) \in Nat
      BY <2>1, FS_CardinalityType
    <2>4. /\ Cardinality({r} \X A) = Cardinality(A) /\ Cardinality({r} \X B) = Cardinality(B)
      BY <2>2, <2>3
    <2> QED BY <2>2, <2>3, <2>4 DEF A, B
  <1> HIDE DEF Rest, Mine, Mine2
  <1>6. IsFiniteSet(Rest) /\ Cardinality(Rest) \in Nat
    BY <1>1, FS_Subset, FS_CardinalityType
  <1>7. /\ Cardinality(Owed) = Cardinality(Rest) + Cardinality(Mine)
        /\ IsFiniteSet(Owed') /\ Cardinality(Owed') = Cardinality(Rest) + Cardinality(Mine2)
    <2>1. /\ Cardinality(Rest \cup Mine) = Cardinality(Rest) + Cardinality(Mine) - Cardinality({})
          /\ IsFiniteSet(Rest \cup Mine2)
          /\ Cardinality(Rest \cup Mine2) = Cardinality(Rest) + Cardinality(Mine2) - Cardinality({})
      BY <1>3, <1>5, <1>6, FS_Union
    <2>2. Cardinality({}) = 0
      BY FS_EmptySet
    <2> QED BY <2>1, <2>2, <1>1, <1>2, <1>5, <1>6
  <1> QED BY <1>5, <1>6, <1>7

(* What a request has not spent, counted. *)
UnspentIsCounted ==
  /\ \A m \in Messages : pc[m] \in {"chatting", "answered", "failing"} =>
       IsFiniteSet(Unspent(m)) /\ Cardinality(Unspent(m)) = turn[m].budget - turn[m].used
  /\ \A r \in Requests :
       ~(r \in Messages /\ pc[r] \in {"chatting", "answered", "failing"})
       /\ ~(r \in Uploads /\ pc[r] = "reserved") =>
       Unspent(r) = {} /\ IsFiniteSet(Unspent(r)) /\ Cardinality(Unspent(r)) = 0
  /\ \A u \in Uploads : pc[u] = "reserved" =>
       IsFiniteSet(Unspent(u)) /\ Cardinality(Unspent(u)) = 1

LEMMA UnspentCount == TypeOK /\ TurnsAreBounded => UnspentIsCounted
  <1> SUFFICES ASSUME TypeOK, TurnsAreBounded PROVE UnspentIsCounted
    OBVIOUS
  <1>1. ASSUME NEW m \in Messages, pc[m] \in {"chatting", "answered", "failing"}
        PROVE  IsFiniteSet(Unspent(m)) /\ Cardinality(Unspent(m)) = turn[m].budget - turn[m].used
    <2>1. turn[m].used \in Nat /\ turn[m].budget \in Nat /\ turn[m].used <= turn[m].budget
      BY <1>1 DEF TypeOK, Turn, TurnsAreBounded
    <2> DEFINE a == turn[m].used
               b == turn[m].budget
    <2> HIDE DEF a, b
    <2> DEFINE c == a + 1
    <2>4. a \in Nat /\ b \in Nat /\ c \in Int
      BY <2>1 DEF a, b
    <2> HIDE DEF c
    <2>5. IsFiniteSet(c .. b) /\ Cardinality(c .. b) = IF c > b THEN 0 ELSE b - c + 1
      BY <2>4, FS_Interval
    <2>2. IsFiniteSet(a + 1 .. b) /\ Cardinality(a + 1 .. b) = IF a + 1 > b THEN 0 ELSE b - (a + 1) + 1
      BY <2>5 DEF c
    <2>3. Cardinality(a + 1 .. b) = b - a
      BY <2>1, <2>2 DEF a, b
    <2> QED BY <1>1, <2>2, <2>3 DEF Unspent, a, b
  <1>2. ASSUME NEW r \in Requests,
               ~(r \in Messages /\ pc[r] \in {"chatting", "answered", "failing"}),
               ~(r \in Uploads /\ pc[r] = "reserved")
        PROVE  Unspent(r) = {} /\ IsFiniteSet(Unspent(r)) /\ Cardinality(Unspent(r)) = 0
    BY <1>2, FS_EmptySet DEF Unspent
  <1>3. ASSUME NEW u \in Uploads, pc[u] = "reserved"
        PROVE  IsFiniteSet(Unspent(u)) /\ Cardinality(Unspent(u)) = 1
    BY <1>3, FS_Singleton, OnboardingAssumption DEF Unspent
  <1> QED BY <1>1, <1>2, <1>3 DEF UnspentIsCounted

(* The sets that are counted are finite. *)
CountsAreFinite ==
  /\ IsFiniteSet(docs) /\ Cardinality(docs) \in Nat
  /\ IsFiniteSet(OverlapMessages) /\ Cardinality(OverlapMessages) \in Nat
  /\ \A m \in Messages : /\ Ahead(m) \subseteq OverlapMessages
                         /\ IsFiniteSet(Ahead(m)) /\ Cardinality(Ahead(m)) \in Nat
                         /\ Cardinality(Ahead(m)) <= Cardinality(OverlapMessages)
  /\ \A u \in Uploads : /\ IsFiniteSet({d \in docs : {u, d} \notin together})
                        /\ Cardinality({d \in docs : {u, d} \notin together}) \in Nat

LEMMA CountedAreFinite ==
  TypeOK /\ PairsAreKnown /\ (\A u \in docs : pc[u] = "ended") => CountsAreFinite
  <1> SUFFICES ASSUME TypeOK, PairsAreKnown, \A u \in docs : pc[u] = "ended"
               PROVE  CountsAreFinite
    OBVIOUS
  <1> DEFINE Begun == {u \in Uploads : pc[u] # "new"}
  <1>1. IsFiniteSet(Begun)
    BY DEF PairsAreKnown
  <1>2. docs \subseteq Begun
    BY DEF TypeOK
  <1>3. OverlapMessages \subseteq Begun
    BY DEF OverlapMessages, Overlapping, PairsAreKnown
  <1>4. ASSUME NEW m \in Messages PROVE Ahead(m) \subseteq OverlapMessages
    BY OnboardingAssumption DEF Ahead, OverlapMessages, Overlapping
  <1> HIDE DEF Begun
  <1>5. IsFiniteSet(docs) /\ Cardinality(docs) \in Nat
    BY <1>1, <1>2, FS_Subset, FS_CardinalityType
  <1>6. IsFiniteSet(OverlapMessages) /\ Cardinality(OverlapMessages) \in Nat
    BY <1>1, <1>3, FS_Subset, FS_CardinalityType
  <1>7. ASSUME NEW m \in Messages
        PROVE  /\ IsFiniteSet(Ahead(m)) /\ Cardinality(Ahead(m)) \in Nat
               /\ Cardinality(Ahead(m)) <= Cardinality(OverlapMessages)
    BY <1>4, <1>6, FS_Subset, FS_CardinalityType
  <1>8. ASSUME NEW u \in Uploads
        PROVE  /\ IsFiniteSet({d \in docs : {u, d} \notin together})
               /\ Cardinality({d \in docs : {u, d} \notin together}) \in Nat
    <2> DEFINE D == {d \in docs : {u, d} \notin together}
    <2>1. D \in SUBSET docs
      OBVIOUS
    <2> HIDE DEF D
    <2>2. IsFiniteSet(D) /\ Cardinality(D) \in Nat
      BY <1>5, <2>1, FS_Subset, FS_CardinalityType
    <2> QED BY <2>2 DEF D
  <1> QED BY <1>4, <1>5, <1>6, <1>7, <1>8 DEF CountsAreFinite

LEMMA InitBudget == Init => BInv
  <1> SUFFICES ASSUME Init PROVE BInv
    OBVIOUS
  <1> USE OnboardingAssumption
  <1>1. /\ \A r \in Requests : pc[r] = "new" /\ Unspent(r) = {}
        /\ docs = {} /\ together = {} /\ calls = 0 /\ session.llmCallCount = 0
    BY DEF Init, Unspent
  <1>2. /\ Owed = {} /\ OverlapMessages = {} /\ {u \in Uploads : pc[u] # "new"} = {}
    BY <1>1 DEF Owed, OverlapMessages, Overlapping, Requests
  <1>3. IsFiniteSet({}) /\ Cardinality({}) = 0
    BY FS_EmptySet
  <1>4. TurnsAreBounded /\ PairsAreKnown
    BY <1>1, <1>2, <1>3 DEF TurnsAreBounded, PairsAreKnown, Requests, InProgress
  <1>5. CallsArePaid
    BY <1>1, <1>2, <1>3 DEF CallsArePaid
  <1>6. LimitIsKept
    BY <1>1, <1>2, <1>3 DEF LimitIsKept, Requests
  <1>7. DocsAreCounted
    BY <1>1, <1>3 DEF DocsAreCounted, Requests
  <1> QED BY <1>4, <1>5, <1>6, <1>7 DEF BInv

-----------------------------------------------------------------------------
(* A step that moves no message and no upload. *)
LEMMA BudgetFrame ==
  ASSUME IInv, BInv,
         \A r \in Messages \cup Uploads : pc'[r] = pc[r],
         UNCHANGED <<turn, docs, calls>>,
         session'.llmCallCount = session.llmCallCount,
         session'.version \in Nat, session'.version >= session.version,
         together \subseteq together',
         \A u \in Uploads : \A p \in together' : u \in p => p \in together
  PROVE  BInv'
  <1> USE DEF BInv
  <1>1. TurnsAreBounded'
    BY DEF TurnsAreBounded
  <1>2. Owed' = Owed
    <2>1. \A r \in Requests : Unspent(r)' = Unspent(r)
      BY DEF Unspent
    <2> QED BY <2>1 DEF Owed, Requests
  <1>3. CallsArePaid'
    BY <1>2 DEF CallsArePaid
  <1>4. \A u \in Uploads : \A s : {u, s} \in together' <=> {u, s} \in together
    OBVIOUS
  <1>5. {u \in Uploads : pc[u] # "new"}' = {u \in Uploads : pc[u] # "new"}
    OBVIOUS
  <1>6. PairsAreKnown'
    BY <1>5 DEF PairsAreKnown, InProgress
  <1>7. OverlapMessages' = OverlapMessages
    BY <1>4 DEF OverlapMessages, Overlapping
  <1>8. \A m \in Messages : Ahead(m)' = Ahead(m)
    BY <1>4 DEF Ahead
  <1>9. LimitIsKept'
    <2>1. ASSUME NEW m \in Messages, pc[m] = "read", turn[m].seen = session'.version
          PROVE  session.llmCallCount + turn[m].budget <= MaxCalls + Cardinality(Ahead(m))
      <3>1. turn[m].seen <= session.version /\ turn[m].seen \in Nat /\ session.version \in Nat
        BY <2>1 DEF IInv, TypeOK, VersionsAreSound, Turn, Session
      <3>2. turn[m].seen = session.version
        BY <2>1, <3>1
      <3> QED BY <2>1, <3>2 DEF LimitIsKept
    <2> QED BY <2>1, <1>7, <1>8 DEF LimitIsKept
  <1>10. DocsAreCounted'
    <2>1. docs \subseteq Uploads
      BY DEF IInv, TypeOK
    <2>2. \A u \in docs : Overlapping(u, docs)' <=> Overlapping(u, docs)
      BY <2>1, <1>4 DEF Overlapping
    <2>3. \A u \in Uploads : {d \in docs : {u, d} \notin together}' = {d \in docs : {u, d} \notin together}
      BY <1>4
    <2> QED BY <2>1, <2>2, <2>3 DEF DocsAreCounted
  <1> QED BY <1>1, <1>3, <1>6, <1>9, <1>10

(* A message that is in progress moves on: what the other requests know    *)
(* stands, if a step that changes the counter raises the version too.      *)
LEMMA MessageMoves ==
  ASSUME IInv, IInv', BInv, NEW m \in Messages, NEW l, l # "new", InProgress(m),
         pc' = [pc EXCEPT ![m] = l],
         \A n \in Messages \ {m} : turn'[n] = turn[n],
         UNCHANGED <<docs, together>>,
         session'.version >= session.version,
         session'.version = session.version => session'.llmCallCount = session.llmCallCount,
         session'.llmCallCount <= MaxCalls + Cardinality(OverlapMessages),
         l = "read" => /\ turn'[m].used = 0 /\ turn'[m].budget >= 1
                       /\ session'.llmCallCount + turn'[m].budget <= MaxCalls,
         l = "chatting" => turn'[m].used < turn'[m].budget,
         l \in {"answered", "failing"} => turn'[m].used <= turn'[m].budget,
         session'.llmCallCount - calls' - Cardinality(Unspent(m)')
           >= session.llmCallCount - calls - Cardinality(Unspent(m))
  PROVE  BInv'
  <1> USE OnboardingAssumption DEF BInv
  <1>1. /\ TypeOK /\ TypeOK' /\ m \in Requests
        /\ session.version \in Nat /\ session'.version \in Nat
        /\ session.llmCallCount \in Int /\ session'.llmCallCount \in Int
        /\ calls \in Nat /\ calls' \in Nat
    BY DEF IInv, TypeOK, Session, Requests
  <1>2. pc'[m] = l /\ \A r \in Requests \ {m} : pc'[r] = pc[r]
    BY <1>1 DEF TypeOK
  <1>3. \A u \in Uploads : pc'[u] = pc[u]
    BY <1>2 DEF Requests
  <1>4. TurnsAreBounded'
    BY <1>2 DEF TurnsAreBounded, Requests
  <1>5. UnspentIsCounted /\ UnspentIsCounted'
    <2>1. TypeOK' /\ TurnsAreBounded' => UnspentIsCounted'
      BY UnspentCount, PTL
    <2> QED BY <2>1, <1>1, <1>4, UnspentCount
  <1>6. CallsArePaid'
    <2>1. \A s \in Requests \ {m} : Unspent(s)' = Unspent(s)
      BY <1>2 DEF Unspent
    <2>2. IsFiniteSet(Unspent(m)) /\ IsFiniteSet(Unspent(m)')
      BY <1>1, <1>5 DEF UnspentIsCounted
    <2>3. /\ IsFiniteSet(Owed')
          /\ Cardinality(Owed') =
                Cardinality(Owed) - Cardinality(Unspent(m)) + Cardinality(Unspent(m)')
      BY <2>1, <2>2, <1>1, OwedChanges DEF CallsArePaid
    <2>4. /\ Cardinality(Owed) \in Nat /\ Cardinality(Unspent(m)) \in Nat
          /\ Cardinality(Unspent(m)') \in Nat
      BY <2>2, FS_CardinalityType DEF CallsArePaid
    <2> QED BY <2>3, <2>4, <1>1 DEF CallsArePaid
  <1>7. PairsAreKnown'
    <2>1. {u \in Uploads : pc[u] # "new"}' = {u \in Uploads : pc[u] # "new"}
      BY <1>3
    <2>2. \A s \in Messages \cup Uploads : InProgress(s)' => InProgress(s)
      BY <1>2 DEF InProgress, Requests
    <2> QED BY <2>1, <2>2, <1>3 DEF PairsAreKnown
  <1>8. OverlapMessages' = OverlapMessages /\ \A n \in Messages : Ahead(n)' = Ahead(n)
    BY <1>3 DEF OverlapMessages, Overlapping, Ahead
  <1>9. LimitIsKept'
    <2>1. ASSUME NEW n \in Messages, pc'[n] = "read", turn'[n].seen = session'.version
          PROVE  session'.llmCallCount + turn'[n].budget <= MaxCalls + Cardinality(Ahead(n))
      <3>1. CASE n = m
        <4>1. Cardinality(Ahead(m)) \in Nat
          BY <1>1, CountedAreFinite DEF DocsAreCounted, CountsAreFinite
        <4>2. turn'[m].budget \in Nat
          BY <1>1 DEF TypeOK, Turn
        <4>3. session'.llmCallCount + turn'[m].budget <= MaxCalls
          BY <2>1, <3>1, <1>2
        <4> QED BY <4>1, <4>2, <4>3, <3>1, <1>1
      <3>2. CASE n # m
        <4>1. pc[n] = "read" /\ turn'[n] = turn[n]
          BY <2>1, <3>2, <1>2 DEF Requests
        <4>2. turn[n].seen <= session.version /\ turn[n].seen \in Nat
          BY <4>1, <1>1 DEF IInv, VersionsAreSound, TypeOK, Turn
        <4>3. session'.version = session.version
          BY <2>1, <4>1, <4>2, <1>1
        <4> QED BY <2>1, <4>1, <4>3 DEF LimitIsKept
      <3> QED BY <3>1, <3>2
    <2> QED BY <2>1, <1>8 DEF LimitIsKept
  <1>10. DocsAreCounted'
    <2>1. docs \subseteq Uploads
      BY <1>1 DEF TypeOK
    <2> QED BY <2>1, <1>3 DEF DocsAreCounted, Overlapping
  <1> QED BY <1>4, <1>6, <1>7, <1>9, <1>10

LEMMA MessageBudget ==
  ASSUME IInv, IInv', BInv, NEW m \in Messages, MessageStep(m) \/ Fail(m)
  PROVE  BInv'
  <1> USE OnboardingAssumption DEF BInv
  <1>1. /\ TypeOK /\ TypeOK' /\ m \in Requests
        /\ session \in Session /\ turn[m] \in Turn /\ pc = [r \in Requests |-> pc[r]] /\ turn \in [Messages -> Turn]
        /\ session.version \in Nat /\ session.llmCallCount \in Int /\ calls \in Nat
        /\ turn[m].used \in Nat /\ turn[m].budget \in Nat
    BY DEF IInv, TypeOK, Session, Requests, Turn
  <1>2. UnspentIsCounted
    BY <1>1, UnspentCount
  <1>3. Cardinality(OverlapMessages) \in Nat
    BY <1>1, CountedAreFinite DEF DocsAreCounted, CountsAreFinite
  <1>4. session.llmCallCount <= MaxCalls + Cardinality(OverlapMessages)
    BY DEF LimitIsKept
  <1>12. ASSUME UNCHANGED session
         PROVE  /\ session'.version >= session.version
                /\ session'.version = session.version => session'.llmCallCount = session.llmCallCount
                /\ session'.llmCallCount <= MaxCalls + Cardinality(OverlapMessages)
    BY <1>1, <1>4, <1>12
  (* the message ends: what it has not spent is given back or lost *)
  <1>5. ASSUME InProgress(m), EndTurn(m), UNCHANGED <<docs, calls, together>>,
               \/ UNCHANGED session
               \/ /\ pc[m] \in {"answered", "failing"}
                  /\ session'.version = session.version + 1
                  /\ session'.llmCallCount = session.llmCallCount - Unused(m)
        PROVE  BInv'
    <2>1. /\ pc' = [pc EXCEPT ![m] = "ended"]
          /\ \A n \in Messages \ {m} : turn'[n] = turn[n]
      BY <1>1, <1>5 DEF EndTurn, End, Goto
    <2>2. Unspent(m)' = {} /\ Cardinality(Unspent(m)') = 0
      BY <1>1, <2>1, FS_EmptySet DEF Unspent
    <2>3. Cardinality(Unspent(m)) \in Nat
      <3>1. \/ pc[m] \in {"chatting", "answered", "failing"}
            \/ Cardinality(Unspent(m)) = 0
        BY <1>1, <1>2 DEF UnspentIsCounted
      <3>2. IsFiniteSet(Unspent(m))
        BY <1>1, <1>2 DEF UnspentIsCounted
      <3> QED BY <3>2, FS_CardinalityType
    <2>4. CASE UNCHANGED session
      <3>1. session'.llmCallCount - calls' - Cardinality(Unspent(m)')
              >= session.llmCallCount - calls - Cardinality(Unspent(m))
        BY <1>1, <1>5, <2>2, <2>3, <2>4
      <3> QED BY <1>5, <1>12, <2>1, <2>4, <3>1, MessageMoves
    <2>5. CASE /\ pc[m] \in {"answered", "failing"}
               /\ session'.version = session.version + 1
               /\ session'.llmCallCount = session.llmCallCount - Unused(m)
      <3>1. /\ Cardinality(Unspent(m)) = turn[m].budget - turn[m].used
            /\ turn[m].used <= turn[m].budget
        BY <1>2, <2>5 DEF UnspentIsCounted, TurnsAreBounded
      <3>2. session'.llmCallCount = session.llmCallCount - (turn[m].budget - turn[m].used)
        BY <2>5 DEF Unused
      <3>3. /\ session'.llmCallCount <= MaxCalls + Cardinality(OverlapMessages)
            /\ session'.llmCallCount - calls' - Cardinality(Unspent(m)')
                 >= session.llmCallCount - calls - Cardinality(Unspent(m))
        BY <1>1, <1>3, <1>4, <1>5, <2>2, <3>1, <3>2
      <3>4. session'.version >= session.version /\ session'.version # session.version
        BY <1>1, <2>5
      <3> QED BY <1>1, <1>5, <2>1, <3>3, <3>4, MessageMoves
    <2> QED BY <1>5, <2>4, <2>5
  <1>6. CASE MessageReads(m)
    <2>1. InProgress(m) /\ UNCHANGED <<session, docs, calls, together>> /\ pc[m] = "sent"
      BY <1>6 DEF MessageReads, InProgress, history
    <2>2. CASE EndTurn(m)
      BY <2>1, <2>2, <1>5
    <2>3. CASE MayChat /\ Goto(m, "read")
               /\ turn' = [turn EXCEPT ![m] =
                      [seen |-> session.version, budget |-> Least(MaxTurns, Remaining), used |-> 0,
                       facts |-> session.draft, ready |-> "no"]]
      <3>1. turn'[m].used = 0 /\ turn'[m].budget = Least(MaxTurns, Remaining)
        BY <1>1, <2>3
      <3>2. /\ turn'[m].budget >= 1
            /\ session.llmCallCount + turn'[m].budget <= MaxCalls
        BY <1>1, <2>3, <3>1 DEF MayChat, Remaining, Least
      <3>3. pc' = [pc EXCEPT ![m] = "read"] /\ \A n \in Messages \ {m} : turn'[n] = turn[n]
        BY <1>1, <2>3 DEF Goto
      <3>4. Cardinality(Unspent(m)') = 0 /\ Cardinality(Unspent(m)) = 0
        BY <1>1, <2>1, <3>3, FS_EmptySet DEF Unspent
      <3>5. session'.llmCallCount - calls' - Cardinality(Unspent(m)')
              >= session.llmCallCount - calls - Cardinality(Unspent(m))
        BY <1>1, <2>1, <3>4
      <3>6. session'.llmCallCount + turn'[m].budget <= MaxCalls
        BY <2>1, <3>2
      <3> QED BY <1>12, <2>1, <3>1, <3>2, <3>3, <3>5, <3>6, MessageMoves
    <2> QED BY <1>6, <2>2, <2>3 DEF MessageReads
  <1>7. CASE MessageReserves(m)
    <2>1. InProgress(m) /\ UNCHANGED <<docs, calls, together>> /\ pc[m] = "read"
      BY <1>7 DEF MessageReserves, InProgress, history
    <2>2. CASE EndTurn(m) /\ UNCHANGED session
      BY <2>1, <2>2, <1>5
    <2>3. CASE Reservable(m) /\ Goto(m, "chatting") /\ UNCHANGED turn
               /\ session' = [session EXCEPT !.version = @ + 1, !.llmCallCount = @ + turn[m].budget]
      <3>1. session'.version = session.version + 1
            /\ session'.llmCallCount = session.llmCallCount + turn[m].budget
        <4>1. session.version + 1 \in Nat /\ session.llmCallCount + turn[m].budget \in Int
          BY <1>1
        <4> QED BY <1>1, <2>3, <4>1 DEF Session
      <3>2. pc' = [pc EXCEPT ![m] = "chatting"] /\ pc'[m] = "chatting"
        BY <1>1, <2>3 DEF Goto
      <3>3. turn[m].used = 0 /\ turn[m].budget >= 1
        BY <2>1 DEF TurnsAreBounded
      <3>4. Cardinality(Unspent(m)) = 0
        BY <1>1, <1>2, <2>1 DEF UnspentIsCounted
      <3>5. Cardinality(Unspent(m)') = turn[m].budget
        <4> DEFINE b == turn[m].budget
        <4>1. Unspent(m)' = 1 .. b
          BY <2>3, <3>2, <3>3 DEF Unspent
        <4>2. b \in Nat /\ b >= 1
          BY <1>1, <3>3
        <4> HIDE DEF b
        <4>3. Cardinality(1 .. b) = IF 1 > b THEN 0 ELSE b - 1 + 1
          BY <4>2, FS_Interval
        <4>4. Cardinality(1 .. b) = b
          BY <4>2, <4>3
        <4> QED BY <4>1, <4>4 DEF b
      <3>6. session'.llmCallCount <= MaxCalls + Cardinality(OverlapMessages)
        <4>1. session.llmCallCount + turn[m].budget <= MaxCalls + Cardinality(Ahead(m))
          BY <2>1, <2>3 DEF LimitIsKept, Reservable
        <4>2. /\ Cardinality(Ahead(m)) <= Cardinality(OverlapMessages)
              /\ Cardinality(Ahead(m)) \in Nat
          BY <1>1, CountedAreFinite DEF DocsAreCounted, CountsAreFinite
        <4> QED BY <1>1, <1>3, <3>1, <4>1, <4>2
      <3>7. session'.version >= session.version /\ session'.version # session.version
        BY <1>1, <3>1
      <3>8. session'.llmCallCount - calls' - Cardinality(Unspent(m)')
              >= session.llmCallCount - calls - Cardinality(Unspent(m))
        BY <1>1, <2>1, <3>1, <3>4, <3>5
      <3>9. turn'[m].used < turn'[m].budget /\ \A n \in Messages \ {m} : turn'[n] = turn[n]
        BY <1>1, <2>3, <3>3
      <3> QED BY <2>1, <3>2, <3>6, <3>7, <3>8, <3>9, MessageMoves
    <2> QED BY <1>7, <2>2, <2>3 DEF MessageReserves
  <1>8. CASE MessageCalls(m)
    <2>1. /\ InProgress(m) /\ UNCHANGED <<session, docs, together>> /\ pc[m] = "chatting"
          /\ calls' = calls + 1
      BY <1>8 DEF MessageCalls, InProgress
    <2>2. turn[m].used < turn[m].budget
      BY <2>1 DEF TurnsAreBounded
    <2>3. /\ turn'[m].used = turn[m].used + 1 /\ turn'[m].budget = turn[m].budget
          /\ \A n \in Messages \ {m} : turn'[n] = turn[n]
      <3>1. CASE turn' = [turn EXCEPT ![m].used = @ + 1]
        BY <1>1, <3>1 DEF Turn
      <3>2. ASSUME NEW new, NEW ready,
                   turn' = [turn EXCEPT ![m].used = @ + 1, ![m].facts = @ \cup new,
                                        ![m].ready = ready]
            PROVE  /\ turn'[m].used = turn[m].used + 1 /\ turn'[m].budget = turn[m].budget
                   /\ \A n \in Messages \ {m} : turn'[n] = turn[n]
        BY <1>1, <3>2 DEF Turn
      <3> QED BY <1>8, <3>1, <3>2 DEF MessageCalls
    <2>4. \E l \in {"answered", "chatting"} :
            /\ pc' = [pc EXCEPT ![m] = l]
            /\ l = "chatting" => turn[m].used + 1 < turn[m].budget
      <3>1. CASE Goto(m, "answered")
        BY <3>1 DEF Goto
      <3>2. CASE Goto(m, IF turn[m].used + 1 >= turn[m].budget THEN "answered" ELSE "chatting")
        <4>1. CASE turn[m].used + 1 >= turn[m].budget
          BY <3>2, <4>1 DEF Goto
        <4>2. CASE ~(turn[m].used + 1 >= turn[m].budget)
          <5>1. turn[m].used + 1 < turn[m].budget
            BY <1>1, <4>2
          <5> QED BY <3>2, <4>2, <5>1 DEF Goto
        <4> QED BY <4>1, <4>2
      <3> QED BY <1>8, <3>1, <3>2 DEF MessageCalls
    <2>5. PICK l \in {"answered", "chatting"} :
            /\ pc' = [pc EXCEPT ![m] = l]
            /\ l = "chatting" => turn[m].used + 1 < turn[m].budget
      BY <2>4
    <2>6. Cardinality(Unspent(m)) = turn[m].budget - turn[m].used
      BY <1>2, <2>1 DEF UnspentIsCounted
    <2>7. Cardinality(Unspent(m)') = turn[m].budget - turn[m].used - 1
      <3> DEFINE a == turn[m].used + 2
                 b == turn[m].budget
      <3>1. Unspent(m)' = turn'[m].used + 1 .. turn'[m].budget
        BY <1>1, <2>5 DEF Unspent
      <3>2. turn'[m].used + 1 = a
        BY <1>1, <2>3
      <3>3. a \in Int /\ b \in Int /\ a <= b + 1
        BY <1>1, <2>2
      <3>4. Unspent(m)' = a .. b
        BY <2>3, <3>1, <3>2
      <3> HIDE DEF a, b
      <3>5. Cardinality(a .. b) = IF a > b THEN 0 ELSE b - a + 1
        BY <3>3, FS_Interval
      <3>6. Cardinality(a .. b) = b - a + 1
        BY <3>3, <3>5
      <3> QED BY <1>1, <3>4, <3>6 DEF a, b
    <2>8. session'.llmCallCount - calls' - Cardinality(Unspent(m)')
            >= session.llmCallCount - calls - Cardinality(Unspent(m))
      BY <1>1, <2>1, <2>6, <2>7
    <2>9. /\ l = "chatting" => turn'[m].used < turn'[m].budget
          /\ turn'[m].used <= turn'[m].budget
      BY <1>1, <2>2, <2>3, <2>5
    <2> QED BY <1>12, <2>1, <2>3, <2>5, <2>8, <2>9, MessageMoves
  <1>9. CASE MessageCallFails(m)
    <2>1. /\ InProgress(m) /\ UNCHANGED <<session, docs, together, calls, turn>> /\ pc[m] = "chatting"
          /\ pc' = [pc EXCEPT ![m] = "failing"] /\ pc'[m] = "failing"
      BY <1>1, <1>9 DEF MessageCallFails, InProgress, Goto, history
    <2>2. turn[m].used < turn[m].budget
      BY <2>1 DEF TurnsAreBounded
    <2>3. Unspent(m)' = Unspent(m)
      BY <2>1 DEF Unspent
    <2>4. Cardinality(Unspent(m)) = turn[m].budget - turn[m].used
      BY <1>2, <2>1 DEF UnspentIsCounted
    <2>5. session'.llmCallCount - calls' - Cardinality(Unspent(m)')
            >= session.llmCallCount - calls - Cardinality(Unspent(m))
      BY <1>1, <2>1, <2>3, <2>4
    <2>6. turn'[m].used <= turn'[m].budget
      BY <1>1, <2>1, <2>2
    <2> QED BY <1>12, <2>1, <2>5, <2>6, MessageMoves
  <1>10. CASE MessageReleases(m)
    <2>1. /\ InProgress(m) /\ EndTurn(m) /\ UNCHANGED <<docs, calls, together>> /\ pc[m] = "failing"
      BY <1>10 DEF MessageReleases, InProgress, history
    <2>2. \/ UNCHANGED session
          \/ /\ session'.version = session.version + 1
             /\ session'.llmCallCount = session.llmCallCount - Unused(m)
      <3>1. session.version + 1 \in Nat /\ session.llmCallCount - Unused(m) \in Int
        BY <1>1 DEF Unused
      <3> QED BY <1>1, <1>10, <3>1 DEF MessageReleases, Session
    <2> QED BY <2>1, <2>2, <1>5
  <1>11. CASE MessageWrites(m)
    <2>1. /\ InProgress(m) /\ EndTurn(m) /\ UNCHANGED <<docs, calls, together>> /\ pc[m] = "answered"
      BY <1>11 DEF MessageWrites, InProgress
    <2>2. \/ UNCHANGED session
          \/ /\ session'.version = session.version + 1
             /\ session'.llmCallCount = session.llmCallCount - Unused(m)
      <3>1. session.version + 1 \in Nat /\ session.llmCallCount - Unused(m) \in Int
        BY <1>1 DEF Unused
      <3> QED BY <1>1, <1>11, <3>1 DEF MessageWrites, Session
    <2> QED BY <2>1, <2>2, <1>5
  <1>13. CASE Fail(m)
    <2>1. EndTurn(m)
      BY <1>1, <1>13 DEF Fail, EndTurn, IInv, TypeOK
    <2> QED BY <1>5, <1>13, <2>1 DEF Fail, history
  <1> QED BY <1>6, <1>7, <1>8, <1>9, <1>10, <1>11, <1>13 DEF MessageStep

(* An upload that is in progress moves on.  It raises the counter only      *)
(* below the limit and stores only what it has reserved a call for.        *)
LEMMA UploadMoves ==
  ASSUME IInv, IInv', BInv, NEW u \in Uploads, InProgress(u),
         NEW l \in {"counted", "reserved", "ended"},
         pc' = [pc EXCEPT ![u] = l], UNCHANGED <<turn, together>>,
         pc[u] = "reserved" => l = "ended",
         session'.version = session.version,
         \/ l # "reserved" /\ session'.llmCallCount = session.llmCallCount
         \/ /\ pc[u] = "counted" /\ l = "reserved"
            /\ session.llmCallCount < MaxCalls
            /\ session'.llmCallCount = session.llmCallCount + 1,
         l = "counted" => Cardinality(docs) < MaxDocs,
         docs' = docs \/ (pc[u] = "reserved" /\ docs' = docs \cup {u}),
         calls' = calls \/ (pc[u] = "reserved" /\ calls' = calls + 1)
  PROVE  BInv'
  <1> USE OnboardingAssumption DEF BInv
  <1>1. /\ TypeOK /\ TypeOK' /\ u \in Requests /\ docs \subseteq Uploads
        /\ session.llmCallCount \in Int /\ session'.llmCallCount \in Int
        /\ calls \in Nat /\ calls' \in Nat
    BY DEF IInv, TypeOK, Session, Requests
  <1>2. pc'[u] = l /\ \A r \in Requests \ {u} : pc'[r] = pc[r]
    BY <1>1 DEF TypeOK
  <1>3. \A m \in Messages : pc'[m] = pc[m]
    BY <1>2 DEF Requests
  <1>4. TurnsAreBounded'
    BY <1>3 DEF TurnsAreBounded
  <1>5. UnspentIsCounted /\ UnspentIsCounted'
    <2>1. TypeOK' /\ TurnsAreBounded' => UnspentIsCounted'
      BY UnspentCount, PTL
    <2> QED BY <2>1, <1>1, <1>4, UnspentCount
  <1>6. CallsArePaid'
    <2>1. \A s \in Requests \ {u} : Unspent(s)' = Unspent(s)
      BY <1>2 DEF Unspent
    <2>2. IsFiniteSet(Unspent(u)) /\ IsFiniteSet(Unspent(u)')
      BY <1>1, <1>5 DEF UnspentIsCounted
    <2>3. /\ IsFiniteSet(Owed')
          /\ Cardinality(Owed') =
                Cardinality(Owed) - Cardinality(Unspent(u)) + Cardinality(Unspent(u)')
      BY <2>1, <2>2, <1>1, OwedChanges DEF CallsArePaid
    <2>4. /\ Cardinality(Unspent(u)) = IF pc[u] = "reserved" THEN 1 ELSE 0
          /\ Cardinality(Unspent(u)') = IF l = "reserved" THEN 1 ELSE 0
      BY <1>1, <1>2, <1>5 DEF UnspentIsCounted
    <2>5. Cardinality(Owed) \in Nat
      BY FS_CardinalityType DEF CallsArePaid
    <2> QED BY <2>3, <2>4, <2>5, <1>1 DEF CallsArePaid
  <1>7. PairsAreKnown'
    <2>1. {v \in Uploads : pc[v] # "new"}' = {v \in Uploads : pc[v] # "new"}
      BY <1>2 DEF InProgress, Requests
    <2>2. \A s \in Messages \cup Uploads : InProgress(s)' => InProgress(s)
      BY <1>2 DEF InProgress, Requests
    <2> QED BY <2>1, <2>2, <1>2 DEF PairsAreKnown, InProgress, Requests
  <1>8. OverlapMessages' = OverlapMessages
    BY DEF OverlapMessages, Overlapping
  <1>9. CountsAreFinite
    BY <1>1, CountedAreFinite DEF DocsAreCounted
  <1>10. LimitIsKept'
    <2>1. ASSUME NEW m \in Messages, pc[m] = "read", turn[m].seen = session.version
          PROVE  session'.llmCallCount + turn[m].budget <= MaxCalls + Cardinality(Ahead(m)')
      <3>1. /\ session.llmCallCount + turn[m].budget <= MaxCalls + Cardinality(Ahead(m))
            /\ turn[m].budget \in Nat
        BY <2>1, <1>1 DEF LimitIsKept, TypeOK, Turn
      <3>2. IsFiniteSet(Ahead(m)) /\ Cardinality(Ahead(m)) \in Nat
        BY <1>9 DEF CountsAreFinite
      <3>3. Ahead(m) \subseteq Ahead(m)' /\ Ahead(m)' \subseteq Ahead(m) \cup {u}
        BY <1>2 DEF Ahead, InProgress, Requests
      <3>4. /\ IsFiniteSet(Ahead(m) \cup {u})
            /\ Cardinality(Ahead(m) \cup {u}) =
                 IF u \in Ahead(m) THEN Cardinality(Ahead(m)) ELSE Cardinality(Ahead(m)) + 1
        BY <3>2, FS_AddElement
      <3>5. IsFiniteSet(Ahead(m)') /\ Cardinality(Ahead(m)') \in Nat
            /\ Cardinality(Ahead(m)) <= Cardinality(Ahead(m)')
        BY <3>3, <3>4, FS_Subset, FS_CardinalityType
      <3>6. CASE session'.llmCallCount = session.llmCallCount
        BY <3>1, <3>2, <3>5, <3>6, <1>1
      <3>7. CASE pc[u] = "counted" /\ l = "reserved" /\ session'.llmCallCount = session.llmCallCount + 1
        <4>1. {u, m} \in together
          BY <2>1, <3>7 DEF PairsAreKnown, InProgress
        <4>2. Ahead(m)' = Ahead(m) \cup {u} /\ u \notin Ahead(m)
          BY <3>3, <3>7, <4>1, <1>2 DEF Ahead
        <4>3. Cardinality(Ahead(m)') = Cardinality(Ahead(m)) + 1
          BY <3>4, <4>2
        <4> QED BY <3>1, <3>2, <3>7, <4>3, <1>1
      <3> QED BY <3>6, <3>7
    <2>2. session'.llmCallCount <= MaxCalls + Cardinality(OverlapMessages)
      BY <1>1, <1>9 DEF LimitIsKept, CountsAreFinite
    <2> QED BY <2>1, <2>2, <1>3, <1>8 DEF LimitIsKept
  <1>11. DocsAreCounted'
    <2>1. \A v \in docs' : pc'[v] = "ended"
      BY <1>1, <1>2 DEF DocsAreCounted, InProgress, Requests
    <2>2. ASSUME NEW v \in Uploads, pc'[v] \in {"counted", "reserved"}
          PROVE  Cardinality({d \in docs' : {v, d} \notin together}) < MaxDocs
      <3>1. CASE v # u
        <4>1. pc[v] \in {"counted", "reserved"} /\ {v, u} \in together
          BY <2>2, <3>1, <1>2 DEF PairsAreKnown, InProgress, Requests
        <4>2. {d \in docs' : {v, d} \notin together} = {d \in docs : {v, d} \notin together}
          BY <4>1
        <4> QED BY <4>1, <4>2 DEF DocsAreCounted
      <3>2. CASE v = u /\ l = "reserved"
        BY <2>2, <3>2, <1>2 DEF DocsAreCounted
      <3>3. CASE v = u /\ l = "counted"
        <4> DEFINE D == {d \in docs : {u, d} \notin together}
        <4>1. Cardinality(docs) < MaxDocs /\ docs' = docs /\ D \in SUBSET docs
          BY <3>3
        <4>2. IsFiniteSet(docs) /\ Cardinality(docs) \in Nat /\ Cardinality(D) \in Nat
          BY <1>9 DEF CountsAreFinite
        <4> HIDE DEF D
        <4>3. Cardinality(D) <= Cardinality(docs)
          BY <4>1, <4>2, FS_Subset
        <4>4. Cardinality(D) < MaxDocs
          BY <4>1, <4>2, <4>3
        <4> QED BY <3>3, <4>1, <4>4 DEF D
      <3> QED BY <2>2, <3>1, <3>2, <3>3, <1>2
    <2>3. Cardinality(docs') > MaxDocs => \E v \in docs' : Overlapping(v, docs)'
      <3>1. CASE docs' = docs
        BY <3>1 DEF DocsAreCounted, Overlapping
      <3>2. CASE pc[u] = "reserved" /\ docs' = docs \cup {u} /\ \E v \in docs : Overlapping(v, docs)
        BY <3>2 DEF Overlapping
      <3>3. CASE pc[u] = "reserved" /\ docs' = docs \cup {u} /\ \E d \in docs : {u, d} \in together
        <4>1. PICK d \in docs : {u, d} \in together
          BY <3>3
        <4>2. d # u
          BY <3>3 DEF DocsAreCounted
        <4> QED BY <3>3, <4>1, <4>2 DEF Overlapping
      <3>4. CASE pc[u] = "reserved" /\ docs' = docs \cup {u} /\ ~(\E d \in docs : {u, d} \in together)
        <4>1. {d \in docs : {u, d} \notin together} = docs
          BY <3>4
        <4>2. Cardinality(docs) < MaxDocs
          BY <3>4, <4>1 DEF DocsAreCounted
        <4>5. IsFiniteSet(docs) /\ Cardinality(docs) \in Nat
          BY <1>9 DEF CountsAreFinite
        <4>6. Cardinality(docs \cup {u}) = IF u \in docs THEN Cardinality(docs) ELSE Cardinality(docs) + 1
          BY <4>5, FS_AddElement
        <4>3. Cardinality(docs') <= Cardinality(docs) + 1
          BY <3>4, <4>5, <4>6
        <4>4. Cardinality(docs') \in Nat
          BY <3>4, <1>9, FS_AddElement, FS_CardinalityType DEF CountsAreFinite
        <4> QED BY <4>2, <4>3, <4>4, <4>5, OnboardingAssumption
      <3> QED BY <3>1, <3>2, <3>3, <3>4
    <2> QED BY <2>1, <2>2, <2>3 DEF DocsAreCounted
  <1> QED BY <1>4, <1>6, <1>7, <1>10, <1>11

LEMMA UploadBudget ==
  ASSUME IInv, IInv', BInv, NEW u \in Uploads, UploadStep(u) \/ Fail(u)
  PROVE  BInv'
  <1> USE OnboardingAssumption DEF InProgress
  <1>1. /\ session \in Session /\ session.llmCallCount \in Int
        /\ turn = [m \in Messages |-> turn[m]] /\ u \notin Messages /\ u \notin Finals
    BY DEF IInv, TypeOK, Session
  <1>2. CASE UploadReads(u)
    <2>1. /\ pc[u] = "sent" /\ UNCHANGED <<session, docs, turn, calls, together>>
          /\ \/ pc' = [pc EXCEPT ![u] = "ended"]
             \/ pc' = [pc EXCEPT ![u] = "counted"] /\ ~(Cardinality(docs) >= MaxDocs)
      BY <1>2 DEF UploadReads, End, Goto, history
    <2>2. Cardinality(docs) \in Nat
      BY CountedAreFinite DEF CountsAreFinite, BInv, DocsAreCounted, IInv
    <2>3. ~(Cardinality(docs) >= MaxDocs) => Cardinality(docs) < MaxDocs
      BY <2>2
    <2> QED BY <2>1, <2>3, UploadMoves
  <1>3. CASE UploadReserves(u)
    <2>1. CASE session.llmCallCount < MaxCalls /\ Goto(u, "reserved")
               /\ session' = [session EXCEPT !.llmCallCount = @ + 1]
      <3>1. session'.version = session.version
            /\ session'.llmCallCount = session.llmCallCount + 1
        BY <1>1, <2>1 DEF Session
      <3> QED BY <1>3, <2>1, <3>1, UploadMoves DEF UploadReserves, Goto, history
    <2>2. CASE End(u) /\ UNCHANGED session
      BY <1>3, <2>2, UploadMoves DEF UploadReserves, End, Goto, history
    <2> QED BY <1>3, <2>1, <2>2 DEF UploadReserves
  <1>4. CASE UploadStores(u)
    BY <1>4, UploadMoves DEF UploadStores, End, Goto
  <1>5. CASE Fail(u)
    <2>1. turn' = turn /\ pc' = [pc EXCEPT ![u] = "ended"] /\ InProgress(u)
          /\ UNCHANGED <<session, docs, calls, together>>
      BY <1>1, <1>5 DEF Fail, End, Goto, history
    <2> QED BY <2>1, UploadMoves
  <1> QED BY <1>2, <1>3, <1>4, <1>5 DEF UploadStep

(* A message or an upload begins: it is paired with the rivals in progress. *)
LEMMA BeginBudget ==
  ASSUME IInv, IInv', BInv, NEW r \in Messages \cup Uploads, Begin(r)
  PROVE  BInv'
  <1> USE OnboardingAssumption DEF BInv
  <1>1. /\ TypeOK /\ TypeOK' /\ r \in Requests /\ docs \subseteq Uploads
        /\ UNCHANGED <<session, docs, turn, calls>>
    BY DEF IInv, TypeOK, Requests, Begin
  <1>2. pc[r] = "new" /\ pc'[r] = "sent" /\ \A s \in Requests \ {r} : pc'[s] = pc[s]
    BY <1>1 DEF Begin, Goto, TypeOK
  <1>3. /\ together \subseteq together'
        /\ \A s \in Requests : InProgress(s) /\ Rivals(r, s) => {r, s} \in together'
        /\ \A p \in together' \ together : \E s \in Requests : InProgress(s) /\ p = {r, s}
    BY DEF Begin
  <1>4. TurnsAreBounded'
    BY <1>1, <1>2 DEF TurnsAreBounded, Requests
  <1>5. CallsArePaid'
    <2>1. \A s \in Requests : Unspent(s)' = Unspent(s)
      BY <1>1, <1>2 DEF Unspent
    <2>2. Owed' = Owed
      BY <2>1 DEF Owed, Requests
    <2> QED BY <2>2, <1>1 DEF CallsArePaid
  <1>6. PairsAreKnown'
    <2>1. ASSUME NEW u \in Uploads, NEW s \in Messages \cup Uploads, u # s,
                 InProgress(u)', InProgress(s)'
          PROVE  {u, s} \in together'
      <3>1. CASE u = r
        <4>1. InProgress(s) /\ Rivals(r, s)
          BY <2>1, <3>1, <1>2 DEF InProgress, Rivals, Requests
        <4> QED BY <3>1, <4>1, <1>3 DEF Requests
      <3>2. CASE s = r
        <4>1. InProgress(u) /\ Rivals(r, u)
          BY <2>1, <3>2, <1>2 DEF InProgress, Rivals, Requests
        <4>2. {r, u} \in together'
          BY <4>1, <1>3 DEF Requests
        <4>3. {u, s} = {r, u}
          BY <3>2
        <4> QED BY <4>2, <4>3
      <3>3. CASE u # r /\ s # r
        BY <2>1, <3>3, <1>2, <1>3 DEF InProgress, Requests, PairsAreKnown
      <3> QED BY <3>1, <3>2, <3>3
    <2>2. ASSUME NEW u \in Uploads, NEW p \in together', u \in p
          PROVE  pc'[u] # "new"
      <3>1. CASE p \in together
        BY <2>2, <3>1, <1>2 DEF PairsAreKnown, Requests
      <3>2. CASE p \notin together
        <4>1. PICK s \in Requests : InProgress(s) /\ p = {r, s}
          BY <3>2, <1>3
        <4> QED BY <2>2, <4>1, <1>2 DEF InProgress
      <3> QED BY <3>1, <3>2
    <2>3. IsFiniteSet({u \in Uploads : pc[u] # "new"}')
      <3> DEFINE B == {u \in Uploads : pc[u] # "new"}
                 B2 == {u \in Uploads : pc'[u] # "new"}
      <3>1. IsFiniteSet(B)
        BY DEF PairsAreKnown
      <3>2. B2 \in SUBSET (B \cup {r})
        BY <1>2 DEF Requests
      <3> HIDE DEF B, B2
      <3>3. IsFiniteSet(B \cup {r})
        BY <3>1, FS_AddElement
      <3>4. IsFiniteSet(B2)
        BY <3>2, <3>3, FS_Subset
      <3> QED BY <3>4 DEF B2
    <2> QED BY <2>1, <2>2, <2>3 DEF PairsAreKnown
  <1>7. \A u \in docs' : pc'[u] = "ended"
    BY <1>1, <1>2 DEF DocsAreCounted, Requests
  <1>8. CountsAreFinite /\ CountsAreFinite'
    <2>1. TypeOK' /\ PairsAreKnown' /\ (\A u \in docs : pc[u] = "ended")' => CountsAreFinite'
      BY CountedAreFinite, PTL
    <2> QED BY <2>1, <1>1, <1>6, <1>7, CountedAreFinite DEF DocsAreCounted
  <1>9. LimitIsKept'
    <2>1. OverlapMessages \subseteq OverlapMessages'
      BY <1>3 DEF OverlapMessages, Overlapping
    <2>2. /\ Cardinality(OverlapMessages) <= Cardinality(OverlapMessages')
          /\ Cardinality(OverlapMessages) \in Nat /\ Cardinality(OverlapMessages') \in Nat
      BY <2>1, <1>8, FS_Subset DEF CountsAreFinite
    <2>3. session.llmCallCount \in Int
      BY <1>1 DEF TypeOK, Session
    <2>4. session.llmCallCount <= MaxCalls + Cardinality(OverlapMessages')
      BY <2>2, <2>3 DEF LimitIsKept
    <2>5. ASSUME NEW m \in Messages, pc'[m] = "read", turn[m].seen = session.version
          PROVE  session.llmCallCount + turn[m].budget <= MaxCalls + Cardinality(Ahead(m)')
      <3>1. pc[m] = "read"
        BY <2>5, <1>2 DEF Requests
      <3>2. Ahead(m) \subseteq Ahead(m)'
        BY <1>2, <1>3 DEF Ahead, Requests
      <3>3. /\ Cardinality(Ahead(m)) <= Cardinality(Ahead(m)')
            /\ Cardinality(Ahead(m)) \in Nat /\ Cardinality(Ahead(m)') \in Nat
        BY <3>2, <1>8, FS_Subset DEF CountsAreFinite
      <3>4. session.llmCallCount + turn[m].budget <= MaxCalls + Cardinality(Ahead(m))
            /\ turn[m].budget \in Nat
        BY <2>5, <3>1, <1>1 DEF LimitIsKept, TypeOK, Turn
      <3> QED BY <2>3, <3>3, <3>4
    <2> QED BY <2>4, <2>5, <1>1 DEF LimitIsKept
  <1>10. DocsAreCounted'
    <2>1. ASSUME NEW v \in Uploads, pc'[v] \in {"counted", "reserved"}
          PROVE  Cardinality({d \in docs : {v, d} \notin together'}) < MaxDocs
      <3> DEFINE D == {d \in docs : {v, d} \notin together}
                 D2 == {d \in docs : {v, d} \notin together'}
      <3>1. pc[v] \in {"counted", "reserved"}
        BY <2>1, <1>2 DEF Requests
      <3>2. D2 \in SUBSET D
        BY <1>3
      <3>3. IsFiniteSet(D) /\ Cardinality(D) < MaxDocs /\ Cardinality(D) \in Nat
        BY <3>1, <1>8 DEF DocsAreCounted, CountsAreFinite
      <3> HIDE DEF D, D2
      <3>4. Cardinality(D2) <= Cardinality(D) /\ Cardinality(D2) \in Nat
        BY <3>2, <3>3, FS_Subset, FS_CardinalityType
      <3>5. Cardinality(D2) < MaxDocs
        BY <3>3, <3>4
      <3> QED BY <3>5 DEF D2
    <2>2. \A v \in docs : Overlapping(v, docs) => Overlapping(v, docs)'
      BY <1>1, <1>3 DEF Overlapping
    <2> QED BY <2>1, <2>2, <1>1, <1>7 DEF DocsAreCounted
  <1> QED BY <1>4, <1>5, <1>6, <1>9, <1>10

LEMMA BudgetStep == IInv /\ IInv' /\ BInv /\ [Next]_vars => BInv'
  <1> SUFFICES ASSUME IInv, IInv', BInv, [Next]_vars PROVE BInv'
    OBVIOUS
  <1> USE OnboardingAssumption
  <1>1. /\ session \in Session /\ session' \in Session /\ session.version \in Nat
        /\ \A f \in Finals : f \notin Messages \cup Uploads
    BY DEF IInv, TypeOK, Session
  <1>2. ASSUME NEW f \in Finals, FinalStep(f) PROVE BInv'
    <2>1. \A r \in Messages \cup Uploads : pc'[r] = pc[r]
      BY <1>1, <1>2
      DEF FinalStep, FinalReads, FinalNames, FinalCreates, FinalCloses, EndFinal, Goto,
          IInv, TypeOK, Requests
    <2>2. UNCHANGED <<turn, docs, calls, together>>
      BY <1>2 DEF FinalStep, FinalReads, FinalNames, FinalCreates, FinalCloses, history
    <2>3. session' = session \/ session' = Closed(f)
      BY <1>2 DEF FinalStep, FinalReads, FinalNames, FinalCreates, FinalCloses
    <2>4. session'.llmCallCount = session.llmCallCount /\ session'.version >= session.version
          /\ session'.version \in Nat
      <3>1. CASE session' = session
        BY <1>1, <3>1
      <3>2. CASE session' = Closed(f)
        <4>1. /\ session'.llmCallCount = session.llmCallCount
              /\ session'.version = session.version + 1
          BY <1>1, <3>2 DEF Closed, Session
        <4> QED BY <1>1, <4>1
      <3> QED BY <2>3, <3>1, <3>2
    <2> QED BY <2>1, <2>2, <2>4, BudgetFrame
  <1>3. ASSUME NEW f \in Finals, Begin(f) \/ Fail(f) PROVE BInv'
    <2>1. \A r \in Messages \cup Uploads : pc'[r] = pc[r]
      BY <1>1, <1>3 DEF Begin, Fail, EndFinal, Goto, IInv, TypeOK, Requests
    <2>2. UNCHANGED <<session, docs, calls>> /\ turn' = turn
      BY <1>1, <1>3 DEF Begin, Fail, history, IInv, TypeOK
    <2>3. /\ together \subseteq together'
          /\ \A p \in together' \ together : \E s \in Finals : p = {f, s}
      BY <1>1, <1>3 DEF Begin, Fail, history, Rivals
    <2>4. session'.version >= session.version
      BY <1>1, <2>2
    <2>5. \A u \in Uploads : \A p \in together' : u \in p => p \in together
      BY <1>1, <2>3
    <2> QED BY <1>1, <2>1, <2>2, <2>3, <2>4, <2>5, BudgetFrame
  <1>4. CASE Expire
    <2>1. /\ UNCHANGED <<pc, turn, docs, calls, together>>
          /\ session'.llmCallCount = session.llmCallCount /\ session'.version = session.version
      BY <1>1, <1>4 DEF Expire, history, Session
    <2>2. session'.version >= session.version /\ session'.version \in Nat
      BY <1>1, <2>1
    <2> QED BY <2>1, <2>2, BudgetFrame
  <1>5. CASE UNCHANGED vars
    <2>1. UNCHANGED <<session, pc, turn, docs, calls, together>>
      BY <1>5 DEF vars, history
    <2>2. session'.version >= session.version /\ session'.version \in Nat
      BY <1>1, <2>1
    <2> QED BY <2>1, <2>2, BudgetFrame
  <1> QED
    BY <1>2, <1>3, <1>4, <1>5, MessageBudget, UploadBudget, BeginBudget
    DEF Next, Server, Requests

(* However many messages, uploads and finalisations of a session run at    *)
(* once, and wherever one of them dies: every answered call stays paid     *)
(* for, the limit of calls is passed only by uploads that ran beside a     *)
(* message, and the limit of documents only by uploads that ran at once.   *)
THEOREM BudgetKept == PageSpec => []BudgetIsKept
  <1>1. IInv /\ BInv => BudgetIsKept
    <2> SUFFICES ASSUME IInv, BInv PROVE BudgetIsKept
      OBVIOUS
    <2>1. session.llmCallCount >= calls
      <3>1. Cardinality(Owed) \in Nat /\ session.llmCallCount >= calls + Cardinality(Owed)
        BY FS_CardinalityType DEF BInv, CallsArePaid
      <3>2. session.llmCallCount \in Int /\ calls \in Nat
        BY DEF IInv, TypeOK, Session
      <3> QED BY <3>1, <3>2
    <2> QED BY <2>1 DEF BInv, LimitIsKept, DocsAreCounted, BudgetIsKept, OverlapMessages
  <1>2. Spec => []BInv
    BY InitBudget, BudgetStep, Inductive, PTL DEF Spec
  <1> QED BY <1>1, <1>2, Inductive, PageImplements, PTL
=============================================================================
