--------------------------------- MODULE Tab ---------------------------------
(***************************************************************************)
(* A tab of frontend-web ("web") or of the technician's frontend-pwa       *)
(* ("phone"), which several users may use one after the other: the token   *)
(* and the session it shows, calls whose answers come when somebody else   *)
(* may have signed in, and on the phone the tasks kept by the queries of   *)
(* the page and by the service worker.                                     *)
(***************************************************************************)
EXTENDS Accounts

CONSTANTS
  Nobody,
  MaxTokens   \* MaxTokens[d]: how many tokens are signed for a tab of device d

ASSUME TabAssumption ==
  Nobody \notin Users /\ MaxTokens \in [{"web", "phone"} -> Nat]

VARIABLES
  device,   \* "web" or "phone"
  tab,      \* token (0: none) and saved session, of the tab's storage; session
            \* and status of AuthProvider; page
  calls,    \* calls[c]: the call of that kind under way, or NoCall
  memory,   \* memory[q]: whose tasks the query q holds
  cache,    \* whose tasks the service worker has stored
  filling,  \* whose tasks the service worker is about to store
  left,     \* history: whose tasks were in memory when a session ended here
  dirty,    \* history: whose tasks may be in the cache, but not by logout
  crossed   \* history: an answer for one user came under another

tabVars == <<device, tab, calls, memory, cache, filling, left, dirty, crossed>>
kept == <<memory, cache, filling, left, dirty>>

NoCall == [token |-> 0, user |-> Nobody, state |-> "none"]
Call(t, u) == [token |-> t, user |-> u, state |-> "sent"]
Calls == {"me", "login", "change", "fetch"}
Ends(c) == calls' = [calls EXCEPT ![c] = NoCall]
UnderWay(c) == calls[c] # NoCall
MayIssue == Len(issued) < MaxTokens[device]

(* The day is one query for whoever is there, the jobs one per user.       *)
Queries == {"day"} \cup Users
Phone == device = "phone"
Inside == tab.page # "login"
Kept == {memory[q] : q \in Queries} \ {Nobody}
Cached == {cache} \ {Nobody}
QueryOf(p, u) == IF p = "day" THEN "day" ELSE u

TabInit ==
  /\ AccountsInit
  /\ device \in {"web", "phone"}
  /\ tab = [token |-> 0, saved |-> Nobody, session |-> Nobody, status |-> "anonymous", page |-> "login"]
  /\ calls = [c \in Calls |-> NoCall]
  /\ memory = [q \in Queries |-> Nobody]
  /\ cache = Nobody /\ filling = {} /\ left = {} /\ dirty = {}
  /\ crossed = FALSE

-----------------------------------------------------------------------------
(* How a session ends.  Only the shell of the phone leaves the page then;  *)
(* the web stays until somebody navigates.                                 *)

Anonymous(t) ==
  [t EXCEPT !.token = 0, !.saved = Nobody, !.status = "anonymous",
            !.page = IF Phone THEN "login" ELSE @]

SignedOut(t) == [Anonymous(t) EXCEPT !.session = Nobody]

(* A fetch that is aborted may have reached the service worker.            *)
Aborted ==
  \/ filling' = filling
  \/ /\ UnderWay("fetch") /\ calls["fetch"].token # 0
     /\ filling' = filling \cup {Holder(calls["fetch"].token)}

(* A session ends other than by logout; t is what is left of the tab.      *)
EndsSession(c, t) ==
  /\ tab' = t
  /\ IF Phone THEN calls' = [calls EXCEPT ![c] = NoCall, !["fetch"] = NoCall] /\ Aborted
              ELSE Ends(c) /\ UNCHANGED filling
  /\ left' = left \cup Kept
  /\ dirty' = dirty \cup Cached \cup filling'
  /\ UNCHANGED <<device, memory, cache, crossed>>

(* 401 to any call, whatever token is stored by now.                       *)
Unauthorized(c) == EndsSession(c, SignedOut(tab)) /\ UNCHANGED accountVars

(* mutant: the stored answers survive *)
MCleared == cache

Cleared == IF Phone THEN Nobody ELSE cache

Logout ==
  /\ Inside
  /\ tab' = SignedOut(tab)
  /\ IF Phone THEN calls' = [calls EXCEPT !["fetch"] = NoCall] /\ Aborted
              ELSE UNCHANGED <<calls, filling>>
  /\ cache' = Cleared
  /\ left' = left \cup Kept
  /\ dirty' = filling'
  /\ UNCHANGED <<accountVars, device, memory, crossed>>

(* The page is loaded anew; with a token it asks whose it is.              *)
Loads(t) ==
  /\ tab' = [t EXCEPT !.session = Nobody,
                      !.status = IF t.token = 0 THEN "anonymous" ELSE "loading",
                      !.page = IF t.token = 0 THEN "login" ELSE "day"]
  /\ calls' = [c \in Calls |-> IF c = "me" /\ t.token # 0 THEN Call(t.token, Nobody) ELSE NoCall]
  /\ memory' = [q \in Queries |-> Nobody]
  /\ left' = {}
  /\ Aborted
  /\ UNCHANGED <<accountVars, device, cache, crossed>>

Reload == Loads(tab) /\ dirty' = dirty

(* Closing the tab drops its storage; the cache stays.                     *)
CloseTab ==
  /\ Loads([tab EXCEPT !.token = 0, !.saved = Nobody])
  /\ dirty' = dirty \cup Cached \cup filling'

(* Another page: the routes' guards look only for a token.                 *)
Navigate(p) ==
  /\ p # tab.page
  /\ tab' = [tab EXCEPT !.page = IF tab.token = 0 THEN "login" ELSE IF p = "login" THEN "day" ELSE p]
  /\ IF Phone THEN calls' = [calls EXCEPT !["fetch"] = NoCall] /\ Aborted
              ELSE UNCHANGED <<calls, filling>>
  /\ UNCHANGED <<accountVars, device, memory, cache, left, dirty, crossed>>

-----------------------------------------------------------------------------
(* AuthProvider *)

(* /auth/me of the mount                                                   *)
MeAnswered ==
  /\ UnderWay("me")
  /\ "ok" \in Guarded(calls["me"].token, FALSE)
  /\ LET u == Holder(calls["me"].token)
     IN  tab' = [tab EXCEPT !.session = u, !.status = "authenticated",
                            !.saved = IF Phone THEN u ELSE @]
  /\ crossed' = (crossed \/ tab.token # calls["me"].token)
  /\ Ends("me")
  /\ UNCHANGED <<accountVars, device, kept>>

MeUnauthorized ==
  /\ UnderWay("me") /\ "unauthorized" \in Guarded(calls["me"].token, FALSE)
  /\ Unauthorized("me")

(* No network, on the phone and with a saved session *)
MeOffline ==
  /\ UnderWay("me") /\ Phone /\ tab.saved # Nobody
  /\ tab' = [tab EXCEPT !.session = tab.saved, !.status = "authenticated"]
  /\ Ends("me")
  /\ UNCHANGED <<accountVars, device, kept, crossed>>

(* Any other failure clears the token: 403, 5xx, or no network.            *)
MeFails ==
  /\ UnderWay("me")
  /\ EndsSession("me", Anonymous(tab))
  /\ UNCHANGED accountVars

Login(u) ==
  /\ ~Inside /\ ~UnderWay("login") /\ MayIssue
  /\ calls' = [calls EXCEPT !["login"] = Call(0, u)]
  /\ UNCHANGED <<accountVars, device, tab, kept, crossed>>

LoggedIn(u) ==
  [tab EXCEPT !.token = Newest, !.saved = IF Phone THEN u ELSE @, !.session = u,
              !.status = "authenticated", !.page = "day"]

LoginAnswered ==
  /\ UnderWay("login") /\ MayIssue
  /\ Issues(calls["login"].user)
  /\ tab' = LoggedIn(calls["login"].user)
  /\ Ends("login")
  /\ UNCHANGED <<mustChange, expired, device, kept, crossed>>

(* Wrong credentials are a 401 like any other; or there is no answer.      *)
LoginRefused == UnderWay("login") /\ Unauthorized("login")

NoAnswer(c) ==
  /\ UnderWay(c) /\ c \in {"login", "change"}
  /\ Ends(c)
  /\ UNCHANGED <<accountVars, device, tab, kept, crossed>>

-----------------------------------------------------------------------------
(* ProfilePanel of the web: a new password, and a new token for it.        *)

ChangePassword ==
  /\ device = "web" /\ Inside /\ ~UnderWay("change") /\ MayIssue /\ tab.session # Nobody
  /\ calls' = [calls EXCEPT !["change"] = Call(tab.token, tab.session)]
  /\ UNCHANGED <<accountVars, device, tab, kept, crossed>>

ChangeCommits ==
  /\ calls["change"].state = "sent" /\ "ok" \in Guarded(calls["change"].token, TRUE)
  /\ PasswordChanges(Holder(calls["change"].token))
  /\ calls' = [calls EXCEPT !["change"].state = "done"]
  /\ UNCHANGED <<device, tab, kept, crossed>>

(* The token is stored, whoever is there when the answer comes.            *)
ChangeAnswered ==
  /\ calls["change"].state = "done" /\ MayIssue
  /\ LET u == Holder(calls["change"].token)
     IN  /\ Issues(u)
         /\ tab' = [tab EXCEPT !.token = Newest]
         /\ crossed' = (crossed \/ tab.session \notin {u, Nobody})
  /\ Ends("change")
  /\ UNCHANGED <<mustChange, expired, device, kept>>

(* Also when only the current password was mistyped                        *)
ChangeRefused ==
  /\ calls["change"].state = "sent"
  /\ Unauthorized("change")

-----------------------------------------------------------------------------
(* The tasks on the phone: NetworkFirst of sw.ts.                          *)

Fetches ==
  /\ Phone /\ Inside /\ ~UnderWay("fetch")
  /\ tab.page = "jobs" => tab.session # Nobody
  /\ calls' = [calls EXCEPT !["fetch"] = Call(tab.token, tab.session)]
  /\ UNCHANGED <<accountVars, device, tab, kept, crossed>>

Shows(u) == memory' = [memory EXCEPT ![QueryOf(tab.page, calls["fetch"].user)] = u]

Fetched ==
  /\ UnderWay("fetch") /\ "ok" \in Guarded(calls["fetch"].token, FALSE)
  /\ LET u == Holder(calls["fetch"].token)
     IN  Shows(u) /\ filling' = IF tab.page = "jobs" THEN filling \cup {u} ELSE filling
  /\ Ends("fetch")
  /\ UNCHANGED <<accountVars, device, tab, cache, left, dirty, crossed>>

(* No network, or an answer that takes longer than the worker waits: what  *)
(* is stored is shown, and a late answer is stored.                        *)
FetchedFromCache ==
  /\ UnderWay("fetch") /\ tab.page = "jobs" /\ cache # Nobody
  /\ Shows(cache)
  /\ \/ filling' = filling
     \/ /\ "ok" \in Guarded(calls["fetch"].token, FALSE)
        /\ filling' = filling \cup {Holder(calls["fetch"].token)}
  /\ Ends("fetch")
  /\ UNCHANGED <<accountVars, device, tab, cache, left, dirty, crossed>>

FetchUnauthorized ==
  /\ UnderWay("fetch") /\ "unauthorized" \in Guarded(calls["fetch"].token, FALSE)
  /\ Unauthorized("fetch")

FetchFails ==
  /\ UnderWay("fetch")
  /\ Ends("fetch")
  /\ UNCHANGED <<accountVars, device, tab, kept, crossed>>

Fill(u) ==
  /\ u \in filling
  /\ cache' = u /\ filling' = filling \ {u}
  /\ UNCHANGED <<accountVars, device, tab, calls, memory, left, dirty, crossed>>

(* Queries nobody looks at are collected; stored answers grow too old.     *)
Forget(q) ==
  /\ memory[q] # Nobody /\ (Inside => QueryOf(tab.page, tab.session) # q)
  /\ memory' = [memory EXCEPT ![q] = Nobody]
  /\ UNCHANGED <<accountVars, device, tab, calls, cache, filling, left, dirty, crossed>>

TooOld ==
  /\ cache # Nobody /\ cache' = Nobody
  /\ UNCHANGED <<accountVars, device, tab, calls, memory, filling, left, dirty, crossed>>

-----------------------------------------------------------------------------
TabNext ==
  \/ Logout \/ Reload \/ CloseTab \/ (\E p \in {"login", "day", "jobs"} : Navigate(p))
  \/ MeAnswered \/ MeUnauthorized \/ MeOffline \/ MeFails
  \/ (\E u \in Users : Login(u) \/ Fill(u)) \/ LoginAnswered \/ LoginRefused
  \/ (\E c \in Calls : NoAnswer(c))
  \/ ChangePassword \/ ChangeCommits \/ ChangeAnswered \/ ChangeRefused
  \/ Fetches \/ Fetched \/ FetchedFromCache \/ FetchUnauthorized \/ FetchFails
  \/ (\E q \in Queries : Forget(q)) \/ TooOld
  \/ (\E t \in DOMAIN issued : Expires(t)) /\ UNCHANGED tabVars

TabSpec == TabInit /\ [][TabNext]_<<accountVars, tabVars>>

-----------------------------------------------------------------------------
TabTypeOK ==
  /\ AccountsTypeOK
  /\ device \in {"web", "phone"}
  /\ tab \in [token : 0..Len(issued), saved : Users \cup {Nobody}, session : Users \cup {Nobody},
              status : {"loading", "authenticated", "anonymous"}, page : {"login", "day", "jobs"}]
  /\ calls \in [Calls -> [token : 0..Len(issued), user : Users \cup {Nobody}, state : {"none", "sent", "done"}]]
  /\ memory \in [Queries -> Users \cup {Nobody}]
  /\ cache \in Users \cup {Nobody} /\ filling \subseteq Users
  /\ left \subseteq Users /\ dirty \subseteq Users /\ crossed \in BOOLEAN

(* Who is shown is who acts: the session on the page is that of the token  *)
(* its requests carry, unless an answer that was asked for by somebody     *)
(* else arrived.                                                           *)
IdentityIsOwn ==
  tab.token # 0 /\ tab.session # Nobody /\ ~crossed => tab.session = Holder(tab.token)

Shown == memory[QueryOf(tab.page, tab.session)]

(* The tasks on the phone are those of the technician it shows; those of   *)
(* another can only come from a query of the same load of the page, or     *)
(* from the cache if that technician did not leave by logout, or left      *)
(* while an answer was about to be stored.                                 *)
DataIsOwn ==
  Phone /\ Inside /\ tab.session # Nobody /\ ~crossed =>
    Shown \in {tab.session, Nobody} \cup left \cup dirty

TabIsOwn == TabTypeOK /\ IdentityIsOwn /\ DataIsOwn
=============================================================================
