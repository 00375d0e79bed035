---------------------------- MODULE Integrations ----------------------------
(***************************************************************************)
(* modules/integrations and modules/comms: the Gmail connection of one     *)
(* tenant.  The owner connects through an OAuth consent, disconnects, or   *)
(* withdraws access at Google; clients (syncs of the mailbox and letters   *)
(* to customers) work with the tokens they read, which the library renews  *)
(* and which are saved in the background.  A token is a grant of Google:   *)
(* Google is external and accepts the grants in valid.                     *)
(***************************************************************************)
EXTENDS Integers, FiniteSets

CONSTANTS
  Consents,    \* attempts of the owner to connect
  Runs,        \* executions of syncGmail
  Letters,     \* mails to customers
  MaxTokens,   \* grants Google ever issues: a bound of the model
  MaxChanges,  \* disconnections, withdrawals and renewals: a bound of the model
  Attempts,    \* tries of one external call
  NoToken, Nobody

ASSUME IntegrationsAssumption ==
  /\ MaxTokens \in Nat \ {0} /\ MaxChanges \in Nat /\ Attempts \in Nat \ {0}
  /\ NoToken \notin 1 .. MaxTokens
  /\ Consents \cap Runs = {} /\ Consents \cap Letters = {} /\ Runs \cap Letters = {}
  /\ Nobody \notin Consents \cup Runs \cup Letters

VARIABLES
  row,        \* status and tokens of the tenant's integration
  valid,      \* grants Google accepts
  issued,     \* grants Google has issued
  cookie,     \* the consent whose nonce the owner's browser holds
  consent,    \* consent[k]: how far it is
  held,       \* held[c]: the grant client c works with
  saving,     \* renewed tokens that are being saved
  changes,    \* disconnections, withdrawals and renewals so far
  late,       \* clients that read what someone else then changed, or that were
              \* refused for another reason than a dead grant
  expiredBy,  \* the client that last marked the row EXPIRED
  lost,       \* a renewed token was not saved, or access was withdrawn
  letter      \* letter[l]: tries, deliveries and answer

googleVars == <<valid, issued>>
ownerVars == <<cookie, consent, changes>>
connectionVars == <<row, googleVars, ownerVars, held, saving, late, expiredBy, lost>>
integrationVars == <<connectionVars, letter>>

Clients == Runs \cup Letters
Tokens == 1 .. MaxTokens
Token == Tokens \cup {NoToken}
Saving == [by : Clients, access : Tokens, refresh : Token]

IntegrationsTypeOK ==
  /\ row \in [status : {"none", "CONNECTED", "EXPIRED", "ERROR", "DISCONNECTED"},
              access : Token, refresh : Token]
  /\ valid \subseteq Tokens /\ issued \in 0 .. MaxTokens
  /\ cookie \in Consents \cup {Nobody}
  /\ consent \in [Consents -> {"new", "issued", "verified", "ended"}]
  /\ held \in [Clients -> Token] /\ saving \subseteq Saving
  /\ changes \in 0 .. MaxChanges /\ late \subseteq Clients
  /\ expiredBy \in Clients \cup {Nobody} /\ lost \in BOOLEAN
  /\ letter \in [Letters -> [pc : {"new", "sending", "erring", "sent", "failed", "absent"}, tries : 0 .. Attempts,
                             delivered : 0 .. Attempts, timeouts : 0 .. Attempts]]

(* The tenant connected once, before.  Only the actors in cast take part;  *)
(* the owner does when a consent of the owner does.                        *)
IntegrationsInit(cast) ==
  /\ row = [status |-> "CONNECTED", access |-> 1, refresh |-> 1]
  /\ valid = {1} /\ issued = 1
  /\ cookie = Nobody
  /\ consent = [k \in Consents |-> IF k \in cast THEN "new" ELSE "ended"]
  /\ held = [c \in Clients |-> NoToken] /\ saving = {}
  /\ changes = IF cast \cap Consents = {} THEN MaxChanges ELSE 0
  /\ late = {} /\ expiredBy = Nobody /\ lost = FALSE
  /\ letter = [l \in Letters |-> [pc |-> IF l \in cast THEN "new" ELSE "absent",
                                 tries |-> 0, delivered |-> 0, timeouts |-> 0]]

Working == {c \in Clients : held[c] # NoToken} \cup {s.by : s \in saving}

-----------------------------------------------------------------------------
(* The owner: google/connect, google/callback, disconnect. *)

IssueState(k) ==
  /\ consent[k] = "new"
  /\ consent' = [consent EXCEPT ![k] = "issued"]
  /\ cookie' = k
  /\ UNCHANGED <<row, googleVars, changes, held, saving, late, expiredBy, lost, letter>>

(* verifyAndConsume: the state is of this browser and was not used before. *)
Callback(k) ==
  /\ consent[k] = "issued"
  /\ \/ cookie = k /\ consent' = [consent EXCEPT ![k] = "verified"] /\ UNCHANGED cookie
     \/ consent' = [consent EXCEPT ![k] = "ended"] /\ cookie' = Nobody
  /\ UNCHANGED <<row, googleVars, changes, held, saving, late, expiredBy, lost, letter>>

(* handleGoogleCallback: the code is exchanged, then the row is written;   *)
(* when the exchange or the write fails nothing is saved.                  *)
Connect(k) ==
  /\ consent[k] = "verified"
  /\ consent' = [consent EXCEPT ![k] = "ended"]
  /\ \/ /\ issued < MaxTokens
        /\ issued' = issued + 1
        /\ valid' = valid \cup {issued'}
        /\ row' = [status |-> "CONNECTED", access |-> issued', refresh |-> issued']
        /\ late' = late \cup Working
        /\ cookie' = Nobody /\ lost' = FALSE
     \/ UNCHANGED <<googleVars, row, late, cookie, lost>>
  /\ UNCHANGED <<changes, held, saving, expiredBy, letter>>

Disconnect ==
  /\ row.status \notin {"none", "DISCONNECTED"}
  /\ changes < MaxChanges /\ changes' = changes + 1
  /\ row' = [status |-> "DISCONNECTED", access |-> NoToken, refresh |-> NoToken]
  /\ late' = late \cup Working
  /\ UNCHANGED <<googleVars, cookie, consent, held, saving, expiredBy, lost, letter>>

(* External: the owner withdraws the access at Google. *)
Withdraw ==
  /\ valid # {}
  /\ changes < MaxChanges /\ changes' = changes + 1
  /\ valid' = {} /\ lost' = TRUE
  /\ UNCHANGED <<row, issued, cookie, consent, held, saving, late, expiredBy, letter>>

-----------------------------------------------------------------------------
(* Clients. *)

Usable == row.status = "CONNECTED" /\ row.access # NoToken /\ row.refresh # NoToken

(* getConnector *)
Acquire(c) == Usable /\ held' = [held EXCEPT ![c] = row.refresh]
Release(c) == held' = [held EXCEPT ![c] = NoToken]

(* markExpired, markError: whatever the row says now *)
Mark(c, status) ==
  /\ row' = [row EXCEPT !.status = status]
  /\ expiredBy' = IF status = "EXPIRED" THEN c ELSE expiredBy

Accepted(c) == held[c] \in valid

(* The library renews the access token on its way, and perhaps the grant.  *)
(* The tokens are saved by a call nobody waits for.  An access token lives *)
(* an hour, so a client's renewal is saved or lost before its next one.    *)
Renew(c) ==
  /\ held[c] # NoToken /\ Accepted(c) /\ \A s \in saving : s.by # c
  /\ changes < MaxChanges /\ changes' = changes + 1
  /\ \/ /\ saving' = saving \cup {[by |-> c, access |-> held[c], refresh |-> NoToken]}
        /\ UNCHANGED <<googleVars, held, late>>
     \/ /\ issued < MaxTokens
        /\ issued' = issued + 1
        /\ valid' = (valid \ {held[c]}) \cup {issued'}
        /\ held' = [held EXCEPT ![c] = issued']
        /\ saving' = saving \cup {[by |-> c, access |-> issued', refresh |-> issued']}
        /\ late' = late \cup (Working \ {c})
  /\ UNCHANGED <<row, cookie, consent, expiredBy, lost, letter>>

(* mutant: the renewed grant is dropped, only the access token is saved *)
MSaved(s) == [row EXCEPT !.access = s.access]

Saved(s) == [row EXCEPT !.access = s.access,
                        !.refresh = IF s.refresh = NoToken THEN @ ELSE s.refresh]

(* persistRefreshedTokens: a try that timed out may still write later, so  *)
(* a write may be followed by another of the same tokens; all the tries    *)
(* fail, or the process dies: lost.                                        *)
Save(s) ==
  /\ s \in saving
  /\ \/ row' = Saved(s) /\ saving' \in {saving, saving \ {s}} /\ UNCHANGED lost
        /\ late' = late \cup ((Working \cup {expiredBy}) \ {s.by, Nobody})
     \/ lost' = TRUE /\ saving' = saving \ {s} /\ UNCHANGED <<row, late>>
  /\ UNCHANGED <<googleVars, ownerVars, held, expiredBy, letter>>

(* sendTemplateEmail: no error leaves it, and a refusal marks nothing *)
LetterStarts(l) ==
  /\ letter[l].pc = "new"
  /\ \/ Acquire(l) /\ letter' = [letter EXCEPT ![l].pc = "sending"]
     \/ ~Usable /\ letter' = [letter EXCEPT ![l].pc = "failed"] /\ UNCHANGED held
     \/ Usable /\ letter' = [letter EXCEPT ![l].pc = "erring"] /\ UNCHANGED held
  /\ UNCHANGED <<row, googleVars, ownerVars, saving, late, expiredBy, lost>>

(* The key the tokens are encrypted with is not configured. *)
LetterErrs(l) ==
  /\ letter[l].pc = "erring" /\ letter' = [letter EXCEPT ![l].pc = "failed"]
  /\ Mark(l, "ERROR")
  /\ UNCHANGED <<googleVars, ownerVars, held, saving, late, lost>>

(* A try is over: what it delivered, whether it timed out, what follows.   *)
Tried(x, pc, delivered, timeouts) ==
  [x EXCEPT !.pc = pc, !.tries = @ + 1, !.delivered = @ + delivered, !.timeouts = @ + timeouts]
Becoming(l, pc, delivered, timeouts) ==
  letter' = [letter EXCEPT ![l] = Tried(letter[l], pc, delivered, timeouts)]

(* mutant: a call that was answered is tried again *)
MAnswered(l) == Becoming(l, "sending", 1, 0) /\ UNCHANGED held

Answered(l) == Becoming(l, "sent", 1, 0) /\ Release(l)

(* callExternal: a try is answered, refused for good, fails in a way worth *)
(* another try, or times out, when the mail may have been sent all the     *)
(* same: the call is not cancelled.                                        *)
Try(l) ==
  /\ letter[l].pc = "sending"
  /\ \/ Accepted(l) /\ Answered(l)
     \/ Becoming(l, "failed", 0, 0) /\ Release(l)
     \/ /\ letter[l].tries + 1 < Attempts
        /\ \E d \in {0, 1}, t \in {0, 1} :
             (d = 1 => t = 1 /\ Accepted(l)) /\ Becoming(l, "sending", d, t)
        /\ UNCHANGED held
     \/ /\ letter[l].tries + 1 = Attempts /\ Accepted(l)
        /\ Becoming(l, "failed", 1, 1) /\ Release(l)
  /\ UNCHANGED <<row, googleVars, ownerVars, saving, late, expiredBy, lost>>

Owner == (\E k \in Consents : IssueState(k) \/ Callback(k) \/ Connect(k)) \/ Disconnect \/ Withdraw
Background == (\E c \in Clients : Renew(c)) \/ (\E s \in saving : Save(s))
Mailing == \E l \in Letters : LetterStarts(l) \/ LetterErrs(l) \/ Try(l)

-----------------------------------------------------------------------------
(* The status of the connection tells the truth but for races: EXPIRED     *)
(* with a grant that works, or with none, was written by a client that had *)
(* read the tokens before someone else replaced them, or was refused for   *)
(* its quota; a row that is DISCONNECTED holds tokens only if a client was *)
(* at work when it was disconnected; and a CONNECTED row holds a dead      *)
(* grant only while a new one is being saved, after one was lost or access *)
(* was withdrawn, or after a race.                                         *)
StatusIsTrue ==
  /\ row.status = "EXPIRED" /\ row.refresh \in valid \cup {NoToken} => expiredBy \in late
  /\ row.status = "DISCONNECTED" /\ {row.access, row.refresh} # {NoToken} => late # {}
  /\ row.status = "CONNECTED" /\ row.refresh \notin valid =>
       saving # {} \/ lost \/ late # {}

(* A letter reaches its customer once, and the answer says so, but for     *)
(* tries that timed out: each may have sent the mail after all.            *)
LetterIsSentOnce ==
  \A l \in Letters :
    /\ letter[l].delivered <= 1 + letter[l].timeouts
    /\ letter[l].pc = "sent" => letter[l].delivered >= 1
    /\ letter[l].pc = "failed" => letter[l].delivered <= letter[l].timeouts

(* What the office is told of the connection and of its letters is true.   *)
IntegrationIsSound == StatusIsTrue /\ LetterIsSentOnce
=============================================================================
