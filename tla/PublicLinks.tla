----------------------------- MODULE PublicLinks -----------------------------
(***************************************************************************)
(* modules/public-links/public-link.service.ts: the links that customers   *)
(* receive.  A staff request makes at most one link, inside a transaction  *)
(* of its caller: it revokes the active links of the same subject (a       *)
(* quote, a piece of equipment, a task) and inserts its own.  A link is    *)
(* named by the request that made it; link is what is committed.  Under    *)
(* READ COMMITTED the revoking UPDATE sees the links that were committed   *)
(* when it began, waits for those another transaction has updated, and     *)
(* then skips what is no longer active.                                    *)
(***************************************************************************)
EXTENDS FiniteSets

CONSTANTS
  Makers,      \* staff requests that make a link
  SubjectOf    \* SubjectOf[m]: what the link of m is about

VARIABLES
  link,     \* link[m]: the committed row of the link of m
  making,   \* making[m]: how far the transaction of m is with it
  targets   \* targets[m]: the links the UPDATE of m sees, then those it has locked

linkVars == <<link, making, targets>>

LinkTypeOK ==
  /\ link \in [Makers -> {"none", "active", "revoked", "expired"}]
  /\ making \in [Makers -> {"idle", "revoking", "revoked", "linked"}]
  /\ targets \in [Makers -> SUBSET Makers]

LinkInit ==
  /\ link = [m \in Makers |-> "none"]
  /\ making = [m \in Makers |-> "idle"]
  /\ targets = [m \in Makers |-> {}]

ActiveOf(x) == {m \in Makers : SubjectOf[m] = x /\ link[m] = "active"}

(* mutant: the older links are not revoked *)
MRevokeBegins(m) ==
  /\ making[m] = "idle"
  /\ making' = [making EXCEPT ![m] = "revoking"]
  /\ UNCHANGED <<link, targets>>

RevokeBegins(m) ==
  /\ making[m] = "idle"
  /\ making' = [making EXCEPT ![m] = "revoking"]
  /\ targets' = [targets EXCEPT ![m] = ActiveOf(SubjectOf[m])]
  /\ UNCHANGED link

(* The links whose rows the transaction of m has locked. *)
Holding(m) == IF making[m] \in {"revoked", "linked"} THEN targets[m] ELSE {}

(* The UPDATE has every lock it needs. *)
RevokeEnds(m) ==
  /\ making[m] = "revoking"
  /\ \A o \in Makers \ {m} : Holding(o) \cap targets[m] = {}
  /\ making' = [making EXCEPT ![m] = "revoked"]
  /\ targets' = [targets EXCEPT ![m] = @ \cap ActiveOf(SubjectOf[m])]
  /\ UNCHANGED link

(* publicLink.create; it shares the key of the subject's row from now on *)
Insert(m) ==
  /\ making[m] = "revoked"
  /\ making' = [making EXCEPT ![m] = "linked"]
  /\ UNCHANGED <<link, targets>>

Idle(m) ==
  /\ making' = [making EXCEPT ![m] = "idle"]
  /\ targets' = [targets EXCEPT ![m] = {}]

(* The transaction of m commits. *)
Publish(m) ==
  /\ making[m] = "linked"
  /\ link' = [l \in Makers |->
                CASE l = m -> "active"
                  [] l \in targets[m] -> "revoked"
                  [] OTHER -> link[l]]
  /\ Idle(m)

(* It is rolled back. *)
Withdraw(m) == Idle(m) /\ UNCHANGED link

Expire(m) ==
  /\ link[m] = "active"
  /\ link' = [link EXCEPT ![m] = "expired"]
  /\ UNCHANGED <<making, targets>>

(* resolve: everything but an active link is the same 404 *)
Resolves(m) == link[m] = "active"
=============================================================================
