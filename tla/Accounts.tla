------------------------------ MODULE Accounts ------------------------------
(***************************************************************************)
(* modules/auth: the users of a tenant and their access tokens.  A token   *)
(* carries what was true of its user when it was signed; nothing revokes   *)
(* it, it expires.                                                         *)
(***************************************************************************)
EXTENDS Naturals, Sequences

CONSTANT Users

VARIABLES
  mustChange,  \* users who must change the password first
  issued,      \* the tokens signed, [user, must]; a token is its index
  expired      \* tokens whose time is over

accountVars == <<mustChange, issued, expired>>

AccountsInit == mustChange \in SUBSET Users /\ issued = <<>> /\ expired = {}

Holder(t) == issued[t].user
Newest == Len(issued) + 1

(* buildAuthResponse *)
Issues(u) == issued' = Append(issued, [user |-> u, must |-> u \in mustChange])

(* JwtAuthGuard: what a request with token t gets on a route that is open  *)
(* to users who must change their password, or not.  A request may have    *)
(* been let in just before its token expired.                              *)
Guarded(t, open) ==
  CASE t = 0 -> {"unauthorized"}
    [] t # 0 -> (IF t \in expired THEN {"unauthorized"} ELSE {})
                \cup {IF issued[t].must /\ ~open THEN "forbidden" ELSE "ok"}

Expires(t) ==
  /\ t \notin expired
  /\ expired' = expired \cup {t}
  /\ UNCHANGED <<mustChange, issued>>

(* changePassword: the row first, the token with the answer.               *)
PasswordChanges(u) == mustChange' = mustChange \ {u} /\ UNCHANGED <<issued, expired>>

AccountsTypeOK ==
  /\ mustChange \subseteq Users
  /\ issued \in Seq([user : Users, must : BOOLEAN])
  /\ expired \subseteq DOMAIN issued
=============================================================================
