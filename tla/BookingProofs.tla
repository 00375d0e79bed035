---------------------------- MODULE BookingProofs ----------------------------
(***************************************************************************)
(* A piece of equipment never has two open tasks, and a link books once,   *)
(* for any number of units, reminders and bookings.  The argument is the   *)
(* one of the code's comments, made precise: the row of the link and the   *)
(* row of the equipment are locks, and what a booking has read under them  *)
(* still holds when it writes.                                             *)
(***************************************************************************)
EXTENDS BookingPages, TLAPS

Marks(r) == pc[r] \in {"marked", "locked", "creating"}
Locks(r) == pc[r] \in {"locked", "creating"}

(* A tap has a link from "resolved" on, and has ended if it made a task. *)
TapsHaveLinks ==
  /\ \A r \in Taps : (Marks(r) \/ pc[r] = "resolved") => token[r] \in Makers
  /\ \A t \in tasks : token[t] \in Makers /\ pc[t] = "ended"

(* The lock of a link's row excludes, and protects that usedAt is null. *)
MarkExcludes ==
  \A r \in Taps : Marks(r) =>
    /\ token[r] \notin used
    /\ \A s \in Taps : Marks(s) /\ token[s] = token[r] => s = r

(* The lock of a unit's row excludes, and protects that it has no open task. *)
LockExcludes ==
  \A r \in Taps :
    /\ Locks(r) => \A s \in Taps : Locks(s) /\ UnitOf(s) = UnitOf(r) => s = r
    /\ pc[r] = "creating" => OpenTasks(UnitOf(r)) = {}

IInv ==
  /\ TypeOK /\ TapsHaveLinks /\ MarkExcludes /\ LockExcludes
  /\ UsedMeansBooked /\ OneOpenTask

-----------------------------------------------------------------------------
(* Every step of a reminder's transaction keeps the types of the links. *)
LEMMA LinkTypes ==
  ASSUME LinkTypeOK, NEW m \in Makers,
         RevokeBegins(m) \/ RevokeEnds(m) \/ Insert(m) \/ Publish(m) \/ Withdraw(m) \/ Expire(m)
  PROVE  LinkTypeOK'
<1>1. CASE RevokeBegins(m)
  BY <1>1 DEF LinkTypeOK, RevokeBegins, ActiveOf
<1>2. CASE RevokeEnds(m)
  BY <1>2 DEF LinkTypeOK, RevokeEnds, ActiveOf
<1>3. CASE Insert(m)
  BY <1>3 DEF LinkTypeOK, Insert
<1>4. CASE Publish(m)
  <2>1. link' \in [Makers -> {"none", "active", "revoked", "expired"}]
    BY <1>4 DEF LinkTypeOK, Publish
  <2> QED
    BY <1>4, <2>1 DEF LinkTypeOK, Publish, Idle
<1>5. CASE Withdraw(m)
  BY <1>5 DEF LinkTypeOK, Withdraw, Idle
<1>6. CASE Expire(m)
  BY <1>6 DEF LinkTypeOK, Expire
<1> QED
  BY <1>1, <1>2, <1>3, <1>4, <1>5, <1>6

LEMMA InitIsGood == Init => IInv
<1> SUFFICES ASSUME Init PROVE IInv
  OBVIOUS
<1>1. TypeOK
  BY DEF Init, LinkInit, TypeOK, LinkTypeOK, Requests
<1>2. TapsHaveLinks /\ MarkExcludes /\ LockExcludes
  BY DEF Init, TapsHaveLinks, MarkExcludes, LockExcludes, Marks, Locks, Requests
<1>3. UsedMeansBooked /\ OneOpenTask
  BY DEF Init, UsedMeansBooked, OneOpenTask, OpenTasks
<1> QED
  BY <1>1, <1>2, <1>3 DEF IInv

-----------------------------------------------------------------------------
(* Steps that leave the taps and their rows alone: reminders, links, and   *)
(* the change of isActive.                                                 *)
LEMMA TapsUntouched ==
  ASSUME IInv, TypeOK',
         UNCHANGED <<used, tasks, closed, token>>,
         \A r \in Taps : pc'[r] = pc[r]
  PROVE  IInv'
<1>1. \A r \in Taps : (Marks(r)' <=> Marks(r)) /\ (Locks(r)' <=> Locks(r))
  BY DEF Marks, Locks
<1>2. \A r : UnitOf(r)' = UnitOf(r)
  BY DEF UnitOf
<1>3. \A e : OpenTasks(e)' = OpenTasks(e)
  BY <1>2 DEF OpenTasks
<1>4. tasks \subseteq Taps
  BY DEF IInv, TypeOK
<1>5. TapsHaveLinks'
  BY <1>1, <1>4 DEF IInv, TapsHaveLinks
<1>6. MarkExcludes'
  BY <1>1 DEF IInv, MarkExcludes
<1>7. LockExcludes'
  BY <1>1, <1>2, <1>3 DEF IInv, LockExcludes
<1>8. UsedMeansBooked'
  BY DEF IInv, UsedMeansBooked
<1>9. OneOpenTask'
  BY <1>3 DEF IInv, OneOpenTask
<1> QED
  BY <1>5, <1>6, <1>7, <1>8, <1>9 DEF IInv

(* A tap that is refused, ends by a fault or goes on without the lock of a *)
(* link: it can only give locks back.                                      *)
LEMMA TapLetsGo ==
  ASSUME IInv, TypeOK', NEW r \in Taps, pc[r] # "ended",
         UNCHANGED <<used, tasks, closed>>,
         \A s \in Taps \ {r} : pc'[s] = pc[s] /\ token'[s] = token[s],
         pc'[r] \in {"new", "resolved", "ended"},
         pc'[r] = "resolved" => token'[r] \in Makers
  PROVE  IInv'
<1>1. r \notin tasks /\ tasks \subseteq Taps
  BY DEF IInv, TypeOK, TapsHaveLinks
<1>2. \A s \in Taps \ {r} : /\ Marks(s)' <=> Marks(s)
                            /\ Locks(s)' <=> Locks(s)
                            /\ UnitOf(s)' = UnitOf(s)
  BY DEF Marks, Locks, UnitOf
<1>3. ~Marks(r)' /\ ~Locks(r)'
  BY DEF Marks, Locks
<1>4. \A e : OpenTasks(e)' = OpenTasks(e)
  BY <1>1, <1>2 DEF OpenTasks
<1>5. TapsHaveLinks'
  BY <1>1, <1>2, <1>3 DEF IInv, TapsHaveLinks
<1>6. MarkExcludes'
  BY <1>2, <1>3 DEF IInv, MarkExcludes
<1>7. LockExcludes'
  BY <1>2, <1>3, <1>4 DEF IInv, LockExcludes, Locks
<1>8. UsedMeansBooked'
  BY <1>1 DEF IInv, UsedMeansBooked
<1>9. OneOpenTask'
  BY <1>4 DEF IInv, OneOpenTask
<1> QED
  BY <1>5, <1>6, <1>7, <1>8, <1>9 DEF IInv

-----------------------------------------------------------------------------
(* The actions, one after the other. *)

LEMMA TypeStep == TypeOK /\ TapsHaveLinks /\ [Next]_vars => TypeOK'
<1> SUFFICES ASSUME TypeOK, TapsHaveLinks, [Next]_vars PROVE TypeOK'
  OBVIOUS
<1> USE BookingAssumption
<1> USE DEF Goto, End, Requests, rowVars
<1>1. ASSUME NEW e \in Units, SetActive(e) PROVE TypeOK'
  BY <1>1 DEF SetActive, TypeOK, LinkTypeOK, linkVars
<1>2. ASSUME NEW t \in Taps, CloseTask(t) PROVE TypeOK'
  BY <1>2 DEF CloseTask, TypeOK, LinkTypeOK, linkVars
<1>3. ASSUME NEW m \in Makers, RemindReads(m) PROVE TypeOK'
  BY <1>3 DEF RemindReads, TypeOK, LinkTypeOK, linkVars
<1>4. ASSUME NEW m \in Makers, RemindLinks(m) PROVE TypeOK'
  <2>1. LinkTypeOK'
    BY <1>4, LinkTypes DEF RemindLinks, TypeOK
  <2> QED
    BY <1>4, <2>1 DEF RemindLinks, TypeOK
<1>5. ASSUME NEW m \in Makers, RemindCommits(m) PROVE TypeOK'
  <2>1. LinkTypeOK'
    BY <1>5, LinkTypes DEF RemindCommits, TypeOK
  <2> QED
    BY <1>5, <2>1 DEF RemindCommits, TypeOK
<1>6. ASSUME NEW m \in Makers, LinkExpires(m) PROVE TypeOK'
  <2>1. LinkTypeOK'
    BY <1>6, LinkTypes DEF LinkExpires, TypeOK
  <2> QED
    BY <1>6, <2>1 DEF LinkExpires, TypeOK
<1>7. ASSUME NEW r \in Taps, BookResolves(r) PROVE TypeOK'
  BY <1>7 DEF BookResolves, TypeOK, LinkTypeOK, linkVars
<1>8. ASSUME NEW r \in Taps, BookMarks(r) PROVE TypeOK'
  BY <1>8 DEF BookMarks, TypeOK, LinkTypeOK, linkVars
<1>9. ASSUME NEW r \in Taps, BookLocks(r) PROVE TypeOK'
  BY <1>9 DEF BookLocks, TypeOK, LinkTypeOK, linkVars
<1>10. ASSUME NEW r \in Taps, BookChecks(r) PROVE TypeOK'
  BY <1>10 DEF BookChecks, TypeOK, LinkTypeOK, linkVars
<1>11. ASSUME NEW r \in Taps, BookCommits(r) PROVE TypeOK'
  <2>1. token[r] \in Makers
    BY <1>11 DEF BookCommits, TapsHaveLinks, Marks
  <2> QED
    BY <1>11, <2>1 DEF BookCommits, TypeOK, LinkTypeOK, linkVars
<1>12. ASSUME NEW r \in Requests, Abort(r) PROVE TypeOK'
  <2>1. LinkTypeOK'
    <3>1. CASE r \in Makers /\ Withdraw(r)
      BY <3>1, LinkTypes DEF TypeOK
    <3>2. CASE UNCHANGED linkVars
      BY <3>2 DEF TypeOK, LinkTypeOK, linkVars
    <3> QED
      BY <1>12, <3>1, <3>2 DEF Abort
  <2> QED
    BY <1>12, <2>1 DEF Abort, TypeOK
<1>13. CASE UNCHANGED vars
  BY <1>13 DEF vars, TypeOK, LinkTypeOK, linkVars
<1> QED
  BY <1>1, <1>2, <1>3, <1>4, <1>5, <1>6, <1>7, <1>8, <1>9, <1>10, <1>11, <1>12, <1>13
     DEF Next, RemindStep, BookStep

(* A booking that marks, locks and finds no open task goes on: what it     *)
(* gains is free, by the guard of the lock.                                *)
LEMMA TapGains ==
  ASSUME IInv, TypeOK', NEW r \in Taps, pc[r] \in {"resolved", "marked", "locked"},
         UNCHANGED <<used, tasks, closed, token>>,
         \A s \in Taps \ {r} : pc'[s] = pc[s],
         \/ pc[r] = "resolved" /\ pc'[r] = "marked" /\ token[r] \notin used
            /\ Marking(token[r]) = {}
         \/ pc[r] = "marked" /\ pc'[r] = "locked" /\ Locking(UnitOf(r)) = {}
         \/ pc[r] = "locked" /\ pc'[r] = "creating" /\ OpenTasks(UnitOf(r)) = {}
  PROVE  IInv'
<1>1. r \notin tasks /\ tasks \subseteq Taps
  BY DEF IInv, TypeOK, TapsHaveLinks
<1>2. \A s : UnitOf(s)' = UnitOf(s)
  BY DEF UnitOf
<1>3. \A e : OpenTasks(e)' = OpenTasks(e)
  BY <1>2 DEF OpenTasks
<1>4. TapsHaveLinks'
  BY <1>1 DEF IInv, TapsHaveLinks, Marks
<1>5. MarkExcludes'
  BY DEF IInv, MarkExcludes, Marks, Marking
<1>6. LockExcludes'
  BY <1>2, <1>3 DEF IInv, LockExcludes, Locks, Locking
<1>7. UsedMeansBooked'
  BY DEF IInv, UsedMeansBooked
<1>8. OneOpenTask'
  BY <1>3 DEF IInv, OneOpenTask
<1> QED
  BY <1>4, <1>5, <1>6, <1>7, <1>8 DEF IInv

(* The close of a task opens nothing. *)
LEMMA CloseIsSafe ==
  ASSUME IInv, TypeOK', NEW t \in Taps, CloseTask(t)
  PROVE  IInv'
<1>1. UNCHANGED <<used, tasks, pc, token>> /\ closed' = closed \cup {t}
  BY DEF CloseTask
<1>2. \A s \in Taps : (Marks(s)' <=> Marks(s)) /\ (Locks(s)' <=> Locks(s))
  BY <1>1 DEF Marks, Locks
<1>3. \A s : UnitOf(s)' = UnitOf(s)
  BY <1>1 DEF UnitOf
<1>4. \A e : OpenTasks(e)' \subseteq OpenTasks(e)
  BY <1>1, <1>3 DEF OpenTasks
<1>5. TapsHaveLinks' /\ MarkExcludes' /\ UsedMeansBooked'
  BY <1>1, <1>2 DEF IInv, TypeOK, TapsHaveLinks, MarkExcludes, UsedMeansBooked
<1>6. LockExcludes'
  BY <1>1, <1>2, <1>3, <1>4 DEF IInv, LockExcludes
<1>7. OneOpenTask'
  BY <1>4 DEF IInv, OneOpenTask
<1> QED
  BY <1>5, <1>6, <1>7 DEF IInv

(* The booking that commits holds both locks, so that its link is unused   *)
(* and its unit has no open task.                                          *)
LEMMA CommitIsSafe ==
  ASSUME IInv, TypeOK', NEW r \in Taps, BookCommits(r)
  PROVE  IInv'
<1>1. /\ pc[r] = "creating" /\ pc' = [pc EXCEPT ![r] = "ended"]
      /\ used' = used \cup {token[r]} /\ tasks' = tasks \cup {r}
      /\ UNCHANGED <<active, closed, token>>
  BY DEF BookCommits, Goto, End
<1>2. /\ Marks(r) /\ Locks(r) /\ r \notin tasks /\ tasks \subseteq Taps
      /\ token[r] \in Makers /\ token[r] \notin used
      /\ OpenTasks(UnitOf(r)) = {}
  BY <1>1 DEF IInv, TypeOK, TapsHaveLinks, MarkExcludes, LockExcludes, Marks, Locks
<1>3. /\ pc'[r] = "ended" /\ ~Marks(r)' /\ ~Locks(r)'
      /\ \A s \in Taps \ {r} : pc'[s] = pc[s] /\ (Marks(s)' <=> Marks(s)) /\ (Locks(s)' <=> Locks(s))
  BY <1>1 DEF Marks, Locks, IInv, TypeOK, Requests
<1>4. \A s : UnitOf(s)' = UnitOf(s)
  BY <1>1 DEF UnitOf
<1>5. \A e : OpenTasks(e)' \subseteq OpenTasks(e) \cup {r}
  BY <1>1, <1>4 DEF OpenTasks
<1>6. \A e : e # UnitOf(r) => OpenTasks(e)' \subseteq OpenTasks(e)
  BY <1>1, <1>4 DEF OpenTasks
<1>7. TapsHaveLinks'
  BY <1>1, <1>2, <1>3 DEF IInv, TapsHaveLinks
<1>8. MarkExcludes'
  <2> SUFFICES ASSUME NEW s \in Taps, Marks(s)'
               PROVE  /\ token[s] \notin used'
                      /\ \A u \in Taps : Marks(u)' /\ token[u] = token[s] => u = s
    BY <1>1 DEF MarkExcludes
  <2>1. s # r /\ Marks(s)
    BY <1>3
  <2>2. token[s] # token[r]
    BY <1>2, <2>1 DEF IInv, MarkExcludes
  <2> QED
    BY <1>1, <1>3, <2>1, <2>2 DEF IInv, MarkExcludes
<1>9. LockExcludes'
  <2> SUFFICES ASSUME NEW s \in Taps, Locks(s)'
               PROVE  /\ \A u \in Taps : Locks(u)' /\ UnitOf(u) = UnitOf(s) => u = s
                      /\ pc'[s] = "creating" => OpenTasks(UnitOf(s))' = {}
    BY <1>4 DEF LockExcludes, Locks
  <2>1. s # r /\ Locks(s) /\ pc'[s] = pc[s]
    BY <1>3
  <2>2. UnitOf(s) # UnitOf(r)
    BY <1>2, <2>1 DEF IInv, LockExcludes
  <2>3. OpenTasks(UnitOf(s))' \subseteq OpenTasks(UnitOf(s))
    BY <1>4, <1>6, <2>2
  <2> QED
    BY <1>3, <2>1, <2>3 DEF IInv, LockExcludes
<1>10. UsedMeansBooked'
  BY <1>1, <1>2 DEF IInv, UsedMeansBooked
<1>11. OneOpenTask'
  BY <1>2, <1>5, <1>6 DEF IInv, OneOpenTask
<1> QED
  BY <1>7, <1>8, <1>9, <1>10, <1>11 DEF IInv

LEMMA NextKeepsIt == IInv /\ [Next]_vars => IInv'
<1> SUFFICES ASSUME IInv, [Next]_vars PROVE IInv'
  OBVIOUS
<1> USE BookingAssumption
<1>0. TypeOK'
  BY TypeStep DEF IInv
<1>p. pc \in [Requests -> {"new", "reminding", "resolved", "marked", "locked", "creating", "ended"}]
  BY DEF IInv, TypeOK
<1>t. token \in [Taps -> Makers \cup {NoLink}]
  BY DEF IInv, TypeOK
<1>1. ASSUME NEW e \in Units, SetActive(e) PROVE IInv'
  BY <1>0, <1>1, TapsUntouched DEF SetActive
<1>2. ASSUME NEW t \in Taps, CloseTask(t) PROVE IInv'
  BY <1>0, <1>2, CloseIsSafe
<1>3. ASSUME NEW m \in Makers, RemindStep(m) \/ LinkExpires(m) PROVE IInv'
  <2>1. UNCHANGED <<used, tasks, closed, token>>
    BY <1>3 DEF RemindStep, RemindReads, RemindLinks, RemindCommits, LinkExpires, rowVars
  <2>2. \A r \in Taps : pc'[r] = pc[r]
    BY <1>3, <1>p DEF RemindStep, RemindReads, RemindLinks, RemindCommits, LinkExpires,
                      Goto, End, Requests
  <2> QED
    BY <1>0, <2>1, <2>2, TapsUntouched
<1>4. ASSUME NEW r \in Taps, BookResolves(r) PROVE IInv'
  <2>1. PICK m \in Makers : /\ token' = [token EXCEPT ![r] = m]
                            /\ pc'[r] \in {"resolved", "ended"}
    BY <1>4, <1>p DEF BookResolves, Goto, End, Requests
  <2>2. /\ UNCHANGED <<used, tasks, closed>> /\ pc[r] # "ended"
        /\ \A s \in Taps \ {r} : pc'[s] = pc[s]
    BY <1>4, <1>p DEF BookResolves, Goto, End, Requests, rowVars
  <2>3. \A s \in Taps \ {r} : token'[s] = token[s]
    BY <1>t, <2>1
  <2>4. token'[r] \in Makers
    BY <1>t, <2>1
  <2> QED
    BY <1>0, <2>1, <2>2, <2>3, <2>4, TapLetsGo
<1>5. ASSUME NEW r \in Taps, BookMarks(r) \/ BookLocks(r) \/ BookChecks(r) PROVE IInv'
  <2>1. /\ pc[r] \in {"resolved", "marked", "locked"}
        /\ UNCHANGED <<used, tasks, closed, token>>
        /\ \A s \in Taps \ {r} : pc'[s] = pc[s]
    BY <1>5, <1>p DEF BookMarks, BookLocks, BookChecks, Goto, End, Requests, rowVars
  <2>2. \/ pc'[r] = "ended"
        \/ pc[r] = "resolved" /\ pc'[r] = "marked" /\ token[r] \notin used
           /\ Marking(token[r]) = {}
        \/ pc[r] = "marked" /\ pc'[r] = "locked" /\ Locking(UnitOf(r)) = {}
        \/ pc[r] = "locked" /\ pc'[r] = "creating" /\ OpenTasks(UnitOf(r)) = {}
    BY <1>5, <1>p DEF BookMarks, BookLocks, BookChecks, LinkRowFree, UnitRowFree,
                      Goto, End, Requests
  <2>3. CASE pc'[r] = "ended"
    BY <1>0, <2>1, <2>3, TapLetsGo
  <2>4. CASE pc'[r] # "ended"
    BY <1>0, <2>1, <2>2, <2>4, TapGains
  <2> QED
    BY <2>3, <2>4
<1>6. ASSUME NEW r \in Taps, BookCommits(r) PROVE IInv'
  BY <1>0, <1>6, CommitIsSafe
<1>7. ASSUME NEW r \in Requests, Abort(r) PROVE IInv'
  <2>1. /\ UNCHANGED <<used, tasks, closed, token>> /\ pc[r] # "ended"
        /\ pc' = [pc EXCEPT ![r] = "ended"]
    BY <1>7 DEF Abort, Goto, End, rowVars
  <2>2. CASE r \in Makers
    BY <1>0, <1>p, <2>1, <2>2, TapsUntouched DEF Requests
  <2>3. CASE r \in Taps
    BY <1>0, <1>p, <2>1, <2>3, TapLetsGo DEF Requests
  <2> QED
    BY <2>2, <2>3 DEF Requests
<1>8. CASE UNCHANGED vars
  BY <1>0, <1>8, TapsUntouched DEF vars, rowVars
<1> QED
  BY <1>1, <1>2, <1>3, <1>4, <1>5, <1>6, <1>7, <1>8 DEF Next, BookStep

-----------------------------------------------------------------------------
LEMMA Invariance == Spec => []IInv
BY InitIsGood, NextKeepsIt, PTL DEF Spec

(* The tables, the requests and their answers keep their types. *)
THEOREM TypesHold == Spec => []TypeOK
<1>1. IInv => TypeOK
  BY DEF IInv
<1> QED
  BY <1>1, Invariance, PTL

(* A unit never has two open tasks: the partial check under the row lock   *)
(* of book is enough, however many bookings race through however many      *)
(* links.                                                                  *)
THEOREM NeverTwoOpenTasks == Spec => []OneOpenTask
<1>1. IInv => OneOpenTask
  BY DEF IInv
<1> QED
  BY <1>1, Invariance, PTL

(* A link is used up by exactly the booking that succeeded through it.     *)
THEOREM LinkBooksOnce == Spec => []UsedMeansBooked
<1>1. IInv => UsedMeansBooked
  BY DEF IInv
<1> QED
  BY <1>1, Invariance, PTL

(* A link is used up by the one booking that succeeded through it, for any *)
(* number of units, reminders and bookings.                                *)
THEOREM LinksSound == Spec => []LinksAreSound
  BY TypesHold, LinkBooksOnce, PTL DEF LinksAreSound

(* A unit has one open task at most and a link books once.                 *)
THEOREM BookingsSound == Spec => []BookingsAreSound
  BY NeverTwoOpenTasks, LinksSound, PTL DEF BookingsAreSound

-----------------------------------------------------------------------------
(* The pages in front of the server.  What a page tells the customer is    *)
(* about rows that it read, or that another customer's request wrote, some *)
(* time ago: it stays true because what it says of them is never undone.   *)

(* A task was created for a visit to e.                                    *)
Visited(e) == \E t \in tasks : UnitOf(t) = e

(* A request that has no link yet has done nothing.  One that was answered *)
(* "conflict" was refused because of a task of its unit, and one whose day *)
(* was out of range named a day that had come.                             *)
AnsweredTruly(r) ==
  /\ token[r] = NoLink => pc[r] = "new" /\ dates[r] = {}
  /\ pc[r] = "new" => reply[r] = "none"
  /\ dates[r] \subseteq 1..MaxDate(today)
  /\ reply[r] = "ok" => r \in tasks
  /\ reply[r] = "Conflict" => Visited(UnitOf(r))
  /\ reply[r] = "BadRequest" => \E d \in dates[r] : d <= today

TapsAnsweredTruly == \A r \in Taps : AnsweredTruly(r)

(* What page p has read or heard is so.                                    *)
PageOK(p) ==
  LET q == page[p] IN
  /\ q.link = NoLink => q.fetch = "none" /\ q.data = "none" /\ q.mutation = "idle"
  /\ q.read <= today /\ q.windows \subseteq 1..MaxDate(today)
  /\ q.fetch = "used" \/ q.data = "booked" \/ q.mutation = "Conflict" => Visited(SubjectOf[q.link])
  /\ q.mutation # "idle" => q.tap \in Taps /\ token[q.tap] = q.link /\ dates[q.tap] # {}
  /\ q.mutation = "ok" => q.tap \in tasks
  /\ q.mutation = "BadRequest" => \E d \in dates[q.tap] : d <= today

FormsOK == today \in 0..MaxDay /\ dates \in [Taps -> SUBSET Days]
PagesOK == page \in [Pages -> Page] /\ \A p \in Pages : PageOK(p)

PagesInv == IInv /\ FormsOK /\ TapsAnsweredTruly /\ PagesOK

(* What never goes back: tasks and their links, the links and days of the  *)
(* requests that were sent, and the date.                                  *)
Onwards ==
  /\ tasks \subseteq tasks' /\ today <= today'
  /\ \A r \in Taps : token[r] # NoLink => token'[r] = token[r] /\ dates'[r] = dates[r]

LEMMA PagesStart == Init /\ PagesInit => PagesInv
<1> SUFFICES ASSUME Init, PagesInit PROVE PagesInv
  OBVIOUS
<1> USE BookingPagesAssumption
<1>1. IInv
  BY InitIsGood
<1>2. FormsOK
  BY DEF PagesInit, FormsOK
<1>3. TapsAnsweredTruly
  BY DEF Init, PagesInit, TapsAnsweredTruly, AnsweredTruly, Requests
<1>4. page \in [Pages -> Page]
  BY DEF PagesInit, Page
<1>5. \A p \in Pages : PageOK(p)
  BY DEF PagesInit, PageOK
<1> QED
  BY <1>1, <1>2, <1>3, <1>4, <1>5 DEF PagesInv, PagesOK

(* A visit stays a visit. *)
LEMMA VisitsStay ==
  ASSUME IInv, Onwards, NEW e
  PROVE  Visited(e) => Visited(e)'
BY BookingAssumption DEF IInv, TypeOK, TapsHaveLinks, Onwards, Visited, UnitOf

(* A request that this step is not about. *)
LEMMA TapWaits ==
  ASSUME IInv, FormsOK, FormsOK', Onwards, NEW r \in Taps, AnsweredTruly(r),
         pc'[r] = pc[r], reply'[r] = reply[r], token'[r] = token[r], dates'[r] = dates[r]
  PROVE  AnsweredTruly(r)'
<1> USE BookingPagesAssumption
<1>1. today \in Int /\ today' \in Int /\ today <= today'
  BY DEF FormsOK, Onwards
<1>2. UnitOf(r)' = UnitOf(r) /\ (Visited(UnitOf(r)) => Visited(UnitOf(r))')
  <2>1. UnitOf(r)' = UnitOf(r)
    BY DEF UnitOf
  <2>2. PICK e : e = UnitOf(r)
    OBVIOUS
  <2>3. Visited(e) => Visited(e)'
    BY VisitsStay
  <2> QED
    BY <2>1, <2>2, <2>3 DEF Visited
<1>3. dates'[r] \subseteq 1..MaxDate(today')
  BY <1>1 DEF AnsweredTruly, MaxDate
<1>4. dates[r] \subseteq Int
  BY DEF FormsOK, Days
<1>5. reply[r] = "BadRequest" => \E d \in dates'[r] : d <= today'
  BY <1>1, <1>4 DEF AnsweredTruly
<1>6. reply[r] = "ok" => r \in tasks'
  BY DEF AnsweredTruly, Onwards
<1> QED
  BY <1>2, <1>3, <1>5, <1>6 DEF AnsweredTruly, MaxDate

(* A page that this step is not about. *)
LEMMA PageWaits ==
  ASSUME PagesInv, FormsOK', Onwards, NEW p \in Pages, page'[p] = page[p]
  PROVE  PageOK(p)'
<1> DEFINE q == page[p]
<1> USE BookingPagesAssumption, BookingAssumption
<1>0. q \in Page /\ PageOK(p) /\ IInv /\ page'[p] = q
  BY DEF PagesInv, PagesOK
<1>1. today \in Int /\ today' \in Int /\ today <= today' /\ q.read \in Int
  BY <1>0 DEF PagesInv, FormsOK, Onwards, Page
<1>2. Visited(SubjectOf[q.link]) => Visited(SubjectOf[page[p].link])'
  <2>1. PICK e : e = SubjectOf[q.link]
    OBVIOUS
  <2>2. Visited(e) => Visited(e)'
    BY <1>0, VisitsStay
  <2> QED
    BY <2>1, <2>2, <1>0 DEF Visited
<1>3. q.mutation # "idle" =>
        /\ q.tap \in Taps /\ token'[q.tap] = q.link /\ dates'[q.tap] # {}
        /\ dates'[q.tap] = dates[q.tap] /\ dates[q.tap] \subseteq Int
  <2> SUFFICES ASSUME q.mutation # "idle"
               PROVE  /\ q.tap \in Taps /\ token'[q.tap] = q.link /\ dates'[q.tap] # {}
                      /\ dates'[q.tap] = dates[q.tap] /\ dates[q.tap] \subseteq Int
    OBVIOUS
  <2>1. q.link # NoLink /\ q.tap \in Taps /\ token[q.tap] = q.link /\ dates[q.tap] # {}
    BY <1>0 DEF PageOK
  <2> QED
    BY <2>1 DEF Onwards, PagesInv, FormsOK, Days
<1>4. q.read <= today' /\ q.windows \subseteq 1..MaxDate(today')
  BY <1>0, <1>1 DEF PageOK, MaxDate
<1>5. q.mutation = "ok" => q.tap \in tasks'
  BY <1>0 DEF PageOK, Onwards
<1>6. q.mutation = "BadRequest" => \E d \in dates'[q.tap] : d <= today'
  <2> SUFFICES ASSUME q.mutation = "BadRequest" PROVE \E d \in dates'[q.tap] : d <= today'
    OBVIOUS
  <2>1. PICK d \in dates[q.tap] : d <= today
    BY <1>0 DEF PageOK
  <2>2. d \in dates'[q.tap] /\ d \in Int
    BY <1>3, <2>1
  <2> QED
    BY <1>1, <2>1, <2>2
<1>7. q.link = NoLink => q.fetch = "none" /\ q.data = "none" /\ q.mutation = "idle"
  BY <1>0 DEF PageOK
<1>8. q.fetch = "used" \/ q.data = "booked" \/ q.mutation = "Conflict"
        => Visited(SubjectOf[page[p].link])'
  BY <1>0, <1>2 DEF PageOK
<1> QED
  BY <1>0, <1>3, <1>4, <1>5, <1>6, <1>7, <1>8 DEF PageOK, MaxDate

-----------------------------------------------------------------------------
(* The server's side: no step of it touches a page. *)

(* A step of the requests R, one or none, keeps what the pages know. *)
LEMMA ServerStep ==
  ASSUME PagesInv, IInv', UNCHANGED pageVars, tasks \subseteq tasks',
         NEW R \in SUBSET Taps,
         \A s \in Taps \ R : pc'[s] = pc[s] /\ reply'[s] = reply[s] /\ token'[s] = token[s],
         \A r \in R : token[r] # NoLink => token'[r] = token[r],
         \A r \in R : AnsweredTruly(r)'
  PROVE  PagesInv'
<1> USE BookingPagesAssumption
<1>1. FormsOK /\ FormsOK' /\ IInv
  BY DEF PagesInv, FormsOK, pageVars
<1>2. Onwards
  BY <1>1 DEF Onwards, pageVars, FormsOK
<1>3. ASSUME NEW s \in Taps PROVE AnsweredTruly(s)'
  <2>1. CASE s \in R
    BY <2>1
  <2>2. CASE s \notin R
    <3>1. AnsweredTruly(s)
      BY DEF PagesInv, TapsAnsweredTruly
    <3> QED
      BY <1>1, <1>2, <2>2, <3>1, TapWaits DEF pageVars
  <2> QED
    BY <2>1, <2>2
<1>4. ASSUME NEW p \in Pages PROVE PageOK(p)'
  BY <1>1, <1>2, PageWaits DEF pageVars
<1>5. (page \in [Pages -> Page])'
  BY DEF PagesInv, PagesOK, pageVars
<1> QED
  BY <1>1, <1>3, <1>4, <1>5 DEF PagesInv, TapsAnsweredTruly, PagesOK

(* The staff's steps and the reminders'. *)
LEMMA StaffStep ==
  ASSUME PagesInv, UNCHANGED pageVars,
         \/ \E e \in active : SetActive(e)
         \/ \E t \in Taps : CloseTask(t)
         \/ \E m \in Makers : RemindStep(m)
  PROVE  PagesInv'
<1> USE BookingAssumption
<1>0. IInv /\ active \subseteq Units
      /\ pc \in [Requests -> {"new", "reminding", "resolved", "marked", "locked", "creating", "ended"}]
      /\ reply \in [Requests -> {"none", "ok", "NotFound", "Conflict", "BadRequest", "Error"}]
  BY DEF PagesInv, IInv, TypeOK
<1>1. [Next]_vars
  BY <1>0 DEF Next
<1>2. IInv'
  BY <1>0, <1>1, NextKeepsIt
<1>3. tasks' = tasks /\ token' = token
  BY DEF SetActive, CloseTask, RemindStep, RemindReads, RemindLinks, RemindCommits, rowVars
<1>4. \A s \in Taps : pc'[s] = pc[s] /\ reply'[s] = reply[s]
  BY <1>0 DEF SetActive, CloseTask, RemindStep, RemindReads, RemindLinks, RemindCommits,
              Goto, End, Requests
<1> QED
  BY <1>2, <1>3, <1>4, ServerStep

(* A request that arrives follows the link it came with, or one that a     *)
(* customer has got and that nothing was asked through.                    *)
LEMMA ArriveStep ==
  ASSUME PagesInv, UNCHANGED pageVars, NEW r \in Taps, BookResolves(r),
         token[r] = NoLink \/ token' = token
  PROVE  PagesInv'
<1> USE BookingAssumption
<1>0. IInv /\ AnsweredTruly(r)
      /\ pc \in [Requests -> {"new", "reminding", "resolved", "marked", "locked", "creating", "ended"}]
      /\ reply \in [Requests -> {"none", "ok", "NotFound", "Conflict", "BadRequest", "Error"}]
      /\ token \in [Taps -> Makers \cup {NoLink}]
  BY DEF PagesInv, IInv, TypeOK, TapsAnsweredTruly
<1>1. [Next]_vars
  BY DEF Next, BookStep
<1>2. IInv'
  BY <1>0, <1>1, NextKeepsIt
<1>3. PICK m \in Makers :
        /\ token' = [token EXCEPT ![r] = m]
        /\ \/ Goto(r, "resolved") /\ UNCHANGED reply
           \/ End(r, "NotFound")
  BY DEF BookResolves
<1>4. /\ pc[r] = "new" /\ tasks' = tasks
      /\ pc'[r] \in {"resolved", "ended"} /\ reply'[r] \in {reply[r], "NotFound"}
      /\ token'[r] = m /\ m # NoLink
  BY <1>0, <1>3 DEF BookResolves, Goto, End, Requests, rowVars
<1>5. \A s \in Taps \ {r} : pc'[s] = pc[s] /\ reply'[s] = reply[s] /\ token'[s] = token[s]
  BY <1>0, <1>3 DEF Goto, End, Requests
<1>6. dates' = dates /\ today' = today
  BY DEF pageVars
<1>7. AnsweredTruly(r)'
  BY <1>0, <1>4, <1>6 DEF AnsweredTruly
<1>8. token[r] # NoLink => token'[r] = token[r]
  OBVIOUS
<1>R. PICK R \in SUBSET Taps : R = {r}
  OBVIOUS
<1>S. /\ \A s \in Taps \ R : pc'[s] = pc[s] /\ reply'[s] = reply[s] /\ token'[s] = token[s]
     /\ \A s \in R : token[s] # NoLink => token'[s] = token[s]
  BY <1>R, <1>5, <1>8
<1>T. \A s \in R : AnsweredTruly(s)'
  BY <1>R, <1>7
<1> QED
  BY <1>2, <1>4, <1>S, <1>T, ServerStep

(* A request that has resolved its link goes on, is refused, succeeds or   *)
(* fails.  "Conflict" means a link that was used up, hence by a task, or   *)
(* an open task of the unit.                                               *)
LEMMA BookingStep ==
  ASSUME PagesInv, UNCHANGED pageVars, NEW r \in Taps,
         \/ BookMarks(r) \/ BookLocks(r) \/ BookChecks(r) \/ BookCommits(r)
         \/ pc[r] = "creating" /\ Abort(r)
  PROVE  PagesInv'
<1> USE BookingAssumption
<1>0. IInv /\ AnsweredTruly(r) /\ tasks \subseteq Taps
      /\ pc \in [Requests -> {"new", "reminding", "resolved", "marked", "locked", "creating", "ended"}]
      /\ reply \in [Requests -> {"none", "ok", "NotFound", "Conflict", "BadRequest", "Error"}]
  BY DEF PagesInv, IInv, TypeOK, TapsAnsweredTruly
<1>1. [Next]_vars
  BY DEF Next, BookStep, Requests
<1>2. IInv'
  BY <1>0, <1>1, NextKeepsIt
<1>3. pc[r] # "new" /\ token' = token
  BY DEF BookMarks, BookLocks, BookChecks, BookCommits, Abort
<1>4. tasks' \in {tasks, tasks \cup {r}}
  BY DEF BookMarks, BookLocks, BookChecks, BookCommits, Abort, rowVars
<1>5. /\ pc'[r] # "new"
      /\ \A s \in Taps \ {r} : pc'[s] = pc[s] /\ reply'[s] = reply[s]
  BY <1>0 DEF BookMarks, BookLocks, BookChecks, BookCommits, Abort, Goto, End, Requests
<1>6. \/ reply'[r] \in {reply[r], "NotFound", "Error"}
      \/ reply'[r] = "ok" /\ r \in tasks'
      \/ reply'[r] = "Conflict" /\ (token[r] \in used \/ OpenTasks(UnitOf(r)) # {})
  BY <1>0 DEF BookMarks, BookLocks, BookChecks, BookCommits, Abort, Goto, End, Requests
<1>7. dates' = dates /\ today' = today
  BY DEF pageVars
<1>8. \A e : Visited(e) => Visited(e)'
  <2> SUFFICES ASSUME NEW e, Visited(e) PROVE Visited(e)'
    OBVIOUS
  <2> QED
    BY <1>3, <1>4 DEF Visited, UnitOf
<1>9. token[r] \in used \/ OpenTasks(UnitOf(r)) # {} => Visited(UnitOf(r))
  BY <1>0 DEF IInv, UsedMeansBooked, Visited, OpenTasks, UnitOf
<1>10. UnitOf(r)' = UnitOf(r)
  BY <1>3 DEF UnitOf
<1>11. reply'[r] = "Conflict" => Visited(UnitOf(r))'
  <2> SUFFICES ASSUME reply'[r] = "Conflict" PROVE Visited(UnitOf(r))'
    OBVIOUS
  <2>1. Visited(UnitOf(r))
    BY <1>0, <1>6, <1>9 DEF AnsweredTruly
  <2> QED
    BY <1>3, <1>4, <2>1 DEF Visited, UnitOf
<1>12. AnsweredTruly(r)'
  BY <1>0, <1>3, <1>4, <1>5, <1>6, <1>7, <1>11 DEF AnsweredTruly
<1>R. PICK R \in SUBSET Taps : R = {r}
  OBVIOUS
<1>S. /\ \A s \in Taps \ R : pc'[s] = pc[s] /\ reply'[s] = reply[s] /\ token'[s] = token[s]
     /\ \A s \in R : token[s] # NoLink => token'[s] = token[s]
  BY <1>R, <1>3, <1>5
<1>T. \A s \in R : AnsweredTruly(s)'
  BY <1>R, <1>12
<1> QED
  BY <1>2, <1>4, <1>S, <1>T, ServerStep

(* A request whose days are out of range: they were in range on the page,  *)
(* so one of them has come.                                                *)
LEMMA LateStep ==
  ASSUME PagesInv, UNCHANGED pageVars, NEW r \in Taps,
         dates[r] # {}, token' = token, ~Allowed(dates[r]), pc[r] = "new",
         End(r, IF Resolves(token[r]) THEN "BadRequest" ELSE "NotFound"),
         UNCHANGED <<rowVars, linkVars>>
  PROVE  PagesInv'
<1> USE BookingAssumption, BookingPagesAssumption
<1>0. IInv /\ AnsweredTruly(r) /\ FormsOK /\ TypeOK
      /\ pc \in [Requests -> {"new", "reminding", "resolved", "marked", "locked", "creating", "ended"}]
      /\ reply \in [Requests -> {"none", "ok", "NotFound", "Conflict", "BadRequest", "Error"}]
  BY DEF PagesInv, IInv, TypeOK, TapsAnsweredTruly
<1>1. /\ pc'[r] = "ended" /\ reply'[r] \in {"BadRequest", "NotFound"}
      /\ pc' = [pc EXCEPT ![r] = "ended"]
      /\ \A s \in Taps \ {r} : pc'[s] = pc[s] /\ reply'[s] = reply[s]
  BY <1>0 DEF Goto, End, Requests
<1>2. TypeOK'
  BY <1>0 DEF TypeOK, LinkTypeOK, linkVars, rowVars, Goto, End, Requests
<1>3. IInv'
  BY <1>0, <1>1, <1>2, TapLetsGo DEF rowVars
<1>4. \E d \in dates[r] : d <= today
  <2>1. today \in Int /\ dates[r] \subseteq 1..today + HowFar
    BY <1>0 DEF FormsOK, AnsweredTruly, MaxDate
  <2> QED
    BY <2>1 DEF Allowed, MinDate, MaxDate
<1>5. token[r] # NoLink
  BY <1>0 DEF AnsweredTruly
<1>6. AnsweredTruly(r)'
  BY <1>0, <1>1, <1>4, <1>5 DEF AnsweredTruly, pageVars
<1>R. PICK R \in SUBSET Taps : R = {r}
  OBVIOUS
<1>S. /\ \A s \in Taps \ R : pc'[s] = pc[s] /\ reply'[s] = reply[s] /\ token'[s] = token[s]
     /\ \A s \in R : token[s] # NoLink => token'[s] = token[s]
  BY <1>R, <1>1
<1>T. \A s \in R : AnsweredTruly(s)'
  BY <1>R, <1>6
<1>U. tasks' = tasks
  BY DEF rowVars
<1> QED
  BY <1>3, <1>S, <1>T, <1>U, ServerStep

LEMMA ServeKeepsIt == PagesInv /\ (Serve \/ \E r \in Taps : TapArrives(r)) => PagesInv'
<1> SUFFICES ASSUME PagesInv, Serve \/ \E r \in Taps : TapArrives(r) PROVE PagesInv'
  OBVIOUS
<1>1. ASSUME NEW r \in Taps, TapArrives(r) PROVE PagesInv'
  <2>1. CASE Allowed(dates[r])
    BY <1>1, <2>1, ArriveStep DEF TapArrives
  <2>2. CASE ~Allowed(dates[r])
    BY <1>1, <2>2, LateStep DEF TapArrives
  <2> QED
    BY <2>1, <2>2
<1>2. ASSUME NEW r \in Taps, NextTap(r), BookResolves(r), UNCHANGED pageVars PROVE PagesInv'
  <2>1. token[r] = NoLink
    BY <1>2, BookingPagesAssumption DEF NextTap
  <2> QED
    BY <1>2, <2>1, ArriveStep
<1> QED
  BY <1>1, <1>2, StaffStep, BookingStep DEF Serve

-----------------------------------------------------------------------------
(* The pages' side. *)

(* A page's step other than the sending of a form.  PageIs(q) is what      *)
(* PageOK says of a page whose record is q.                                *)
PageIs(q) ==
  /\ q.link = NoLink => q.fetch = "none" /\ q.data = "none" /\ q.mutation = "idle"
  /\ q.read <= today /\ q.windows \subseteq 1..MaxDate(today)
  /\ q.fetch = "used" \/ q.data = "booked" \/ q.mutation = "Conflict" => Visited(SubjectOf[q.link])
  /\ q.mutation # "idle" => q.tap \in Taps /\ token[q.tap] = q.link /\ dates[q.tap] # {}
  /\ q.mutation = "ok" => q.tap \in tasks
  /\ q.mutation = "BadRequest" => \E d \in dates[q.tap] : d <= today

LEMMA TurnKeeps ==
  ASSUME PagesInv, UNCHANGED <<vars, today, dates>>, NEW p \in Pages,
         page' = [page EXCEPT ![p] = page'[p]], page'[p] \in Page, PageIs(page'[p])
  PROVE  PagesInv'
<1> USE BookingPagesAssumption
<1>1. IInv'
  BY NextKeepsIt DEF PagesInv
<1>2. FormsOK /\ FormsOK' /\ IInv /\ page \in [Pages -> Page]
  BY DEF PagesInv, PagesOK, FormsOK
<1>3. tasks' = tasks /\ token' = token /\ pc' = pc /\ reply' = reply
  BY DEF vars, rowVars
<1>4. Onwards
  BY <1>2, <1>3 DEF Onwards, FormsOK
<1>5. ASSUME NEW r \in Taps PROVE AnsweredTruly(r)'
  <2>1. AnsweredTruly(r)
    BY DEF PagesInv, TapsAnsweredTruly
  <2> QED
    BY <1>2, <1>3, <1>4, <2>1, TapWaits
<1>6. ASSUME NEW o \in Pages, o # p PROVE PageOK(o)'
  <2>1. page'[o] = page[o]
    BY <1>2, <1>6
  <2> QED
    BY <1>2, <1>4, <2>1, PageWaits
<1>7. PageOK(p)'
  BY <1>3 DEF PageIs, PageOK, Visited, UnitOf, MaxDate
<1>8. page' \in [Pages -> Page]
  BY <1>2
<1> QED
  BY <1>1, <1>2, <1>5, <1>6, <1>7, <1>8 DEF PagesInv, TapsAnsweredTruly, PagesOK

LEMMA PageKeepsIt ==
  ASSUME PagesInv, NEW p \in Pages,
         Fetch(p) \/ FetchFails(p) \/ ViewResolves(p) \/ ViewAnswers(p) \/ Edit(p) \/ Hear(p)
  PROVE  PagesInv'
<1> DEFINE q == page[p]
<1> USE BookingAssumption, BookingPagesAssumption
<1>0. /\ page \in [Pages -> Page] /\ q \in Page /\ PageIs(q)
      /\ IInv /\ FormsOK
  BY DEF PagesInv, PagesOK, PageOK, PageIs
<1>1. ASSUME NEW x, x \in Page, PageIs(x), page' = [page EXCEPT ![p] = x],
             UNCHANGED <<vars, today, dates>>
      PROVE  PagesInv'
  <2>1. page'[p] = x
    BY <1>0, <1>1
  <2> QED
    BY <1>1, <2>1, TurnKeeps
<1>2. ASSUME Fetch(p) PROVE PagesInv'
  <2>1. PICK m \in Makers :
          /\ q.link \in {NoLink, m}
          /\ page' = [page EXCEPT ![p] = [q EXCEPT !.fetches = @ + 1, !.link = m, !.fetch = "asked"]]
    BY <1>2 DEF Fetch, Turn
  <2> DEFINE x == [q EXCEPT !.fetches = @ + 1, !.link = m, !.fetch = "asked"]
  <2>2. x \in Page
    <3>1. q.fetches + 1 \in Nat
      BY <1>0 DEF Page
    <3> QED
      BY <1>0, <3>1 DEF Page
  <2>3. PageIs(x)
    BY <1>0, <2>1 DEF Page, PageIs
  <2>4. UNCHANGED <<vars, today, dates>>
    BY <1>2 DEF Fetch
  <2> QED
    BY <1>1, <2>1, <2>2, <2>3, <2>4
<1>3. ASSUME FetchFails(p) PROVE PagesInv'
  <2> DEFINE x == [q EXCEPT !.fetch = "none", !.error = TRUE]
  <2>1. page' = [page EXCEPT ![p] = x] /\ UNCHANGED <<vars, today, dates>>
    BY <1>3 DEF FetchFails, Turn
  <2>2. x \in Page
    BY <1>0 DEF Page
  <2>3. PageIs(x)
    BY <1>0 DEF Page, PageIs
  <2> QED
    BY <1>1, <2>1, <2>2, <2>3
<1>4. ASSUME ViewResolves(p) PROVE PagesInv'
  <2> DEFINE f == IF q.link \in used THEN "used" ELSE "unused"
             x == [q EXCEPT !.fetch = f]
  <2>1. page' = [page EXCEPT ![p] = x] /\ UNCHANGED <<vars, today, dates>> /\ q.fetch = "asked"
    BY <1>4 DEF ViewResolves, Turn
  <2>2. x \in Page
    BY <1>0 DEF Page
  <2>3. q.link \in used => Visited(SubjectOf[q.link])
    BY <1>0 DEF IInv, UsedMeansBooked, Visited, UnitOf
  <2>4. PageIs(x)
    BY <1>0, <2>1, <2>3 DEF Page, PageIs
  <2> QED
    BY <1>1, <2>1, <2>2, <2>4
<1>5. ASSUME ViewAnswers(p) PROVE PagesInv'
  <2> DEFINE d == IF q.fetch = "used" \/ OpenTasks(SubjectOf[q.link]) # {} THEN "booked" ELSE "form"
             x == [q EXCEPT !.fetch = "none", !.error = FALSE, !.read = today, !.data = d]
  <2>1. page' = [page EXCEPT ![p] = x] /\ UNCHANGED <<vars, today, dates>>
        /\ q.fetch \in {"unused", "used"}
    BY <1>5 DEF ViewAnswers, Turn
  <2>2. x \in Page
    BY <1>0 DEF Page, FormsOK
  <2>3. OpenTasks(SubjectOf[q.link]) # {} => Visited(SubjectOf[q.link])
    BY DEF OpenTasks, Visited
  <2>4. today <= today /\ q.link # NoLink
    BY <1>0, <2>1 DEF PageIs, FormsOK
  <2>5. PageIs(x)
    BY <1>0, <2>1, <2>3, <2>4 DEF Page, PageIs
  <2> QED
    BY <1>1, <2>1, <2>2, <2>5
<1>6. ASSUME Edit(p) PROVE PagesInv'
  <2>1. PICK D \in SUBSET Days :
          /\ page' = [page EXCEPT ![p] = [q EXCEPT !.windows = D]]
          /\ D \subseteq 1..MaxDate(today)
    <3>1. CASE \E d \in MinDate(q.read)..MaxDate(q.read) : Turn(p, [q EXCEPT !.windows = q.windows \cup {d}])
      <4>1. PICK d \in MinDate(q.read)..MaxDate(q.read) : Turn(p, [q EXCEPT !.windows = q.windows \cup {d}])
        BY <3>1
      <4>2. today \in 0..MaxDay /\ q.read \in 0..MaxDay /\ q.read <= today
        BY <1>0 DEF Page, PageIs, FormsOK
      <4>3. d \in Days /\ d \in 1..MaxDate(today)
        BY <4>2 DEF Days, MinDate, MaxDate
      <4>4. q.windows \cup {d} \in SUBSET Days /\ q.windows \cup {d} \subseteq 1..MaxDate(today)
        BY <1>0, <4>3 DEF Page, PageIs
      <4> QED
        BY <4>1, <4>4 DEF Turn
    <3>2. CASE \E d \in q.windows : Turn(p, [q EXCEPT !.windows = q.windows \ {d}])
      <4>1. PICK d \in q.windows : Turn(p, [q EXCEPT !.windows = q.windows \ {d}])
        BY <3>2
      <4>2. q.windows \ {d} \in SUBSET Days /\ q.windows \ {d} \subseteq 1..MaxDate(today)
        BY <1>0 DEF Page, PageIs
      <4> QED
        BY <4>1, <4>2 DEF Turn
    <3> QED
      BY <1>6, <3>1, <3>2 DEF Edit
  <2> DEFINE x == [q EXCEPT !.windows = D]
  <2>2. x \in Page
    BY <1>0 DEF Page
  <2>3. PageIs(x)
    BY <1>0, <2>1 DEF Page, PageIs
  <2>4. UNCHANGED <<vars, today, dates>>
    BY <1>6 DEF Edit
  <2> QED
    BY <1>1, <2>1, <2>2, <2>3, <2>4
<1>7. ASSUME Hear(p) PROVE PagesInv'
  <2>0. q.mutation = "pending" /\ UNCHANGED <<vars, today, dates>>
    BY <1>7 DEF Hear
  <2>1. q.tap \in Taps /\ token[q.tap] = q.link /\ dates[q.tap] # {}
    BY <1>0, <2>0 DEF PageIs
  <2>2. AnsweredTruly(q.tap)
    BY <2>1 DEF PagesInv, TapsAnsweredTruly
  <2>3. PICK a \in {"ok", "Conflict", "BadRequest", "failed"} :
          /\ page' = [page EXCEPT ![p] = [q EXCEPT !.mutation = a]]
          /\ a = "failed" \/ a = reply[q.tap]
    BY <1>7 DEF Hear, Turn
  <2> DEFINE x == [q EXCEPT !.mutation = a]
  <2>4. x \in Page
    BY <1>0 DEF Page
  <2>5. q.link # NoLink
    BY <1>0, <2>0 DEF PageIs
  <2>6. a = "Conflict" => Visited(SubjectOf[q.link])
    BY <2>1, <2>2, <2>3 DEF AnsweredTruly, UnitOf
  <2>7. PageIs(x)
    BY <1>0, <2>1, <2>2, <2>3, <2>5, <2>6 DEF Page, PageIs, AnsweredTruly
  <2> QED
    BY <1>1, <2>0, <2>3, <2>4, <2>7
<1> QED
  BY <1>2, <1>3, <1>4, <1>5, <1>6, <1>7

(* The form that is sent takes a request that nobody has made.             *)
LEMMA SubmitKeepsIt ==
  ASSUME PagesInv, NEW p \in Pages, Submit(p)
  PROVE  PagesInv'
<1> DEFINE q == page[p]
<1> USE BookingAssumption, BookingPagesAssumption
<1>0. /\ page \in [Pages -> Page] /\ q \in Page /\ PageIs(q)
      /\ IInv /\ FormsOK /\ TypeOK
      /\ token \in [Taps -> Makers \cup {NoLink}] /\ dates \in [Taps -> SUBSET Days]
      /\ today \in 0..MaxDay
  BY DEF PagesInv, PagesOK, PageOK, PageIs, IInv, TypeOK, FormsOK
<1>1. PICK r \in Taps :
        /\ NextTap(r)
        /\ dates' = [dates EXCEPT ![r] = q.windows]
        /\ token' = [token EXCEPT ![r] = q.link]
        /\ page' = [page EXCEPT ![p] = [q EXCEPT !.tap = r, !.mutation = "pending"]]
  BY DEF Submit, Turn
<1>2. /\ q.windows # {} /\ Screen(q) = "form"
      /\ UNCHANGED <<rowVars, pc, reply, linkVars, today>>
  BY DEF Submit
<1>3. token[r] = NoLink
  BY <1>1 DEF NextTap
<1>4. AnsweredTruly(r)
  BY DEF PagesInv, TapsAnsweredTruly
<1>5. q.link # NoLink
  <2>1. q.link = NoLink => q.data = "none" /\ q.fetch = "none"
    BY <1>0 DEF PageIs
  <2>2. q.data = "none" /\ q.fetch = "none" => Screen(q) # "form"
    BY DEF Screen
  <2> QED
    BY <1>2, <2>1, <2>2
<1>6. q.link \in Makers /\ q.windows \in SUBSET Days /\ q.windows \subseteq 1..MaxDate(today)
  BY <1>0, <1>5 DEF Page, PageIs
<1>7. /\ token'[r] = q.link /\ dates'[r] = q.windows
      /\ \A s \in Taps \ {r} : token'[s] = token[s] /\ dates'[s] = dates[s]
  BY <1>0, <1>1
<1>8. TypeOK'
  BY <1>0, <1>1, <1>2, <1>6 DEF TypeOK, LinkTypeOK, linkVars, rowVars
<1>9. IInv'
  BY <1>0, <1>2, <1>3, <1>4, <1>7, <1>8, TapLetsGo DEF AnsweredTruly, rowVars
<1>10. FormsOK'
  BY <1>0, <1>1, <1>2, <1>6 DEF FormsOK
<1>11. Onwards
  BY <1>0, <1>2, <1>3, <1>7 DEF Onwards, rowVars
<1>12. ASSUME NEW s \in Taps PROVE AnsweredTruly(s)'
  <2>1. CASE s = r
    BY <1>2, <1>3, <1>4, <1>5, <1>6, <1>7, <2>1 DEF AnsweredTruly, MaxDate
  <2>2. CASE s # r
    <3>1. AnsweredTruly(s)
      BY DEF PagesInv, TapsAnsweredTruly
    <3> QED
      BY <1>0, <1>2, <1>7, <1>10, <1>11, <2>2, <3>1, TapWaits
  <2> QED
    BY <2>1, <2>2
<1>13. ASSUME NEW o \in Pages, o # p PROVE PageOK(o)'
  <2>1. page'[o] = page[o]
    BY <1>0, <1>1, <1>13
  <2> QED
    BY <1>10, <1>11, <2>1, PageWaits
<1>14. page'[p] \in Page /\ page' \in [Pages -> Page]
  <2>1. [q EXCEPT !.tap = r, !.mutation = "pending"] \in Page
    BY <1>0 DEF Page
  <2> QED
    BY <1>0, <1>1, <2>1
<1>15. PageOK(p)'
  <2>1. /\ page'[p].link = q.link /\ page'[p].fetch = q.fetch /\ page'[p].data = q.data
        /\ page'[p].read = q.read /\ page'[p].windows = q.windows
        /\ page'[p].tap = r /\ page'[p].mutation = "pending"
    BY <1>0, <1>1 DEF Page
  <2>2. Visited(SubjectOf[q.link]) => Visited(SubjectOf[page[p].link])'
    <3>1. PICK e : e = SubjectOf[q.link]
      OBVIOUS
    <3>2. Visited(e) => Visited(e)'
      BY <1>0, <1>11, VisitsStay
    <3> QED
      BY <2>1, <3>1, <3>2 DEF Visited
  <2>3. q.fetch = "used" \/ q.data = "booked" => Visited(SubjectOf[page[p].link])'
    BY <1>0, <2>2 DEF PageIs
  <2>4. q.read <= today' /\ q.windows \subseteq 1..MaxDate(today')
    BY <1>0, <1>2 DEF PageIs
  <2> QED
    BY <1>2, <1>5, <1>7, <2>1, <2>3, <2>4 DEF PageOK, MaxDate
<1> QED
  BY <1>9, <1>10, <1>12, <1>13, <1>14, <1>15 DEF PagesInv, TapsAnsweredTruly, PagesOK

(* Midnight comes over requests and pages alike. *)
LEMMA MidnightKeepsIt == PagesInv /\ Midnight => PagesInv'
<1> SUFFICES ASSUME PagesInv, Midnight PROVE PagesInv'
  OBVIOUS
<1> USE BookingPagesAssumption
<1>1. UNCHANGED <<vars, page, dates>> /\ today' = today + 1 /\ today < MaxDay
  BY DEF Midnight
<1>2. IInv'
  BY <1>1, NextKeepsIt DEF PagesInv
<1>3. FormsOK /\ FormsOK' /\ IInv /\ page \in [Pages -> Page]
  BY <1>1 DEF PagesInv, PagesOK, FormsOK
<1>4. pc' = pc /\ reply' = reply /\ token' = token /\ tasks' = tasks
  BY <1>1 DEF vars, rowVars
<1>5. Onwards
  BY <1>1, <1>3, <1>4 DEF Onwards, FormsOK
<1>6. ASSUME NEW r \in Taps PROVE AnsweredTruly(r)'
  <2>1. AnsweredTruly(r)
    BY DEF PagesInv, TapsAnsweredTruly
  <2> QED
    BY <1>1, <1>3, <1>4, <1>5, <2>1, TapWaits
<1>7. ASSUME NEW p \in Pages PROVE PageOK(p)'
  BY <1>1, <1>3, <1>5, PageWaits
<1> QED
  BY <1>1, <1>2, <1>3, <1>6, <1>7 DEF PagesInv, TapsAnsweredTruly, PagesOK

LEMMA PagesNextKeepsIt == PagesInv /\ [PagesNext]_<<vars, pageVars>> => PagesInv'
<1> SUFFICES ASSUME PagesInv, [PagesNext]_<<vars, pageVars>> PROVE PagesInv'
  OBVIOUS
<1>1. CASE UNCHANGED <<vars, pageVars>>
  <2>1. IInv'
    BY <1>1, NextKeepsIt DEF PagesInv
  <2>2. tasks' = tasks /\ pc' = pc /\ reply' = reply /\ token' = token
    BY <1>1 DEF vars, rowVars
  <2>3. PICK R \in SUBSET Taps : R = {}
    OBVIOUS
  <2>4. tasks \subseteq tasks' /\ UNCHANGED pageVars
    BY <1>1, <2>2
  <2>5. /\ \A s \in Taps \ R : pc'[s] = pc[s] /\ reply'[s] = reply[s] /\ token'[s] = token[s]
        /\ \A s \in R : token[s] # NoLink => token'[s] = token[s]
        /\ \A s \in R : AnsweredTruly(s)'
    BY <2>2, <2>3
  <2> QED
    BY <2>1, <2>3, <2>4, <2>5, ServerStep
<1> QED
  BY <1>1, PageKeepsIt, SubmitKeepsIt, MidnightKeepsIt, ServeKeepsIt DEF PagesNext

(* What the page tells the customer is so: "received" is followed by a     *)
(* visit, a day refused is a day that has come, and a visit promised is    *)
(* one that was created, with days in range.                               *)
THEOREM PagesTrue == PagesSpec => []PagesAreTrue
<1>1. PagesInv => PagesAreTrue
  <2> SUFFICES ASSUME PagesInv, NEW p \in Pages
               PROVE  LET q == page[p] IN
                      /\ q \in Page
                      /\ Screen(q) = "received" => \E t \in tasks : UnitOf(t) = SubjectOf[q.link]
                      /\ q.mutation = "BadRequest" => \E d \in dates[q.tap] : d <= today
                      /\ q.mutation = "ok" => q.tap \in tasks /\ dates[q.tap] # {}
                                              /\ dates[q.tap] \subseteq 1..MaxDate(today)
    BY DEF PagesAreTrue
  <2> DEFINE q == page[p]
  <2>1. q \in Page /\ PageOK(p)
    BY DEF PagesInv, PagesOK
  <2>2. q.mutation = "ok" => /\ q.tap \in tasks /\ dates[q.tap] # {} /\ token[q.tap] = q.link
                             /\ dates[q.tap] \subseteq 1..MaxDate(today)
    BY <2>1 DEF PageOK, PagesInv, TapsAnsweredTruly, AnsweredTruly
  <2>3. q.mutation = "ok" \/ q.data = "booked" \/ Conflicts(q) => Visited(SubjectOf[q.link])
    BY <2>1, <2>2 DEF PageOK, Conflicts, Visited, UnitOf
  <2>4. Screen(q) = "received" => q.mutation = "ok" \/ q.data = "booked" \/ Conflicts(q)
    BY DEF Screen
  <2> QED
    BY <2>1, <2>2, <2>3, <2>4 DEF PageOK, Visited
<1> QED
  BY <1>1, PagesStart, PagesNextKeepsIt, PTL DEF PagesSpec
=============================================================================
