------------------------------ MODULE MCBooking ------------------------------
(* Instances of Booking and of BookingPages for TLC: what the behaviour is *)
(* about is chosen at its start.                                           *)
EXTENDS BookingPages, TLC

CONSTANTS e1, m1, m2, t1, t2, t3, p1

(* All reminders are about one unit: units do not interact. *)
MCSubjectOf == [m \in Makers |-> e1]

MCSendings == <<t1, t2>>

VARIABLE scene

bookingSceneVars == <<vars, pageVars, scene>>

BookingInit == Init /\ PagesInit /\ scene \in {"requests", "pages"}

AboutRequests(A) == scene = "requests" /\ A /\ UNCHANGED <<pageVars, scene>>
AboutPages(A) == scene = "pages" /\ A /\ UNCHANGED scene

BookingSpec ==
  /\ BookingInit /\ [][AboutRequests(Next) \/ AboutPages(PagesNext)]_bookingSceneVars
  /\ \A m \in Makers : WF_vars(pc[m] # "new" /\ RemindStep(m))
  /\ \A r \in Taps : WF_vars(pc[r] # "new" /\ BookStep(r))
=============================================================================
