------------------------------ MODULE MCQuotes ------------------------------
(* Instances of Quotes and of QuotePages for TLC: what the behaviour is    *)
(* about is chosen at its start.                                           *)
EXTENDS QuotePages

CONSTANTS q1, q2, m1, m2, t1, t2

(* All sends are of one quote; the other only takes a number. *)
MCSubjectOf == [m \in Makers |-> q1]

MCSendings == <<t1, t2>>
MCPresses == <<m1, m2>>

VARIABLE scene

quoteSceneVars == <<vars, pageVars, scene>>

QuotesInit == Init /\ PagesInit /\ scene \in {"requests", "customer", "staff"}

AboutRequests(A) == scene = "requests" /\ A /\ UNCHANGED <<pageVars, scene>>
AboutCustomer(A) == scene = "customer" /\ A /\ UNCHANGED scene
AboutStaff(A) == scene = "staff" /\ A /\ UNCHANGED scene

QuotesNext == AboutRequests(Next) \/ AboutCustomer(CustomerNext) \/ AboutStaff(StaffNext)

QuotesSpec ==
  /\ QuotesInit /\ [][QuotesNext]_quoteSceneVars
  /\ \A m \in Makers : WF_vars(pc[m] # "new" /\ SendStep(m))
  /\ \A r \in Taps : WF_vars(pc[r] # "new" /\ TapStep(r))
  /\ WF_vars(BreakDeadlock)
=============================================================================
