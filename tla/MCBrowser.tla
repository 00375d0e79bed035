------------------------------ MODULE MCBrowser ------------------------------
(* One instance for TLC of Desk, with its own server, and one of Tab: what  *)
(* the behaviour is about is chosen at its start.                           *)
EXTENDS Desk, Tab, TLC

CONSTANTS x, y, ada, ben

MCRequests == Keys \X Bodies \X (1..MaxSends)
MCKeyOf == [r \in Requests |-> r[1]]
MCBody  == [r \in Requests |-> r[2]]

(* Three requests for one key, one of them with another body, and a fourth *)
(* request for another key.                                                *)
MCOthers == {<<1, x, 1>>, <<1, x, 2>>, <<1, y, 1>>, <<2, x, 1>>}

MCFollowed == {GenerateInvoice, AdjustQuantity}

MCMaxTokens == [d \in {"web", "phone"} |-> IF d = "web" THEN 3 ELSE 2]

VARIABLE scene

browserVars == <<vars, deskVars, accountVars, tabVars, scene>>

BrowserInit ==
  /\ DeskInit /\ TabInit
  /\ \/ scene = "dialog" /\ device = "web" /\ mustChange = {}
     \/ scene = "tab" /\ kind = NewTask

InDialog(A) == scene = "dialog" /\ A /\ UNCHANGED <<accountVars, tabVars, scene>>
InTab(A)    == scene = "tab" /\ A /\ UNCHANGED <<vars, deskVars, scene>>

BrowserNext == InDialog(DeskNext) \/ InTab(TabNext)

BrowserSpec ==
  BrowserInit /\ [][BrowserNext]_browserVars /\ WF_browserVars(InDialog(Answers))
=============================================================================
