\* Two messages, two uploads and two finalisations of one session.
\* One reload or lost connection, three LLM calls per session, two per message, one document.
\* Every request is made once, so the system comes to rest: no successor is no error.
SPECIFICATION PageSpec
CONSTANTS
  Messages = {m1, m2}
  Uploads = {u1, u2}
  Finals = {f1, f2}
  Facts = {"owner"}
  Required = {"owner"}
  MaxCalls = 3
  MaxTurns = 2
  MaxDocs = 1
  MaxNames = 2
  Others = {}
  NoTenant = NoTenant
  NoRequest = NoRequest
  MaxLosses = 1
INVARIANTS
  BudgetIsKept
  OneTenant
  NothingIsTakenBack
SYMMETRY MCSymmetry
PROPERTIES
  FinalIsFinal
CHECK_DEADLOCK FALSE
