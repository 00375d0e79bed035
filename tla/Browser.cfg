\* A dialog of the office or other clients of the API, with crashes, failing statements and late failures;
\* or a tab that two users share. Everything is bounded: the end of a behaviour is no error.
SPECIFICATION BrowserSpec
CONSTANTS
  x = x
  y = y
  ada = ada
  ben = ben
  Keys = {1, 2}
  Bodies = {x, y}
  Requests <- MCRequests
  KeyOf <- MCKeyOf
  Body <- MCBody
  MaxOpenings = 2
  MaxSends = 2
  Followed <- MCFollowed
  Others <- MCOthers
  Faults = {"crash", "db", "store", "late"}
  NoRow = NoRow
  Nothing = Nothing
  Busy = Busy
  Mismatch = Mismatch
  Error = Error
  Users = {ada, ben}
  MaxTokens <- MCMaxTokens
  Nobody = Nobody
INVARIANTS
  DialogsAreSound
  ListIsCurrent
  TabIsOwn
PROPERTIES
  ClaimsEnd
CHECK_DEADLOCK FALSE
