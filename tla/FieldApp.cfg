SPECIFICATION PhoneSpec
CONSTANTS
  Pages = {p1}
  Departures = {d1}
  MaxTimes = 2
  MaxViews = 1
  NoView = NoView
  Closes = {k1, k2}
  Items = {i1}
  MaxFetches = 2
  NoClose = NoClose
  Office = Office
  Visits <- MCVisits
  Priority <- MCPriority
  Places <- MCPlaces
  Sites <- MCSites
  Learners = {l1, l2}
  DayLength = 2
  MaxStops = 3
  PageSize = 2
  ClosedSize = 1
  Unknown = Unknown
  NoVisit = NoVisit
SYMMETRY MCSymmetry
INVARIANTS
  VisitIsTrue
  DayIsRight
PROPERTIES
  FinishedIsFrozen
  TicksAreKept
CHECK_DEADLOCK FALSE
