\* Two reminders about one unit and three bookings, every fault.
\* Every request is used once: the end of a behaviour is no error.
SPECIFICATION BookingSpec
CONSTANTS
  e1 = e1
  m1 = m1
  m2 = m2
  t1 = t1
  t2 = t2
  t3 = t3
  Units = {e1}
  Makers = {m1, m2}
  SubjectOf <- MCSubjectOf
  Taps = {t1, t2, t3}
  Faults = {"abort", "lost"}
  NoLink = NoLink
  p1 = p1
  Pages = {p1}
  Sendings <- MCSendings
  HowFar = 1
  MaxWindows = 2
  MaxDay = 1
  MaxFetches = 2
  NoTap = NoTap
INVARIANTS
  BookingsAreSound
  PagesAreTrue
PROPERTIES
  EveryRequestEnds
CHECK_DEADLOCK FALSE
