\* Two staff requests sending one quote, two requests of its customer, every fault.
\* Every request is used once: the end of a behaviour is no error.
SPECIFICATION QuotesSpec
CONSTANTS
  q1 = q1
  q2 = q2
  m1 = m1
  m2 = m2
  t1 = t1
  t2 = t2
  Ids = {q1, q2}
  Makers = {m1, m2}
  SubjectOf <- MCSubjectOf
  Taps = {t1, t2}
  Faults = {"abort", "lost"}
  NoTask = NoTask
  NoLink = NoLink
  Shown = q1
  Sendings <- MCSendings
  Presses <- MCPresses
  MaxReads = 2
  NoTap = NoTap
INVARIANTS
  QuotesAreSound
  QuotePagesAreTrue
PROPERTIES
  EveryRequestEnds
CHECK_DEADLOCK FALSE
