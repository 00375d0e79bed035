\* Three tasks, two assignments, two closes, every fault.
\* Every request is used once: the end of a behaviour is no error.
SPECIFICATION BoardFairSpec
CONSTANTS
  t1 = t1
  t2 = t2
  t3 = t3
  a1 = a1
  a2 = a2
  c1 = c1
  c2 = c2
  Tasks = {t1, t2, t3}
  Techs <- MCTechs
  Skilled <- MCSkilled
  Score <- MCScore
  Assigns = {a1, a2}
  Closes = {c1, c2}
  MayAbort = TRUE
  Office = Office
  Nobody = Nobody
  NoTask = NoTask
INVARIANTS
  BoardIsSound
PROPERTIES
  ClosedIsFrozen
  TasksSettle
CHECK_DEADLOCK FALSE
