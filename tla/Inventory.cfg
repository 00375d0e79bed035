\* Opposite lock orders, scarce stock, an item created late, failures and deaths.
\* Nothing happens any more once every delivery is used up: not an error.
SPECIFICATION InventorySpec
CONSTANTS
  a = a
  b = b
  t1 = t1
  t2 = t2
  NoSku = NoSku
  NotInteger = NotInteger
  Items = {a, b}
  Tasks = {t1, t2}
  Consumers = {c1, c2}
  Initially = {a}
  StartQty = 3
  ChecklistOf <- MCChecklist
  Threshold = 0
  Deltas <- MCLosses
  MaxQty = 3
  MaxMovements = 3
  MaxDeliveries = 2
  Faulty = TRUE
  NoTask = NoTask
  NoConsumer = NoConsumer
  Rows = {1, 2, 3}
  RowName <- MCRowName
  Matching = {3}
  Levels = {0, 2}
  Narrow = {0}
  Size = 2
  LastPage = 1
INVARIANTS
  BooksAreSound
  DeductsChecklist
  ListsAreTrue
PROPERTIES
  ActsAtomically
  EveryDeliveryEnds
CHECK_DEADLOCK FALSE
