\* Every kind of fault, two of them, two instances, two events, a handler that swallows its errors.
\* The system rests when every event is settled, so a state without successor is no error.
SPECIFICATION Spec
CONSTANTS
  h1 = h1
  h2 = h2
  Events = {1, 2}
  Instances = {i1, i2}
  Slots = {s1}
  Handlers = {h1, h2}
  HandlersFor <- MCHandlersFor
  Swallowers = {h1}
  Malformed = {}
  MaxAttempts = 2
  Batch = 1
  MaxStalled = 1
  Faults = {"crash", "redis", "ack", "db", "stall"}
  MaxFaults = 2
  NoEvent = NoEvent
  NoWorker = NoWorker
INVARIANTS
  OutboxIsSound
CHECK_DEADLOCK FALSE
