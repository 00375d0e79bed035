\* Pushes fail or lose their acknowledgement, processes die: liveness, and the outbox
\* against its abstract specification; event 2 is malformed.
\* The system rests when every event is settled, so a state without successor is no error.
SPECIFICATION FairSpec
CONSTANTS
  h1 = h1
  h2 = h2
  Events = {1, 2}
  Instances = {i1, i2}
  Slots = {s1}
  Handlers = {h1}
  HandlersFor <- MCOneHandler
  Swallowers = {}
  Malformed = {2}
  MaxAttempts = 2
  Batch = 2
  MaxStalled = 1
  Faults = {"crash", "redis", "ack"}
  MaxFaults = 2
  NoEvent = NoEvent
  NoWorker = NoWorker
INVARIANTS
  NothingIsForgotten
  OneWorkerPerEvent
PROPERTIES
  DeliversAsPromised
  EnqueuedSettles
CHECK_DEADLOCK FALSE
