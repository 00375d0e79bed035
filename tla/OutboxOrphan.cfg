\* One process dies at any point: does a claimed row reach the queue?
SPECIFICATION FairSpec
CONSTANTS
  h1 = h1
  h2 = h2
  Events = {1}
  Instances = {i1}
  Slots = {s1}
  Handlers = {h1}
  HandlersFor <- MCOneHandler
  Swallowers = {}
  Malformed = {}
  MaxAttempts = 2
  Batch = 1
  MaxStalled = 1
  Faults = {"crash"}
  MaxFaults = 1
  NoEvent = NoEvent
  NoWorker = NoWorker
PROPERTIES
  EveryEventSettles
CHECK_DEADLOCK FALSE
