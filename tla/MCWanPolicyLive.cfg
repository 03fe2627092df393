SPECIFICATION FairSpec
CONSTANTS
  Device = {d1}
  Classroom = {c1}
  Router = {r1}
  Address = {a1}
  Request = {q1, q2}
  CreatePayload <- ObservedPayloads
  PinPayload <- PinPayloads
  MaxRequests = 3
  MaxFaults = 1
  None = None
  Keep = Keep
  Syncer = {"worker"}
  NoTrigger = NoTrigger
PROPERTIES Converges PendingSettles
CHECK_DEADLOCK FALSE
