SPECIFICATION Spec
CONSTANTS
  Device = {d1}
  Classroom = {c1}
  Router = {r1}
  Address = {a1}
  Request = {q1, q2}
  CreatePayload <- ObservedPayloads
  PinPayload <- PinPayloads
  MaxRequests = 3
  MaxFaults = 0
  None = None
  Keep = Keep
  Syncer = {"worker"}
  NoTrigger = NoTrigger
INVARIANT ProtectedNeverBlocked
CHECK_DEADLOCK FALSE
