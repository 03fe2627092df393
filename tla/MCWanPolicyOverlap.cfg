SPECIFICATION RacesSpec
CONSTANTS
  Device = {d1}
  Classroom = {c1}
  Router = {r1}
  Address = {a1}
  Request = {q1, q2}
  CreatePayload <- AllowedPayloads
  PinPayload <- PinPayloads
  MaxRequests = 4
  MaxFaults = 0
  None = None
  Keep = Keep
  Syncer = {"worker"}
  NoTrigger = NoTrigger
SYMMETRY RequestSymmetry
INVARIANT TypeOK
PROPERTIES ProtectedUnlessStale PinnedUnlessStale GrowsUnlessStale 
CHECK_DEADLOCK FALSE
