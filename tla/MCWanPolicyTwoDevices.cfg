SPECIFICATION Spec
CONSTANTS
  Device = {d1, d2}
  Classroom = {c1}
  Router = {r1}
  Address = {a1, a2}
  Request = {q1}
  CreatePayload <- UnprotectedPayloads
  PinPayload <- NoPayloads
  MaxRequests = 4
  MaxFaults = 0
  None = None
  Keep = Keep
  Syncer = {"worker"}
  NoTrigger = NoTrigger
PROPERTY AppliedMeansEnforced
CHECK_DEADLOCK FALSE
