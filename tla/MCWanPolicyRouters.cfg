SPECIFICATION FairSpec
CONSTANTS
  Device = {d1}
  Classroom = {c1}
  Router = {r1, r2}
  Address = {a1}
  Request = {q1}
  CreatePayload <- UnprotectedPayloads
  PinPayload <- NoPayloads
  MaxRequests = 3
  MaxFaults = 0
  None = None
  Keep = Keep
  Syncer = {"worker"}
  NoTrigger = NoTrigger
PROPERTIES Converges
CHECK_DEADLOCK FALSE
