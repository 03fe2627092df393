SPECIFICATION Spec
CONSTANTS
  Address = {a1, a2}
  Applier = {"worker"}
  Worker = "worker"
  MaxChanges = 3
  MaxFaults = 2
  MaxAdmin = 1
  None = None
  Foreign = Foreign
INVARIANTS TypeOK CleanRunIsExact OneEntryPerAddress KilledStayDown
CHECK_DEADLOCK FALSE
