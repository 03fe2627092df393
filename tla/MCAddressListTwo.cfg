SPECIFICATION FairSpec
CONSTANTS
  Address = {a1}
  Applier = {"worker", "manual"}
  Worker = "worker"
  MaxChanges = 2
  MaxFaults = 1
  MaxAdmin = 2
  None = None
  Foreign = Foreign
PROPERTIES ForeignUntouched ReplicaSpec
CHECK_DEADLOCK FALSE
