SPECIFICATION FairSpec
CONSTANTS
  Router = {r1}
  Version = {v1, v2}
  TaskId = {t1, t2}
  QueueSize = 2
  MaxChanges = 2
  MaxEvents = 3
  MaxFaults = 2
  None = None
INVARIANTS TypeOK EveryTaskOwned AsleepMeansSettled
PROPERTIES WorkersFollowInventory PolicyIsApplied TriggerIsServed
