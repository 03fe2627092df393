SPECIFICATION FairSpec
CONSTANTS
  m1 = m1
  m2 = m2
  a1 = a1
  Mac = {m1, m2}
  Address = {a1}
  None = None
  Tables <- LeaseTables
  FirstTables <- OnLine
  Tracked = m1
  WanState <- WanStates
  Handler = {h1, h2}
  MaxChanges = 2
  MaxInFlight = 1
  MaxExtras = 1
INVARIANTS TypeOK HistoryEndsWithRow
PROPERTIES SegmentsMatchHistory DurationsKept InventoryFollowsRouter StatisticsFollowDevice
CHECK_DEADLOCK FALSE
