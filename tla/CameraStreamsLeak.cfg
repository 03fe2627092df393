SPECIFICATION FairSpec
CONSTANTS
  Session = {v1, v2}
  Key = {k1}
  StreamId = {s1, s2}
  Cleaner = Cleaner
  MaxRequests = 3
  MaxFaults = 1
  MaxLateReads = 1
  None = None
PROPERTY UnwatchedStreamsEnd
