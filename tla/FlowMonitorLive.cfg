CONSTANTS
  a = a
  b = b
  s1 = s1
  Callers <- OneCaller
  Subscribers <- NoSubscriber
  MaxRuns = 2
SPECIFICATION FairSpec
PROPERTY StopsAndRunsEnd
