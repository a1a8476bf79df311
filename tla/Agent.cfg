\* A quiet cluster leaves the loop blocked in its select: no deadlock check.
CHECK_DEADLOCK FALSE
SPECIFICATION MCSpec
CONSTANTS
  a = a
  b = b
  Caches = 2
  Contents = {a, b}
  Quarantining <- OneQuarantining
  RetryInterval = 1
  RetryMax = 3
  MaxQueued = 1
  MaxAge = 2
  MaxAgents = 2
  CPUs = {c1}
  Second = 2
  FlowLimit = 1
  MaxNesting = 1
  MaxDecisions = 2
  MaxClock = 1
  MaxEpoch = 1
  MaxAgentRuns = 2
INVARIANTS LoopSafe StatusSafe
PROPERTIES LoopProgress StatusSound AgentEndNoticed MetricsCatchUp
