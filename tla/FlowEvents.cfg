\* The packets and clock ticks are bounded: no deadlock check.
CHECK_DEADLOCK FALSE
SPECIFICATION MCSpec
CONSTANTS
  CPUs = {c1}
  Second = 2
  FlowLimit = 1
  MaxNesting = 2
  MaxDecisions = 3
  MaxClock = 2
  MaxEpoch = 1
  MaxAgentRuns = 1
  Callers = {a}
  Subscribers = {s1}
  MaxRuns = 2
INVARIANTS DecisionsCounted SubscriptionsEndWithRun
PROPERTY PublicationSound
