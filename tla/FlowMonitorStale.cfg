CONSTANTS
  a = a
  b = b
  s1 = s1
  Callers <- OneCaller
  Subscribers <- OneSubscriber
  MaxRuns = 2
SPECIFICATION Spec
PROPERTIES StaleProcessorHarmless
