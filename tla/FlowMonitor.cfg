CONSTANTS
  a = a
  b = b
  s1 = s1
  Callers <- TwoCallers
  Subscribers <- NoSubscriber
  MaxRuns = 2
SPECIFICATION Spec
SYMMETRY Symmetry
INVARIANTS ReadersSound ErrTruthful
