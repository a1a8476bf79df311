CONSTANTS
  c1 = c1
  c2 = c2
  Nobody = Nobody
  Cgroups <- TwoCgroups
SPECIFICATION Spec
SYMMETRY Symmetry
INVARIANTS BookkeepingExact RecoverySucceeds NoLinkForgotten
