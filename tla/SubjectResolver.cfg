CONSTANTS
  p1 = p1
  p2 = p2
  Pods = {p1, p2}
  Containers = {1, 2, 3}
  OwnerOf <- OwnPods
  QoS = {"burstable"}
  Inodes = {i1, i2}
  Shown <- MCShown
  MaxBuilds = 2
  MaxMoves = 2
SYMMETRY InodeSymmetry
SPECIFICATION Spec
INVARIANT PublishedConsistent
PROPERTIES SnapshotTruthful RunningAccounted
