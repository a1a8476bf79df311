CONSTANTS
  p1 = p1
  p2 = p2
  c1 = c1
  c2 = c2
  e1 = e1
  Packets = {p1, p2}
  CPUs = {c1, c2}
  Entries = {e1}
  MaxEpoch = 3
SPECIFICATION FairPlacedSpec
INVARIANTS TypeOK PacketReadsCommittedPolicy ActivePolicyIntact CountersExact MemoryMatchesKernel
PROPERTIES CommitAdvancesEpoch ImplementsPolicyRegister RetiredSlotDrains
