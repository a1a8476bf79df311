--------------------------- MODULE MCPolicySlots ----------------------------
(* Instance of PolicySlots for TLC: two packets, on one CPU or on two.     *)
(* Liveness rules out a symmetry set, so the placements that differ only   *)
(* in the names of packets or CPUs are left out of the initial states.     *)
EXTENDS PolicySlots

CONSTANTS p1, p2, c1, c2, e1

PlacedInit == Init /\ cpu[p1] = c1

\* A packet gives up after as many commits as it has attempts.  Both packets
\* meet the first two commits; the last one is prepared and made while the
\* second packet is idle.  No step of a packet that has started is held back.
LastCommit ==
  \/ \E s \in Slots : configuration[s] = MaxEpoch
  \/ memEpoch + 1 = MaxEpoch /\ (agentPc \in Candidate \/ why = "prepare")
MCNext == Next /\ (LastCommit' => pktPc'[p2] = "idle")

FairPlacedSpec ==
  PlacedInit /\ [][MCNext]_vars /\ \A p \in Packets : WF_vars(PacketStep(p))
=============================================================================
