--------------------------- MODULE MCWorkloadGuard ---------------------------
(* A small instance of WorkloadGuard.  Containers of one kind, and peers, are *)
(* interchangeable.                                                          *)
EXTENDS WorkloadGuard, TLC

Symmetry == Permutations(Hosts) \cup Permutations(Agents) \cup Permutations(Peers)
==============================================================================
