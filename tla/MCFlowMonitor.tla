---------------------------- MODULE MCFlowMonitor ----------------------------
(* Instances of FlowMonitor for TLC.                                       *)
EXTENDS FlowMonitor, TLC

CONSTANTS a, b, s1

TwoCallers == {a, b}
OneCaller == {a}
OneSubscriber == {s1}
NoSubscriber == {}

\* Callers are interchangeable.
Symmetry == Permutations(TwoCallers)
=============================================================================
