---------------------------- MODULE MCFlowEvents ----------------------------
(* The two ends of a flow event, one at a time: the packet programs that   *)
(* count and emit it with the agent that publishes the counters, or the    *)
(* monitor that hands it to a subscriber.  They share no state;            *)
(* `part' says which one runs, the other stays in its initial state.       *)
EXTENDS DecisionCounts, FlowMonitor

VARIABLE part

Part(p) == part = p /\ part' = p

MCInit == part \in {"counts", "monitor"} /\ CountsInit /\ Init

MCNext ==
  \/ Part("counts") /\ CountsNext /\ UNCHANGED vars
  \/ Part("monitor") /\ Next /\ UNCHANGED countsVars

MCSpec == MCInit /\ [][MCNext]_<<part, countsVars, vars>>
=============================================================================
