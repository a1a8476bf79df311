------------------------------ MODULE MCAgent ------------------------------
(* The agent's event loop and what watches the agent, one at a time: the   *)
(* event loop, the status record with its heartbeat and the poll of a flow *)
(* reader, or the metrics poller over one CPU.                             *)
(* They share no state; `part' says which one runs, the others stay in     *)
(* their initial state.                                                    *)
EXTENDS AgentLoop, AgentStatus

CONSTANTS
  a, b,                                       \* contents of a cache
  CPUs, Second, FlowLimit, MaxNesting,        \* DecisionCounts
  MaxDecisions, MaxClock, MaxEpoch, MaxAgentRuns

VARIABLES
  part,
  running, counts, limiter, clock, epoch, exporter, holder, refresh, last,
  published, gauge, made, nested, delivered

Metrics == INSTANCE DecisionCounts WITH agent <- exporter

metricsVars == <<running, counts, limiter, clock, epoch, exporter, holder, refresh, last,
                 published, gauge, made, nested, delivered>>

Runs(p) == part = p /\ part' = p

MCInit ==
  /\ part \in {"loop", "status", "metrics"}
  /\ Init /\ StatusInit /\ Metrics!CountsInit
  /\ part # "loop" => \A k \in Kinds : store[k] = a /\ enforced[k] = a

MCNext ==
  \/ Runs("loop") /\ Next /\ UNCHANGED <<statusVars, metricsVars>>
  \/ Runs("status") /\ StatusNext /\ UNCHANGED <<vars, metricsVars>>
  \/ Runs("metrics") /\ Metrics!CountsNext /\ UNCHANGED <<vars, statusVars>>

\* The fairness of each module, for the part that runs.
Program(c) ==
  \/ Metrics!Load(c) \/ Metrics!Store(c) \/ Metrics!Suppress(c)
  \/ Metrics!Reject(c) \/ Metrics!Submit(c)

PartFairness ==
  /\ \A k \in Kinds : WF_vars(Runs("loop") /\ Notify(k))
  /\ WF_vars(Runs("loop") /\ Start) /\ WF_vars(Runs("loop") /\ Pass)
  /\ WF_vars(Runs("loop") /\ Record) /\ WF_vars(Runs("loop") /\ Wait)
  /\ WF_vars(Runs("loop") /\ WindowElapses) /\ WF_vars(Runs("loop") /\ DebounceEnds)
  /\ WF_statusVars(Runs("status") /\ Poll)
  /\ WF_statusVars(Runs("status") /\ Tick)
  /\ \A c \in CPUs : WF_metricsVars(Runs("metrics") /\ Program(c))
  /\ SF_metricsVars(Runs("metrics") /\ Metrics!Refresh("poller"))
  /\ SF_metricsVars(Runs("metrics") /\ Metrics!ReadEpoch("poller"))
  /\ SF_metricsVars(Runs("metrics") /\ Metrics!ReadDecisions("poller"))
  /\ SF_metricsVars(Runs("metrics") /\ Metrics!ReadDrops("poller"))
  /\ \A g \in Metrics!Goroutines :
        WF_metricsVars(Runs("metrics") /\ (Metrics!Publish(g) \/ Metrics!RefreshFails(g)))

MCSpec ==
  MCInit /\ [][MCNext]_<<part, vars, statusVars, metricsVars>> /\ PartFairness

OneQuarantining == {<<a, b>>}

-----------------------------------------------------------------------------
(* The properties of the parts.                                            *)

\* AgentLoop: once the environment is calm, the kernel ends up with what the
\* informer caches hold, and the debounce window ends however many events
\* arrive (runNativeAgentReconciliation, waitNativeAgentDebounce).
LoopProgress == part = "loop" => Converges /\ DebounceBounded
\* AgentStatus: a stream notices the end of its agent, however it ended
\* (monitorPinnedAgentStatus).
AgentEndNoticed == part = "status" => EndOfAgentNoticed
\* DecisionCounts: the metrics of a running agent catch up with what the kernel
\* has counted (startEngineMetricsPolling).
MetricsCatchUp == part = "metrics" => Metrics!MetricsCatchUp
=============================================================================
