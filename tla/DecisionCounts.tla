---------------------------- MODULE DecisionCounts ----------------------------
(***************************************************************************)
(* From a packet's verdict to the agent's metrics: decide (bpf/engine.c)   *)
(* counts the decision and emits or suppresses a flow event, with per-CPU  *)
(* counters and a per-CPU rate limiter; two goroutines of the agent sum    *)
(* the counters and add what is new to Prometheus counters                 *)
(* (internal/cli/native_agent_http_linux.go).                              *)
(*                                                                         *)
(* Simplifications: one label combination stands for the 48 of             *)
(* decision_counts; the per-epoch maps, which are updated by the same      *)
(* plain increments, the cleanup-failure counter, the generation label and *)
(* the enforcing flag, set with the first non-zero epoch, are left out;    *)
(* one Lookup of a per-CPU map is one step; so is emit_flow_event from the *)
(* check of the limiter to the increment of emitted, although a nested     *)
(* program can come between them and let more events into the window:      *)
(* RateBounded excepts CPUs with nested programs for that reason; the      *)
(* counters are far from 2^64.                                             *)
(***************************************************************************)
EXTENDS Integers, Sequences, FiniteSets

CONSTANTS
    CPUs,
    Second,             \* NS_PER_SECOND, in clock ticks
    FlowLimit,          \* FLOW_LIMIT_PER_SECOND
    MaxNesting,         \* packet programs one CPU can have under way at once
    MaxDecisions,       \* bound: packets per CPU
    MaxClock,           \* bound: clock ticks
    MaxEpoch,           \* bound: policy commits
    MaxAgentRuns        \* bound: agent processes

ASSUME CountsAssumption ==
    /\ IsFiniteSet(CPUs)
    /\ Second \in Nat \ {0} /\ FlowLimit \in Nat /\ MaxNesting \in Nat
    /\ MaxDecisions \in Nat /\ MaxClock \in Nat /\ MaxEpoch \in Nat /\ MaxAgentRuns \in Nat

Counters == {"decisions", "limited", "full"}
Zero == [k \in Counters |-> 0]

VARIABLES
    running,    \* per CPU, the packet programs under way, the one that runs last
    counts,     \* decision_counts and event_drops, per CPU
    limiter,    \* event_limiter, per CPU
    clock,      \* bpf_ktime_get_ns
    epoch,      \* the committed policy epoch
    agent,      \* [up, provider, runs]
    holder,     \* holder of engineMetricsMu, or "free"
    refresh,    \* per goroutine, [pc, snap]: a call of refreshEngineMetrics
    last,       \* lastDecisions and lastDrops
    published,  \* the Prometheus counters
    gauge,      \* ztap_active_policy_epoch
    made,       \* history: decisions made, per CPU
    nested,     \* history: those of programs that interrupted another one
    delivered   \* history: timestamps of the events submitted, per CPU

kernel == <<running, counts, limiter, made, nested, delivered>>
metrics == <<agent, holder, refresh, last, published, gauge>>
countsVars == <<kernel, clock, epoch, metrics>>

Goroutines == {"poller", "loop"}
NoSnapshot == [epoch |-> 0, counts |-> Zero]

CountsTypeOK ==
    /\ \A c \in CPUs : /\ Len(running[c]) <= MaxNesting
                       /\ counts[c] \in [Counters -> Nat]
                       /\ limiter[c].start <= clock /\ limiter[c].emitted \in 0 .. FlowLimit
    /\ agent \in [up : BOOLEAN, provider : BOOLEAN, runs : 0 .. MaxAgentRuns]
    /\ holder \in Goroutines \cup {"free"}
    /\ \A g \in Goroutines : refresh[g].pc \in {"idle", "epoch", "decisions", "drops", "publish"}
    /\ last \in [Counters -> Nat] /\ published \in [Counters -> Nat]
    /\ gauge <= epoch

CountsInit ==
    /\ running = [c \in CPUs |-> << >>]
    /\ counts = [c \in CPUs |-> Zero]
    /\ limiter = [c \in CPUs |-> [start |-> 0, emitted |-> 0]]
    /\ clock = 0 /\ epoch = 0
    /\ agent = [up |-> FALSE, provider |-> FALSE, runs |-> 0]
    /\ holder = "free"
    /\ refresh = [g \in Goroutines |-> [pc |-> "idle", snap |-> NoSnapshot]]
    /\ last = Zero /\ published = Zero /\ gauge = 0
    /\ made = [c \in CPUs |-> 0] /\ nested = [c \in CPUs |-> 0]
    /\ delivered = [c \in CPUs |-> << >>]

-----------------------------------------------------------------------------
(* The packet programs. *)

Top(c) == running[c][Len(running[c])]
TopAt(c, step) == running[c] # << >> /\ Top(c).step = step
\* The running program goes to its next step, or is done.
StepTo(c, frame) == running' = [running EXCEPT ![c][Len(running[c])] = frame]
Pop(c) == running' = [running EXCEPT ![c] = SubSeq(@, 1, Len(@) - 1)]

\* enforce_packet reads the clock and comes to a verdict.
Decide(c) ==
    /\ Len(running[c]) < MaxNesting
    /\ made[c] < MaxDecisions
    /\ running' = [running EXCEPT ![c] =
            Append(@, [step |-> "count", now |-> clock, counter |-> "decisions", loaded |-> 0])]
    /\ made' = [made EXCEPT ![c] = @ + 1]
    /\ nested' = IF running[c] = << >> THEN nested ELSE [nested EXCEPT ![c] = @ + 1]
    /\ UNCHANGED <<counts, limiter, delivered, clock, epoch, metrics>>

\* increment_counter: a plain load ...
Load(c) ==
    /\ TopAt(c, "count")
    /\ StepTo(c, [Top(c) EXCEPT !.step = "store", !.loaded = counts[c][Top(c).counter]])
    /\ UNCHANGED <<counts, limiter, made, nested, delivered, clock, epoch, metrics>>

\* ... and a plain store.
Store(c) ==
    /\ TopAt(c, "store")
    /\ counts' = [counts EXCEPT ![c][Top(c).counter] = Top(c).loaded + 1]
    /\ IF Top(c).counter = "decisions" THEN StepTo(c, [Top(c) EXCEPT !.step = "emit"])
       ELSE Pop(c)
    /\ UNCHANGED <<limiter, made, nested, delivered, clock, epoch, metrics>>

\* The limiter's window for an event; an unsigned difference below zero is large.
Window(c, now) ==
    IF now < limiter[c].start \/ now - limiter[c].start >= Second
    THEN [start |-> now, emitted |-> 0]
    ELSE limiter[c]

\* record_event_drop
Drop(c, reason) == StepTo(c, [Top(c) EXCEPT !.step = "count", !.counter = reason])

\* A window with one more event.
OneMore(w) == [w EXCEPT !.emitted = @ + 1]

\* emit_flow_event over the limit.
Suppress(c) ==
    /\ TopAt(c, "emit")
    /\ Window(c, Top(c).now).emitted >= FlowLimit
    /\ limiter' = [limiter EXCEPT ![c] = Window(c, Top(c).now)]
    /\ Drop(c, "limited")
    /\ UNCHANGED <<counts, made, nested, delivered, clock, epoch, metrics>>

\* Mutant: a failed reservation is not recorded.
RejectSilently(c) ==
    /\ TopAt(c, "emit")
    /\ Window(c, Top(c).now).emitted < FlowLimit
    /\ limiter' = [limiter EXCEPT ![c] = OneMore(Window(c, Top(c).now))]
    /\ Pop(c)
    /\ UNCHANGED <<counts, made, nested, delivered, clock, epoch, metrics>>
\* emit_flow_event when the ring buffer is full.
Reject(c) ==
    /\ TopAt(c, "emit")
    /\ Window(c, Top(c).now).emitted < FlowLimit
    /\ limiter' = [limiter EXCEPT ![c] = OneMore(Window(c, Top(c).now))]
    /\ Drop(c, "full")
    /\ UNCHANGED <<counts, made, nested, delivered, clock, epoch, metrics>>

\* emit_flow_event submits the event.
Submit(c) ==
    /\ TopAt(c, "emit")
    /\ Window(c, Top(c).now).emitted < FlowLimit
    /\ limiter' = [limiter EXCEPT ![c] = OneMore(Window(c, Top(c).now))]
    /\ delivered' = [delivered EXCEPT ![c] = Append(@, Top(c).now)]
    /\ Pop(c)
    /\ UNCHANGED <<counts, made, nested, clock, epoch, metrics>>

Tick ==
    /\ clock < MaxClock
    /\ clock' = clock + 1
    /\ UNCHANGED <<kernel, epoch, metrics>>

\* Apply commits a policy (module PolicySlots).
Commit ==
    /\ agent.up /\ epoch < MaxEpoch
    /\ epoch' = epoch + 1
    /\ UNCHANGED <<kernel, clock, metrics>>

-----------------------------------------------------------------------------
(* The agent. *)

\* The sum of a counter over the CPUs: the size of a disjoint union.
Sum(k) == Cardinality(UNION {{c} \X (1 .. counts[c][k]) : c \in CPUs})

\* A process starts, with metrics of its own, and names the engine as their source.
StartAgent ==
    /\ ~agent.up /\ agent.runs < MaxAgentRuns
    /\ agent' = [up |-> TRUE, provider |-> TRUE, runs |-> agent.runs + 1]
    /\ last' = Zero /\ published' = Zero /\ gauge' = 0
    /\ UNCHANGED <<kernel, clock, epoch, holder, refresh>>

\* The polling goroutine has ended; setEngineMetricsProvider(nil).
ClearProvider ==
    /\ agent.up /\ agent.provider
    /\ holder = "free" /\ refresh["loop"].pc = "idle"
    /\ agent' = [agent EXCEPT !.provider = FALSE]
    /\ last' = Zero
    /\ UNCHANGED <<kernel, clock, epoch, holder, refresh, published, gauge>>

\* The process exits, or is killed at any point.
Exit ==
    /\ agent.up
    /\ agent' = [agent EXCEPT !.up = FALSE, !.provider = FALSE]
    /\ holder' = "free"
    /\ refresh' = [g \in Goroutines |-> [pc |-> "idle", snap |-> NoSnapshot]]
    /\ UNCHANGED <<kernel, clock, epoch, last, published, gauge>>

\* Mutant: only publication is serialised, collection is not.
RefreshUnlocked(g) ==
    /\ agent.provider /\ refresh[g].pc = "idle"
    /\ refresh' = [refresh EXCEPT ![g].pc = "epoch"]
    /\ UNCHANGED <<kernel, clock, epoch, agent, holder, last, published, gauge>>
\* refreshEngineMetrics takes the lock for collection and publication.
Refresh(g) ==
    /\ agent.provider /\ refresh[g].pc = "idle"
    /\ holder = "free"
    /\ holder' = g
    /\ refresh' = [refresh EXCEPT ![g].pc = "epoch"]
    /\ UNCHANGED <<kernel, clock, epoch, agent, last, published, gauge>>

\* MetricsSnapshot: the epoch, the decisions, the drops.
ReadEpoch(g) ==
    /\ refresh[g].pc = "epoch"
    /\ refresh' = [refresh EXCEPT ![g] = [@ EXCEPT !.pc = "decisions", !.snap.epoch = epoch]]
    /\ UNCHANGED <<kernel, clock, epoch, agent, holder, last, published, gauge>>
ReadDecisions(g) ==
    /\ refresh[g].pc = "decisions"
    /\ refresh' = [refresh EXCEPT ![g] =
            [@ EXCEPT !.pc = "drops", !.snap.counts["decisions"] = Sum("decisions")]]
    /\ UNCHANGED <<kernel, clock, epoch, agent, holder, last, published, gauge>>
WithDrops(s) ==
    [epoch |-> s.epoch,
     counts |-> [s.counts EXCEPT !["limited"] = Sum("limited"), !["full"] = Sum("full")]]
ReadDrops(g) ==
    /\ refresh[g].pc = "drops"
    /\ refresh' = [refresh EXCEPT ![g] =
            [pc |-> "publish", snap |-> WithDrops(@.snap)]]
    /\ UNCHANGED <<kernel, clock, epoch, agent, holder, last, published, gauge>>

\* Mutant: the early return keeps the lock.
RefreshFailsLocked(g) ==
    /\ refresh[g].pc \in {"epoch", "decisions", "drops"}
    /\ refresh' = [refresh EXCEPT ![g] = [pc |-> "idle", snap |-> NoSnapshot]]
    /\ UNCHANGED <<kernel, clock, epoch, agent, holder, last, published, gauge>>
\* A lookup fails or the 500 ms are over: the snapshot is given up.
RefreshFails(g) ==
    /\ refresh[g].pc \in {"epoch", "decisions", "drops"}
    /\ refresh' = [refresh EXCEPT ![g] = [pc |-> "idle", snap |-> NoSnapshot]]
    /\ holder' = "free"
    /\ UNCHANGED <<kernel, clock, epoch, agent, last, published, gauge>>

CounterDelta(previous, current) ==
    IF current >= previous THEN current - previous ELSE current

Publish(g) ==
    /\ refresh[g].pc = "publish"
    /\ LET snap == refresh[g].snap IN
       /\ published' = [k \in Counters |-> published[k] + CounterDelta(last[k], snap.counts[k])]
       /\ last' = snap.counts
       /\ gauge' = snap.epoch
    /\ refresh' = [refresh EXCEPT ![g] = [pc |-> "idle", snap |-> NoSnapshot]]
    /\ holder' = "free"
    /\ UNCHANGED <<kernel, clock, epoch, agent>>

Kernel == \E c \in CPUs :
    Decide(c) \/ Load(c) \/ Store(c) \/ Suppress(c) \/ Reject(c) \/ Submit(c)
Agent == \/ StartAgent \/ ClearProvider \/ Exit
         \/ \E g \in Goroutines : \/ Refresh(g) \/ ReadEpoch(g) \/ ReadDecisions(g)
                                  \/ ReadDrops(g) \/ RefreshFails(g) \/ Publish(g)

CountsNext == Kernel \/ Agent \/ Tick \/ Commit

CountsSpec == CountsInit /\ [][CountsNext]_countsVars

\* Packet programs run to their end.  The poller ticks every second and gets the lock in
\* the end, and not every one of its snapshots fails.
CountsFairness ==
    /\ \A c \in CPUs : WF_countsVars(Load(c) \/ Store(c) \/ Suppress(c) \/ Reject(c) \/ Submit(c))
    /\ SF_countsVars(Refresh("poller"))
    /\ SF_countsVars(ReadEpoch("poller")) /\ SF_countsVars(ReadDecisions("poller"))
    /\ SF_countsVars(ReadDrops("poller"))
    /\ \A g \in Goroutines : WF_countsVars(Publish(g) \/ RefreshFails(g))

CountsFairSpec == CountsSpec /\ CountsFairness

-----------------------------------------------------------------------------
(* Properties. *)

\* On a CPU that runs no packet program every decision is counted, and each one is either
\* delivered as an event or counted as suppressed or rejected, although increment_counter
\* is no atomic read-modify-write; only the decisions of programs that interrupted another
\* one on their CPU may be missing, and no decision is ever counted twice (count_decision,
\* emit_flow_event).
EveryDecisionCounted ==
    \A c \in CPUs : running[c] = << >> =>
        /\ made[c] - nested[c] <= counts[c]["decisions"]
        /\ counts[c]["decisions"] <= made[c]
        /\ nested[c] = 0 =>
               made[c] = Len(delivered[c]) + counts[c]["limited"] + counts[c]["full"]

\* A CPU delivers no more than two windows' worth of events in the time of one, as long
\* as no program has interrupted another one: an interrupted program's older time restarts
\* the window (emit_flow_event).
RateBounded ==
    \A c \in CPUs : nested[c] = 0 => \A t \in 0 .. clock :
        Cardinality({i \in DOMAIN delivered[c] :
                        t <= delivered[c][i] /\ delivered[c][i] < t + Second}) <= 2 * FlowLimit

\* The metrics of a process never run ahead of the counters they are read from, whichever
\* goroutine refreshes them: no snapshot is counted twice, as long as no interrupted
\* increment has set a counter back (refreshEngineMetrics, counterDelta).
PublishedNeverAhead ==
    (\A c \in CPUs : nested[c] = 0) => \A k \in Counters : published[k] <= Sum(k)

\* The epoch shown never goes back while a process lives (refreshEngineMetrics).
EpochGaugeAdvances == [][agent.up => gauge' >= gauge]_countsVars

\* While an agent runs, its metrics catch up with every decision the kernel has counted
\* (startEngineMetricsPolling).
MetricsCatchUp ==
    \A n \in 1 .. MaxDecisions :
        (agent.provider /\ Sum("decisions") = n)
            ~> (published["decisions"] >= n \/ ~agent.provider)

\* What always holds of the per-CPU counters: their types; only decisions of
\* programs that interrupted another one may be missing; and without such an
\* interruption every decision is delivered, suppressed or dropped on record
\* and the rate is bounded (count_decision, emit_flow_event).
DecisionsCounted == CountsTypeOK /\ EveryDecisionCounted /\ RateBounded

\* What a scrape can see: never more than the kernel has counted, and an epoch
\* that does not run back while the agent is up (refreshEngineMetrics).
PublicationSound == []PublishedNeverAhead /\ EpochGaugeAdvances
==============================================================================
