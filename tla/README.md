# ZTAP: a verification project in TLA+

ZTAP enforces Kubernetes network policies on a node with eBPF programs. This directory
holds TLA+ models of its core, TLC configurations that check them on small instances, and
proofs that TLAPS checks for instances of any size. `PROJECT.json` maps every definition to
the source lines it models and lists the runs, mutants, hazards and theorems.

Run a check with `tlc -config PolicySlots.cfg MCPolicySlots` (module and configuration of
each run are in the table below) and the proofs with `tlapm PolicySlotsProofs.tla`.

## The system

| Component | State | Operations | Interacts with |
|---|---|---|---|
| Packet programs (`bpf/engine.c`) | per-CPU `in_flight` counters, `conn_state` | one invocation per packet: register, look up, decide | read the pinned maps the agent writes; emit flow records |
| Engine core (`engine_core.go`) | active configuration, applied set, links, orphans, pending slot | `Apply`, `Close`, recover | calls the store; is called by the agent loop |
| Linux store (`engine_linux.go`, `persistence_linux.go`) | pinned maps, links, ownership and program registries | `ClearSlot`, `PopulateSlot`, `Attach`, `Flip`, `WaitQuiescent`, `Mark*` | the kernel; survives the process through bpffs pins |
| Workload guard (`guard_linux.go`) | parent links, classified cgroups, host owners | install, recover, prune | shares slots and ownership journal with the store |
| Agent loop (`native_agent_linux.go`) | wakeup channel, retry timer, readiness | reconcile, debounce, retry, stop | informer callbacks signal it; it calls compiler and engine |
| Resolver and snapshot (`k8s_*_linux.go`) | cgroup cache, published identities | build snapshot, resolve, validate | informer caches, cgroup file system |
| Compiler (`internal/policy`) | none | decode, validate, compile | called by the loop |
| Flow monitor and readers (`internal/flow`, `flows_reader_linux.go`) | run generation, subscribers, ring buffer | `Start`, `Stop`, `Subscribe` | reads the flow ring buffer and the agent's status map |
| Cleanup, node bootstrap, locks, preflight (`cleanup_linux.go`, `internal/cli`) | pins, bootstrap record, lock files | one-shot commands | same pins as the agent |

What makes each hard, and what would make it correct:

- *Slots and packets*: packets on every CPU read maps that are being rewritten, without a
  lock. A packet must be judged by one whole policy that was in force during its lifetime.
- *Durability*: enforcement must outlive the agent. The process may die between any two
  kernel writes, and the next one refuses to start on anything it cannot account for, so
  every intermediate state must be accountable.
- *Event loop*: many producers, a one-place channel, a debounce window and a retry timer.
  No change may be lost, and readiness must tell the truth.
- *Flow monitor*: a restartable object whose goroutines outlive a run. `Stop` must return,
  and nothing left over from one run may touch the next.
- *Pins, generations and removal*: every start loads new programs and moves links over to
  them, cleanup takes everything down; both are killed anywhere and both refuse pins they
  cannot explain. Neither may block the other for ever.
- *Agent status*: two threads write one record, a stream in another process trusts it. The
  record must not go back, and a stream must not outlive its agent.
- *Reply state and verdicts*: CPUs share entries of an LRU hash that recycles them. A reply
  must need an opening packet that a rule of the same policy allowed.
- *Guard and bootstrap*: nothing may talk before it is classified, except what lets the node
  start, while records are stale and the guard is half installed.
- *Counters*: kernel counters without locks, published by two goroutines of an agent that
  restarts. No decision may be lost, counted twice or published backwards.
- *Compiler*: union semantics, invalid policies, unresolved containers and limits. The result
  must decide every packet as the policies demand, and fail closed.
- *Resolver*: the cgroup file system moves under it. It must never hand the engine a cgroup
  that was not the container's during the build.

`PROJECT.json` lists these hazards at their source lines, each with the properties that
watch it.

## Modules

| Module | Models |
|---|---|
| `PolicyRegister` | abstract: the node's policy as one register with epochs |
| `PolicySlots` | the two-slot store, packet readers, `Apply`, crash and recovery |
| `PolicySlotsProofs` | theorems about `PolicySlots`, including that it implements `PolicyRegister` |
| `DurableLinksProofs`, `ConnStateProofs`, `SubjectResolverProofs` | theorems about the module they are named after |
| `AgentProofs` | theorems about `AgentLoop` and `AgentStatus` |
| `PinsProofs` | theorems about `EnforcementPins` and `PinnedReader` |
| `FlowEventsProofs` | theorems about `DecisionCounts` and `FlowMonitor` |
| `PacketProofs` | theorems about `WorkloadGuard`, `PacketParser`, `PacketDecision`, `RuleKeys`, `BlockExpansion` and `PolicyCompiler` |
| `DurableLinks` | links, pins and the ownership journal through `Apply`, crash and recovery |
| `AgentLoop` | the reconciliation loop, informers, readiness |
| `FlowMonitor` | flow monitor and ring-buffer reader over several runs |
| `PinnedReader` | `mapOwningReader`: ring-buffer reader and status poll over two map handles |
| `AgentStatus` | lifecycle record and heartbeat, and the poll that follows them |
| `EnforcementPins` | map, program and link pins through starts, upgrades and `ztap cleanup` |
| `ConnState` | `conn_state` entries under concurrent packets |
| `PacketParser` | `parse_packet` |
| `PacketDecision` | the order of checks in `enforce_packet`, and reply state across both hooks |
| `RuleKeys` | keys of `policy_rules`: packing, prefix trie, slots, recovery |
| `DecisionCounts` | decision counters, flow-event rate limiter, published metrics |
| `WorkloadGuard` | parent guard, bootstrap record and host owners |
| `IPBlocks` | the algorithm that expands an `ipBlock` |
| `BlockExpansion` | a call of `ExpandNativeIPBlock` and what its result has to be, on `IPBlocks` |
| `PolicyCompiler` | `CompileNativePolicies`, on `IPBlocks` |
| `SubjectResolver` | cgroup cache, snapshot build and published identities |
| `MCPolicySlots`, `MCDurableLinks`, `MCFlowMonitor`, `MCConnState`, `MCWorkloadGuard`, `MCSubjectResolver` | instances for TLC |
| `MCAgent`, `MCFlowEvents`, `MCPins`, `MCSemantics` | runs of several modules |
| `MCIPBlocks`, `MCPolicyCompiler`, `MCPacketParser`, `MCPacketDecision`, `MCRuleKeys` | inputs for `MCSemantics` |

How they fit together: `PolicySlots` shows that a packet sees one whole committed policy;
`RuleKeys` that the entries of a slot mean the rules that were written; `PacketDecision`
takes both for granted and says what a packet is allowed to do; `PolicyCompiler` says that
the rules mean the policies. `SubjectResolver` supplies the compiler's facts, `AgentLoop`
the order in which they are read and applied. `DurableLinks` has the ownership records and
`EnforcementPins` the pins they account for.

Definitions marked *Mutant* in the modules are wrong variants of the definition after them.
They are not part of any specification; each one shows that a property notices that error.

### PolicySlots

Kernel state: `activeConfig` (which inner map the outer map points at), `configuration`
(the epoch in each inner map), `slotData` (entries per slot; a policy set is a set of
entries) and `inFlight` (a counter per CPU and slot). A packet goes through the steps of
`enforce_packet`: read the pointer, load slot and epoch through it, add to the counter, read
again, compare, and then either look up or take the registration back and retry, three
times at most. The pointer and the fields behind it are read in separate steps, because the
agent may rewrite the inner map of the retired slot between the two. Counter updates and
map operations are single steps. A packet stays on its CPU.

The agent follows `engineCore.Apply`: reclaim a pending slot, compare, clear and fill the
inactive slot entry by entry, attach, write the inner map, swap the pointer, wait, clear.
Every store call may fail, and `Crash` may come anywhere; it wipes the agent's memory and
nothing else. `Recover` rebuilds the memory from the maps. `committed` and `birth` are
history variables that no action reads.

`ApplyRefused` covers all early returns that write nothing. The wait has no clock: it may
time out at any step.

### DurableLinks

Per cgroup: which directions are pinned (`pins`) and have a stored identity (`stored`),
whether it has an ownership record (`owner`) and whether it exists (`live`). Each kernel
write of `attachPersistent` and of `durableLinkPair.Remove` is a step; `todo`, `job` and
`jobStep` hold the position in their loops. `Recoverable` collects what `recoverLinks`,
`validatePinInventory` and `engineCore.recover` insist on; `Recover` is only enabled when it
holds, so `RecoverySucceeds` says that a restart never gets stuck. Waiting for packets is
part of clearing here. Cgroup IDs are not reused; the code tells a
replaced cgroup from a live one by ID, device and path, and treats it as gone.

### AgentLoop

An informer changes a cache, and later its handler puts a token in the one-place channel.
The loop drains, debounces, reads the caches one at a time, applies, and records the result.
`calm` is switched on by the environment at some point; from then on nothing changes or
fails. It exists only to state `Converges`. A cache's content stands for the fields
`nativeObjectChanged` compares; an update that changes none of them is no step.

### FlowMonitor

What `Monitor` does under its mutex is one step; channel operations and reader calls between
critical sections are separate steps. Channels and cancel functions are named by the run
that made them; stop channels by a number. The ring-buffer reader is included, so that
`reader.Stop` closes whatever ring buffer is open at that moment, as the code does. The
goroutine that watches the context inside `LinuxReader.Start` is merged into the step that
ends the read: `Start` does not return before that goroutine does.

### PinnedReader and AgentStatus

`PinnedReader` has what `mapOwningReader` does under its mutex as one step, and the two
goroutines of a `Start` as actors. `AgentStatus` has the engine and the heartbeat as two
threads of one process; taking a snapshot under the lock and putting it in the map are
separate steps, because the write happens with the status lock held and the lifecycle lock
released. Ages replace times and stop at `MaxAge + 1`, which the poll cannot tell from more.

### EnforcementPins

`pins`, `registry` and `links` are the bpffs directory. A start publishes maps, registers and
pins a generation, moves or creates links, and retires what no link uses; cleanup checks the
inventory and removes in its fixed order. Each pin is a step, each step may be the last.
`StartSucceeds` and `CleanupRetryable` say that whatever is left is accepted next time;
`RegistryGrowsByFailedStarts` bounds the registry by the starts that failed, which is why a
registry that refuses a start can only be the result of many failures. The egress and ingress
programs of subjects are one kind, so a generation has four programs where the code has five,
and the bound counts in those. Cleanup accepts a guard link only with its ownership record.

### ConnState, PacketParser, PacketDecision

`ConnState` makes the elements of the LRU hash explicit, so that a pointer can outlive its
entry. Every lookup, update and atomic operation is a step. Two clock readings are never
equal (`Tick`), and a packet is handled within `MaxLag`, below the refresh interval. No action
reads `opened`, `closedAt` and `tied`, which record what a rule allowed, when an entry closed,
and which entries a refresh and a close met in with one and the same expiry (see Findings).
`PacketParser` evaluates the parser on real lengths. `PacketDecision` has one step per
packet and compares each verdict with the documented meaning of a policy. At the egress hook
a packet carries the address of its own pod; other source addresses are left out.

### RuleKeys

The map both slots share, with field widths as constants. The trie is external: one node per
prefix, and a lookup finds a stored prefix of the key. Writes and deletes are steps, so that
slots are found filled or cleared in part, by the same agent or the next. The code's widths
are 16 bits of port, 8 of protocol and 6 unused ones below the direction and the slot.

### DecisionCounts

A packet program loads, stores, and emits or suppresses; `MaxNesting` says how many programs
can interrupt each other on a CPU, and `nested` counts those that did. The poller and the
scrape take snapshots under one lock. The agent restarts and starts from nothing, the kernel
counters go on. The sum over the CPUs is the size of a disjoint union (`Increments`), which
needs no recursion, and decisions are bounded per CPU. The check of the limiter and the
increment of `emitted` are one step; a program that comes between the two could only let more
events into a window, and `RateBounded` excepts the CPUs where programs were nested.

### WorkloadGuard

Containers, their sockets, API endpoints, node-init and two agents (the second after the
first has died). `installGuard` is taken apart into its map writes: peers are added one
by one (both directions of a peer in one step), while clearing the old peers, pruning the host
owners and recording the new ones are one step each, although the code writes key by key. `Passes` is `guard_packet`. Guarantees are stated for every packet at every moment.

### IPBlocks, BlockExpansion and PolicyCompiler

`IPBlocks` has the three loops of the expansion: merging the excluded ranges, sweeping over
the gaps between them, and cutting a gap into aligned pieces. A loop is a function from its
state to the state after one turn, and `Turns` applies it; each loop ends after a number of
turns that is known when it begins (ranges left, holes, addresses of the gap), and turns after
the end change nothing. The sort before the merge is part of it: a turn takes the first range
that is left. `BlockExpansion` calls the whole on any of its inputs, `PolicyCompiler` once per
peer, with one step per policy. The reference definitions are written from the meaning of a
policy: an `ipBlock` is a set of addresses, its smallest cover consists of the largest prefixes
inside that set, a packet is allowed when the pod is not isolated or some valid policy allows
it and none quarantines it.

### SubjectResolver

A build walks the Pods of a view (`Shown` says which views the informer caches may show; the
theorems hold for any). The look at a cached cgroup, the look at each of the two layouts and
the second stat are steps, and scopes are created and removed between them, with inodes that
may be reused; resolving links and the stat within one layout are one step. `seen` records
what existed during the build, `lastOut` and `firstIn` when a container was in a published
snapshot; no action reads them.

`MissingFailsPod` says that a running container that is not published has left a resolution
failure on its Pod. What follows from a failure is the compiler's part (`PolicyCompiler`): a
candidate in which a policy selects the Pod is refused as a whole with a `ResolutionError`,
and the last committed policy stays; a Pod that no policy selects is left alone. The property
has one exception, which the code really has: two containers of a Pod that are found at one
inode, because it changed hands during the build, are one cgroup to the compiler, and the
second is only counted as unresolved (`EveryRunningAccounted`). It stays behind the guard
until the next build. `DelayFromFirstSight` is about the step that publishes: a build
that is refused later may leave first sights of its own behind, which the next one replaces.

## Runs

| Run | Module, configuration | Checks | Bounds |
|---|---|---|---|
| `slots` | `MCPolicySlots`, `PolicySlots.cfg` | invariants, `CommitAdvancesEpoch`, refinement of `PolicyRegister`, `RetiredSlotDrains` | 2 packets, 2 CPUs, 1 entry, 3 commits |
| `links` | `MCDurableLinks`, `DurableLinks.cfg` | `RecoverySucceeds`, `NoLinkForgotten`, `BookkeepingExact` (`JournalExact`) | 2 cgroups |
| `guard` | `MCWorkloadGuard`, `WorkloadGuard.cfg` | `GuardExact` (`UnclassifiedBlocked`, `HostTrafficFlows`, `AgentReachesAPI`), `OwnersKeptWhileAlive` | 1 host container, 1 workload, 2 agents, 2 API servers |
| `agent` | `MCAgent`, `Agent.cfg` | loop: `LoopSafe` (`NoLostWakeup`, `StatusTruthful`), `LoopProgress` (`Converges`, `DebounceBounded`); status: `StatusSafe` (`HeartbeatEndsFirst`), `StatusSound` (`StatusNeverRegresses`, `AcceptedMeansEnforcing`), `AgentEndNoticed` (`EndOfAgentNoticed`); metrics: `MetricsCatchUp` | 2 caches, 2 contents, 1 queued notification; 2 agents, age 2; 1 CPU, 2 decisions, 2 processes |
| `flow` | `MCFlowMonitor`, `FlowMonitor.cfg` | `ReadersSound` (`OneReader`, `NoAbandonedReader`), `ErrTruthful` | 2 callers, 2 runs |
| `flow_events` | `MCFlowEvents`, `FlowEvents.cfg` | counts: `DecisionsCounted` (`EveryDecisionCounted`, `RateBounded`), `PublicationSound` (`PublishedNeverAhead`, `EpochGaugeAdvances`); monitor: `SubscriptionsEndWithRun` | 1 CPU, 3 decisions, 2 nested programs, clock to 2, 1 process; 1 caller, 1 subscriber, 2 runs |
| `flow_live` | `MCFlowMonitor`, `FlowMonitorLive.cfg` | `StopsAndRunsEnd` (`StopCompletes`, `RunEnds`) | 1 caller, 2 runs |
| `flow_stale` | `MCFlowMonitor`, `FlowMonitorStale.cfg` | `StaleProcessorHarmless`: **violated** | 1 caller, 1 subscriber, 2 runs |
| `pins` | `MCPins`, `Pins.cfg` | pins: `PinsAccountable` (`StartSucceeds`, `CleanupRetryable`, `RegistryGrowsByFailedStarts`, `CaptureBeforeGuard`), `PinStepsSound` (`StartLeavesOneGeneration`, `RemovalOnlyRemoves`), `PinsRemovalCompletes`; reader: `ReaderSafe` (`NoUseAfterClose`, `SilentEndMeansStopped`), `StartsAndStopsEnd` (`EndsTogether`, `StopCompletes`) | 1 subject, 2 generations, registry of 8; 2 Starts, 2 Stops |
| `conn` | `MCConnState`, `ConnState.cfg` | `ReplyNeedsOpen`, `EntriesSound` (`ClosedIsShort`) | 2 CPUs, 2 elements, 2 conversations, 2 epochs, clock to 10 |
| `resolver` | `MCSubjectResolver`, `SubjectResolver.cfg` | `PublishedConsistent` (`PathsMatchIdentities`), `SnapshotTruthful` (`PublishedWasLive`, `DelayFromFirstSight`), `RunningAccounted` (`EveryRunningAccounted`, `MissingFailsPod`) | 2 Pods, one with two containers, 4 views, 2 inodes, 2 builds, 2 changes per build |
| `semantics` | `MCSemantics`, `Semantics.cfg` | `CompilerCorrect` (`CompiledMatchesPolicies`, `NoContainerLeftOut`, `CandidateAlwaysValid`); `BlocksExact` (`ExpansionExact`, `RefusedExactly`); `ParserExact` (`ValidIsWhole`, `WellFormedIsValid`); `VerdictsExact` (`VerdictsAsDocumented`, `RepliesPassBothEnds`); `KeysExact` (`LookupMatchesRules`, `CountsCoverEntries`, `RecoveredEqualsCommitted`) | one cluster, pairs of policies; 4-bit addresses, 2 exceptions; 19,044 packets; 2 pods, 6 policies, 3 epochs; 6 rules, 2-bit fields |

A name in front of parentheses is the conjunction of the properties in them, and of the
type invariant of its module where it is an invariant.

Four runs hold several modules: `MCAgent`, `MCFlowEvents`, `MCPins` and `MCSemantics`. They
EXTEND the modules, whose names do not meet (`StatusInit`, `ReaderNext`, `CountsSpec` and the
like are named for this). A variable `part` says which module runs; it is chosen initially and never changes, and the other modules stay in one initial state. Their
states are the sum and not the product of those of the modules: a run of this kind asks one
kind of question of several modules that share no variable, and shows nothing about their
interaction. Safety properties are checked under the names their theorems use; liveness
properties are limited to the part they belong to.

Why the bounds are enough:

- *slots*: the ABA case needs two commits during one packet; two packets on two CPUs let one
  register where the scan has passed. A packet is blocked only after three commits; the third
  is prepared and made while the second packet is idle. The first packet's CPU is fixed, the
  CPUs being interchangeable. One entry tells an empty, a partial and a full slot apart. The
  proofs remove these bounds from everything but `RetiredSlotDrains`.
- *links*: two cgroups let one be committed while the other is attached or removed. Crashes
  and calls are unbounded.
- *agent*: with two caches a change can fall before, between and after the reads, and with
  two of them one queued notification each fills the channel. The cap of the retry delay is
  3 with an interval of 1, so it is reached from 2, which does not divide it. Two agents are
  one that ends and the one that replaces it. The metrics part is bounded by two decisions
  and one clock tick.
- *flow*: two runs are what a stale goroutine needs. `raw` holds one event, enough to tell an
  empty from a non-empty channel.
- *flow_events*: a limit of one event per window is passed by the second decision, and the
  clock reaches the next window; three decisions are one more than two windows allow. Two
  nested programs are one that interrupts and one that is interrupted.
- *pins*: a second generation makes every start after the first an upgrade, and one that
  finds what a failed one left; a registry of 8 is filled to the last record by an upgrade,
  although the code's limit is 1024. Two generations cannot overfill it: that a full registry
  takes several failed starts (`RegistryGrowsByFailedStarts`) is shown only by the theorem
  `PinsAreAccountable`, which holds for any number of generations. Two Stops race with each other and with two Starts.
- *conn*: the refresh interval is below the closing interval and that below the TCP idle time,
  as in the code, and the clock runs past the first idle expiry. All times are even, so that
  a close and a pending refresh do meet in one expiry: without the exception for such ties
  the run fails. Two CPUs are one packet that is delayed and one
  that closes, two elements let one be recycled.
- *guard*: the second agent has another cgroup than the first, which is what the bootstrap
  exception depends on; two API servers let the peers change.
- *semantics*: inputs are enumerated around the boundaries, and the limits of the compiler are
  passed. Protocol and port with all bits set touch the neighbouring fields of a rule key; the
  sets have every two of six rules, and three that are a prefix, the same unmasked and one
  around both.
- *resolver*: one Pod has two containers, so that one inode can serve both in a build; in
  another view a container has stopped, a Pod is terminal or remote, or one container is of
  another runtime. Two builds make a cache entry old; two changes are what it takes to remove a
  scope and make another in its place, or give its inode away.

Symmetry is used for safety only, on cgroups, callers, CPUs, inodes, LRU elements, containers
of one kind and API servers, none of which the models compare.

Deadlock is checked where the system never stops. It is not in `agent`, where a calm cluster
really leaves the loop blocked in its `select`; in `pins`, whose reader's calls all return;
and where a bound on generations, packets, clocks or inputs ends a behaviour.

### Fairness

- `PolicySlots`: weak fairness of each packet's steps. The verifier only accepts programs
  that end and the kernel runs them to the end. Nothing is assumed of the agent.
- `AgentLoop`: handlers run, the process runs, timers fire, and the DaemonSet restarts the
  agent. Objects need not change, calls need not fail or succeed before `calm`, and the
  drain of the debounce is not fair.
- `FlowMonitor`: goroutines and calls that were made go on. No call has to be made, and
  contexts and readers need not end.
- `PinnedReader`: goroutines that were started go on, and a canceled status poll returns.
- `AgentStatus`: the stream polls on its ticker, and time passes. Nothing is assumed of the
  agent, which may stop, hang or die.
- `EnforcementPins`: an operator repeats a cleanup that was interrupted, and a removal that is
  tried again and again is not interrupted for ever (strong fairness of beginning and of each
  removal).
- `DecisionCounts`: packet programs run to the end; the poller's ticker fires and not every
  snapshot fails for ever (strong fairness of its steps; Go's mutex does not starve a
  waiter).

### Findings

`flow_stale`: the comment in `processEvents` (`internal/flow/monitor.go:326`) and the test
`TestMonitorStaleEventProcessorCannotStopNewRun` say that a goroutine left over from an
earlier run must not stop the new one. The check of generation and stop channel is made on
two of the three ways out of `processEvents`; on `<-ctx.Done()` it calls `Stop`
unconditionally. If the monitor was stopped and started again before the old processor was
scheduled, and its context is canceled, its `select` has two ready cases and may take the
wrong one. The `flows` command starts each monitor once, so it does not meet this.

The model shows a relative of it that nothing in the repository rules out: `Stop` calls
`reader.Stop()` after releasing the lock, so a slow `Stop` can close the ring buffer of the
run started next.

Two more observations have no run of their own.

A refresh in `ConnState` replaces the expiry it has read by compare-and-swap, which tells
values apart and not transitions. If a close stores an expiry that equals the old idle expiry
to the nanosecond, a refresh that was under way succeeds, and the closed connection lives for
the idle time. `bpf/engine.c:780` says that such a transition is never overwritten,
`docs/policies.md:66` that the closing interval cannot be extended. `ClosedIsShort` therefore
excepts the entries in `tied`: those that a close gave the very expiry that a refresh, already
past its second look at the FIN bits, had read. Run `conn` reaches such states (an entry opened
with a FIN, the second FIN on one CPU while another, which read the clock later, refreshes),
and without the exception TLC finds the property violated. In practice a coincidence is very
unlikely.

The comment at `bpf/engine.c:496` gives the reason why a plain increment of a per-CPU counter
is enough: programs do not migrate. They can be interrupted, though, by a softirq that runs a
packet program on the same CPU, and then one increment overwrites the other. This is why
`EveryDecisionCounted` excuses the decisions of nested programs, and why `RateBounded` and
`PublishedNeverAhead` are stated for CPUs without any: the interrupted program also restarts
the limiter's window with its older time, and `counterDelta` takes a counter that went back
for one that was reset. The `in_flight` counters are changed atomically and are not affected.

## Proofs

TLC explores the instances of the table above; the theorems hold for every value of the
constants that satisfies the assumptions named below. In each proof module `IInv`, or `...Inv`
with the name of its component where a module has several (`LoopInv`, `StatusInv`, `PinsInv`,
`ReaderInv`, `CountsInv`, `MonitorInv`, `ParserInv`, `VerdictInv`, `KeysInv`, `BlocksInv`,
`CompilerInv`, `ResolverInv`), is the inductive invariant, a conjunction of named parts; lemmas show for each action that it
preserves it, and the theorems follow from `Spec => []IInv`.

| Module | Theorem | Property of the runs | Assumed of the constants |
|---|---|---|---|
| `PolicySlotsProofs` | `TypeCorrect`, `CountersAreExact`, `ActivePolicyStaysIntact`, `EngineMatchesKernel`, `PacketsReadCommittedPolicies` | the invariants of run `slots` | `PacketsFinite`, `CPUsNonEmpty`, `MaxEpochNat` |
| | `CommitsAdvanceEpoch` | `CommitAdvancesEpoch` | |
| | `Refinement` | `ImplementsPolicyRegister` | |
| `DurableLinksProofs` | `RecoveryAlwaysSucceeds`, `NoLinkIsForgotten`, `BookkeepingIsExact` | `RecoverySucceeds`, `NoLinkForgotten`, `BookkeepingExact` | `Nobody` is no cgroup |
| `AgentProofs` | `LoopIsSafe` | `LoopSafe` | at least one cache; retry interval and maximum in order |
| | `StatusStaysSafe`, `StatusIsSound` | `StatusSafe`, `StatusSound` | `Bounds`: `MaxAge` and `MaxAgents` are numbers |
| `PinsProofs` | `PinsAreAccountable` | `PinsAccountable` | finitely many subjects, none named like a guard link; `MaxGen` and `RegistryMax` are numbers; `None` is no program |
| | `PinStepsAreSound` | `PinStepsSound` | |
| | `ReaderIsSafe` | `ReaderSafe` | `NoStartAssumption`: `NoStart` is no Start |
| `FlowEventsProofs` | `CountedForAnyLoad`, `PublicationForAnyLoad` | `DecisionsCounted`, `PublicationSound` | finitely many CPUs; limit, window and bounds are numbers |
| | `ReadersAreSound`, `ErrIsTruthful`, `SubscriptionsEnd` | `ReadersSound`, `ErrTruthful`, `SubscriptionsEndWithRun` | callers are no runs, `MaxRuns` is a number |
| `SubjectResolverProofs` | `PublishedConsistentAlways`, `SnapshotTruthfulAlways`, `RunningAccountedAlways` | `PublishedConsistent`, `SnapshotTruthful`, `RunningAccounted` | finitely many containers, numbered, each of one Pod; some QoS class |
| `PacketProofs` | `GuardIsExact`, `OwnersAreKept` | `GuardExact`, `OwnersKeptWhileAlive` | host containers are neither workloads nor agents, `None` is no container |
| | `ParserExactAlways` | `ParserExact` | `SkbAssumption`: lengths are numbers, the header length has four bits |
| | `VerdictsExactAlways` | `VerdictsExact` | `VerdictAssumption`: rules have four fields, packets are parsed |
| | `KeysExactAlways` | `KeysExact` | `KeysAssumption`: policies are sets of rules within the limit, protocols fit their field; `PowersOfTwo` |
| | `BlocksExactAlways` | `BlocksExact` | `BlocksAssumption`: ipBlocks consist of prefixes; `PowerLaws`; width and limit are numbers |
| | `CompilerCorrectAlways` | `CompilerCorrect` | `InputAssumption`, `PoliciesAssumption`, `LimitsAssumption` (see below); `PowerLaws` |
| `ConnStateProofs` | `RepliesNeedOpen`, `EntriesStaySound` | `ReplyNeedsOpen`, `EntriesSound` | shapes of packets, times and elements |

The bounds of the models (`MaxEpoch`, `MaxRuns`, `MaxAgents`, ...) remain as parameters, so a
theorem covers every finite number of commits, runs or agents.

### PolicySlots

CPUs and entries need not be finite, so the proofs do not rest on how many cells a scan reads.

The invariant one wants, `PacketReadsCommittedPolicy`, is not inductive: it says nothing of
a packet that has re-read the pointer and not yet compared. `IInv` adds:

- `HeldSlotsProtected`: a packet whose second read of the pointer agreed with its slot holds
  the active slot, or the one retired by the very last commit. In the second case that slot
  is still whole and the agent is kept off it: it is gone, or idle with the slot pending, or
  in a wait that has not passed the packet's CPU. `CountersExact` carries this through the
  scan: the packet's registration keeps its cell above zero, so the scan cannot pass it.
- `LookupsChecked`: a packet that looks up has compared the epoch, which rules out the slot
  having been reused in between.
- `EpochsNotBeforeBirth`: needed for the refinement, where a packet must be judged by a
  policy that was current during its lifetime.
- `AgentInv`: what `Apply` knows at each step, for example that the inactive slot is only
  written when nothing is pending.

The proof has one lemma for packet steps, one for agent steps, one each for `ApplyStart`,
`Recover` and `Crash`, with a step per action. `CountUp` and `CountDown` relate a counter
cell to the cardinality of its readers.

### DurableLinks

`RecoverySucceeds` is `Recoverable`, the checks of a restart, at every step of `Apply`. To keep
it one has to know how far each multi-step operation has come: `AttachJob` and `NewPairs` for
`attachPersistent` (the record before the pin, egress before ingress, the identity after the
pin), `RemoveJob` for `durableLinkPair.Remove`, whose pair is never one of a committed subject.
`Known` accounts for every pinned link by one of the sets the engine keeps, which is what
`NoLinkForgotten` becomes between two steps; `Memory` ties those sets to the kernel's, `Todo`
says what a loop has still to visit and `Journal` which records pruning has still to find.
`CandidateSlot` has the inactive slot, because a commit makes it the one that recovery reads.

### AgentLoop

`NoLostWakeup` speaks of a loop that waits. While a pass runs, `ReadIsCurrent` says that a
cache which changed after the pass read it has left a token or a queued notification: the
channel is drained before the first lister runs and never after it. `CommitIsCurrent` carries
the same over the commit, and `Phases` relates the step of the loop to what it has read.

### AgentStatus and PinnedReader

The record is written from a snapshot taken under `statusMu`. `Mutex` and `Held` say that the
holder's snapshot is what the process is and is not older than what is published, so a write
cannot go back; `Published` that the record never runs ahead of the process. For the poll,
`Truthful` follows each copy of the record, the one in the map, the snapshots and the one the
poll has read: a record that says *enforcing* is never younger than the last moment at which
its agent did enforce. `StatusIsSound` is about steps: it follows from `StatusInv` before and after.

`PinnedReader` needs `OneStart` (the mutex lets one Start in, and none after a Stop),
`StopsWait` (a Stop waits for the Start it found), `Goroutines` (they live while their Start
waits for them), `RingOwned` and `Causes`, which remembers why a goroutine has ended until
`joinPinnedFlowReaderErrors` puts the reasons together.

### EnforcementPins

That a start or a cleanup accepts what it finds is a statement about idle moments; `PinsInv`
says at every write what may be left behind there. `PinsRegistered` is the core: a link runs a
pinned program and a pinned program is registered, which fixes the order of every write
(record, pin, link; link, pin, record). `MapsFirst` does the same for the maps, and says that
no agent lives while a removal is under way. A retirement is only safe because it never meets
the own generation: `GenerationsKnown` says that what a start has found is older. `Publication`,
`LinksMoved`, `GuardKept` and `Found` follow the four lists a start works through, so that its
end leaves the own generation, what links of dead cgroups run, and nothing else.

The bound on the registry is a count. `RegistryBounded` counts the programs of other
generations than the one being published: a step of a start adds none (`FewerPrograms`), a
start that dies turns its own four into others (`OneGenerationMore`), and one that completes
leaves its own and at most one per subject (`CompleteIsSmall`). With the generation under way
this gives `RegistryGrowsByFailedStarts`.

### DecisionCounts

A counter that interrupted programs overwrite has no exact value, so the invariant has bounds.
`CountBounded` puts the counter of a CPU, and what every program in the middle of an increment
has loaded from it, between two numbers: at least the decisions of programs that interrupted no
other (`Due`), at most those that have been stored at all. An outer program that stores a stale
value writes one that is itself within the bounds, which is why the loaded values are part of
the invariant. The lower bound is `EveryDecisionCounted`, the upper one that nothing is counted
twice. `Uninterrupted` makes both exact on a CPU without nesting.

`RateBounded` is about any interval of a second, the limiter about windows it opens itself.
`Windows` bounds the events in the window under way by the limiter's count, and those of any
interval that ends where it begins by one window's limit: windows are at least a second apart,
so an interval meets two of them at most. `PublicationOrdered` has the snapshots, the published
counters and the kernel's in order while the lock is held, and `SumMonotone` that a sum read
CPU by CPU cannot run ahead of the one it is compared with.

### FlowMonitor

`OneReader` rests on `OnlyLastReader`: Start waits for the reader of the run before, so only the
last run's may be at work. `NoAbandonedReader` needs to know who can still reach a reader's
cancel function: the monitor while it runs (`Cancelable`, `CancelsBegun`), a Stop that has taken
it, or nobody, because it has been called. `ErrTruthful` needs the converse: nobody cancels
the run in force (`NotCanceled`), so an error in it is a failure (`Results`, `Returned`,
`Recorded`). `Generations` and `Places` tie run numbers, stop channels and goroutines together.

### SubjectResolver

The properties are about what is published at the end of a build, the invariant about what the
build has collected so far. `CollectedLive` says that each cgroup existed with its inode at some
moment of the build: `seen` has all that exists when it begins and all that comes into being
later. `CollectedBacked` ties what was collected to the cache. It is the part that could fail,
because later Pods change the cache: a path determines the only key it can be kept under
(`KeyOf`), a container its Pod, and a build never returns to a container it has handled.
`MissingCounted` and `FailureNoted` say for each container already looked at that it was
collected, was counted, or lost its inode to another during the build, which is
`RunningAccounted` once all have been looked at. `SightsOrdered` keeps the first sights between
the last build without the container and the first one with it.

### WorkloadGuard

The properties speak of every packet between any two writes of `installGuard`. The invariant
says which writes have been made: `PeersOfRecord`, `LinksInOrder` and `SocketsCaptured` (a
socket that a directional guard sees was created after the capture). `BootstrapIsSelf` is the
step one would miss: between two agents the configuration exempts the container of the last
one, which is harmless only because that container is dead and its cgroup does not come back.

### PacketParser and PacketDecision

The parser has one step, so `ParserInv` is immediate, and the theorem is arithmetic on lengths:
`ValidWhole` and `WellFormedValid` are the two directions.

For the verdict the model remembers in `granted` which conversations rules have opened under
the policy of the moment. `GrantedHaveState` and `StateIsGranted` say that these are exactly the
entries of this epoch: `ReplyKey` and `KeptFor` are inverse to each other
(`KeptForReplyKey`, `ReplyKeyKeptFor`), and both hooks of a pod look for the same key
(`KeyOfConversation`). Entries of earlier epochs stay in the map; `KeysWellFormed` says that
none is newer than the policy, so a commit makes all of them unreachable at once. The proof
needs that a packet's form is one of the parser's results (`VerdictAssumption`): the reason of a
refused packet is its form, and a form named like a reason to allow would let it pass.

### RuleKeys

The arithmetic comes first. `Quotient` is division with remainder, `MetaFields` reads every
field back out of the packed word whatever the widths, `Masking` and `NodeIsKey` make two keys
of rules one node of the trie only if they are equal. `PowersOfTwo` states the laws of
exponents that the provers do not know, for the widths at hand; it is no restriction.

`SlotsFilled` is the invariant proper: a slot holds keys of its policy only and no more than
its count, and a whole slot holds all of them. `WorkListed` accounts for a slot at work (what
is there and what is on the list are the policy's keys), so that the flip makes it whole.
A slot is only filled when its count is zero, and since the count covers the entries it is empty
then, also after a failed clear, a failed fill or a restart in the middle of either.

### IPBlocks

A recursive definition needs an induction, and the induction theorems of the library take an
operator, which the provers cannot instantiate. What they can use is that a set of natural
numbers has a least element (`Least`, from the well-foundedness of `<`). `SetInduction` states
induction for a set instead of a predicate, and `Iteration` turns it into a rule for loops: a set
of pairs of turn number and state that holds the initial pair and is closed under a turn holds
the pair in which the loop ends. The three loops have these invariants:

- `Tiling`, for the pieces of a range: in order, covering all that has been passed, and each
  the largest prefix inside the range. That a piece cannot be larger is the arithmetic of
  `PieceFits` and `Nested` (two prefixes that meet are nested); the part one would miss is that
  no prefix inside the range reaches across the next address to be cut, so that maximality
  survives what comes later.
- `Holes`, for the merged ranges: in order, with an address between any two. Touching ranges
  have to be merged for this, and it is what makes the piece at the edge of a gap maximal.
- `Swept`, for the gaps: the pieces so far cover the free addresses below the cursor, and each
  is the largest one among all free addresses, not only in its gap.

`SweptExact` concludes that the pieces are `Maximal` of the wanted addresses, and `PiecesCounted`
that there are no duplicates, so that the limit is compared with the size of the smallest
cover. `ExceptInside` is the refusal of an except outside the CIDR. `PowerLaws` states what the
provers do not know of powers of two, for exponents up to the width; it is no restriction.

### PolicyCompiler

The compiler walks a list, and the result must not depend on its order. `CompilerInv` therefore
says what has been compiled in terms of the set of policies already taken: the subjects are
`SubjectsAfter` that set, the rules `RulesAfter` it, the bypasses those of its subjects. One more
policy adds to each what it demands alone (`SubjectsStep`, `PolicyStep`). `DirectionsRestrict`
ties the directions that the code reads off a policy to those it restricts by its meaning,
`Resolved` gives a peer the addresses it stands for and rests on `ExpansionsExact`, which is the
result about `IPBlocks` above. `CandidateValid` needs the counts: finitely many rules, and each
subject's bypasses counted once, when it is new (`BypassesOf`). The assumptions describe the
input: `InputAssumption` a snapshot with finitely many pods, addresses and cgroups,
`PoliciesAssumption` policies as decoded, `LimitsAssumption` limits that are numbers. Nothing is
assumed of the policies being valid, which the compiler decides itself.

### ConnState

`EntriesOpened`, `WritersOpened` and `RepliesOpened` follow the permission of a rule from the
packet it allowed into the entry and from there into a reply; `SameConnection` says what equal
reply keys mean for two packets.

`EntriesSound` needs a second invariant, `Closing`: a CPU about to set the closing interval
handles a packet that was read before the close (`ClosersBefore`, also for an element that has
been recycled in between), and a refresh that began earlier meets another expiry than the one
it has read, unless the entry is in `tied` (`SwapsFail`). The exception is needed: a
compare-and-swap does not see that the expiry was replaced by an equal one. `Close` puts an
entry into `tied` exactly when a refresh about to compare has read the number that it writes,
and not for refreshes that merely overlap a close; the next use of the element takes it out.
No hypothesis on the intervals would do instead, since none excludes a tie on a clock of
nanoseconds.

### How far the proofs go

Actions that change several fields of one element write `![x] = [@ EXCEPT !.a = ..., !.b =
...]`, or use a named operator where an `@` would stand inside another (`OneMore`, `WithDrops`
of `DecisionCounts`). The equivalent `![x].a = ..., ![x].b = ...` and nested `@` are not
translated reliably for the provers: from them `FALSE` could be derived. For the same reason
every action was tried with the goal `FALSE` under the inductive invariant and all definitions;
none has a proof.

Only model-checked:

- liveness (`RetiredSlotDrains`, `LoopProgress`, `AgentEndNoticed`, `MetricsCatchUp`,
  `StopsAndRunsEnd`, `PinsRemovalCompletes`, `StartsAndStopsEnd`): fairness and `ENABLED` are
  out of the prover's reach.

Every other property of the passing runs is the subject of a theorem.

## Not modelled

- `engine_bpfeb.go` and `engine_bpfel.go`, 43,850 of some 61,000 lines of implementation, are
  generated from `bpf/engine.c` by bpf2go: object code as byte arrays. The models are of
  `engine.c`.
- Flag parsing, preflight probes, HTTP, logging, YAML decoding and printing are I/O or
  conversions without state.
- The lock files: `flock` is one call of the kernel, and the checks on the path are about who
  may touch it. One agent or cleanup per node is assumed.
- Byte layouts other than the rule keys, where every part has a field of its own.
- Tools under `tools/` and `internal/restartproof` measure and validate evidence and are not
  part of the running system.
- The kernel's own guarantees (atomic map updates, the order of attached programs, programs
  that do not migrate, LRU recycling) are taken from how the code uses them.

## Plan

Every safety property that a passing run checks is proved. What is left:

1. The liveness properties, with a prover that knows fairness.
2. Lock files and the bootstrap of a node, should they get state of their own.
