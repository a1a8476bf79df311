---------------------------- MODULE PolicySlots -----------------------------
(***************************************************************************)
(* The two-slot policy store that the node agent rewrites while packet     *)
(* programs on every CPU are reading it.                                   *)
(*                                                                         *)
(* Kernel side: the outer map active_config points at one of two pinned    *)
(* inner maps, configuration_0 and configuration_1; inner map s holds slot *)
(* s and the policy epoch.  A packet loads the pointer, then the record,   *)
(* registers itself in the per-CPU in_flight counter of that slot, reads   *)
(* the pointer and the record again, and only uses the slot's entries if   *)
(* both reads agree (enforce_packet and guard_packet of bpf/engine.c).     *)
(*                                                                         *)
(* Agent side: engineCore.Apply clears and fills the inactive slot,        *)
(* publishes it with one pointer swap, waits for the readers of the        *)
(* retired slot and clears it.  Every store call may fail, and the process *)
(* may die between any two kernel writes; the maps are pinned and survive. *)
(*                                                                         *)
(* Attaching the links of the candidate's cgroups is one step here that    *)
(* succeeds or fails.                                                      *)
(***************************************************************************)
EXTENDS Naturals, FiniteSets

CONSTANTS
  Packets,   \* invocations of a packet program that may run at once
  CPUs,      \* CPUs, each with its own in_flight cell
  Entries,   \* entries of the slot's maps; a policy set is a set of them
  MaxEpoch   \* the largest policy epoch (math.MaxUint64 in the code)

ASSUME PacketsFinite == IsFiniteSet(Packets)
ASSUME CPUsNonEmpty == CPUs # {}
ASSUME MaxEpochNat == MaxEpoch \in Nat

Slots == {0, 1}
NoSlot == 2          \* pendingCleanup == nil
Attempts == 3        \* registration attempts of one packet
Epochs == 0..MaxEpoch

VARIABLES
  \* pinned kernel maps: they outlive the agent
  activeConfig,   \* the slot whose inner map active_config points at
  configuration,  \* configuration[s]: policy_epoch in the inner map of slot s
  slotData,       \* slotData[s]: the entries keyed by slot s
  inFlight,       \* inFlight[c][s]: the in_flight cell of slot s on CPU c
  \* packet programs
  pktPc, cpu, attempt, ptr, slot, epoch,
  \* the agent's memory
  agentPc,        \* where Apply is; "idle" between calls, "down" without a process
  why,            \* the purpose of the wait or the clearing under way
  memSlot, memEpoch,      \* engineCore.active
  applied, hasApplied,    \* engineCore.applied, engineCore.hasApplied
  pending,                \* engineCore.pendingCleanup
  desired,                \* the candidate of the Apply call
  scanned,                \* CPUs whose cell this pass of WaitQuiescent read as zero
  \* history, read by no action
  committed,      \* committed[e]: the policy set published at epoch e
  birth           \* birth[p]: the epoch in force when packet p started

kernelVars == <<activeConfig, configuration, slotData, committed>>
packetVars == <<inFlight, pktPc, cpu, attempt, ptr, slot, epoch, birth>>
memoryVars == <<memSlot, memEpoch, applied, hasApplied>>
agentVars == <<agentPc, why, memSlot, memEpoch, applied, hasApplied, pending,
               desired, scanned>>
vars == <<kernelVars, packetVars, agentVars>>

Other(s) == 1 - s
ActiveEpoch == configuration[activeConfig]

Init ==
  /\ activeConfig = 0
  /\ configuration = [s \in Slots |-> 0]
  /\ slotData = [s \in Slots |-> {}]
  /\ inFlight = [c \in CPUs |-> [s \in Slots |-> 0]]
  /\ pktPc = [p \in Packets |-> "idle"]
  /\ cpu \in [Packets -> CPUs]
  /\ attempt = [p \in Packets |-> 0]
  /\ ptr = [p \in Packets |-> 0]
  /\ slot = [p \in Packets |-> 0]
  /\ epoch = [p \in Packets |-> 0]
  /\ agentPc = "down" /\ why = "none"
  /\ memSlot = 0 /\ memEpoch = 0
  /\ applied = {} /\ hasApplied = FALSE
  /\ pending = NoSlot
  /\ desired = {} /\ scanned = {}
  /\ committed = [e \in Epochs |-> {}]
  /\ birth = [p \in Packets |-> 0]

-----------------------------------------------------------------------------
(* Packet programs.  A program never migrates, so cpu[p] is fixed for a    *)
(* packet's lifetime.                                                      *)

Goto(p, from, to) ==
  /\ pktPc[p] = from
  /\ pktPc' = [pktPc EXCEPT ![p] = to]

Enter(p) == inFlight' = [inFlight EXCEPT ![cpu[p]][slot[p]] = @ + 1]
Exit(p) == inFlight' = [inFlight EXCEPT ![cpu[p]][slot[p]] = @ - 1]

Forget(p) ==
  /\ attempt' = [attempt EXCEPT ![p] = 0]
  /\ ptr' = [ptr EXCEPT ![p] = 0]
  /\ slot' = [slot EXCEPT ![p] = 0]
  /\ epoch' = [epoch EXCEPT ![p] = 0]
  /\ birth' = [birth EXCEPT ![p] = 0]

PacketStart(p) ==
  /\ Goto(p, "idle", "read")
  /\ birth' = [birth EXCEPT ![p] = ActiveEpoch]
  /\ UNCHANGED <<kernelVars, agentVars, inFlight, cpu, attempt, ptr, slot, epoch>>

\* current_config, first lookup: the pointer to the active inner map.
ReadConfig(p) ==
  /\ Goto(p, "read", "load")
  /\ ptr' = [ptr EXCEPT ![p] = activeConfig]
  /\ UNCHANGED <<kernelVars, agentVars, inFlight, cpu, attempt, slot, epoch, birth>>

\* The fields are read through that pointer, which may be retired by now, and
\* whose map the agent may be rewriting for the next commit.
LoadConfig(p) ==
  /\ Goto(p, "load", "enter")
  /\ slot' = [slot EXCEPT ![p] = ptr[p]]
  /\ epoch' = [epoch EXCEPT ![p] = configuration[ptr[p]]]
  /\ UNCHANGED <<kernelVars, agentVars, inFlight, cpu, attempt, ptr, birth>>

Register(p) ==
  /\ Goto(p, "enter", "reread")
  /\ Enter(p)
  /\ UNCHANGED <<kernelVars, agentVars, cpu, attempt, ptr, slot, epoch, birth>>

RereadConfig(p) ==
  /\ Goto(p, "reread", "check")
  /\ ptr' = [ptr EXCEPT ![p] = activeConfig]
  /\ UNCHANGED <<kernelVars, agentVars, inFlight, cpu, attempt, slot, epoch, birth>>

\* Mutant: the epoch is not compared, so two quick commits look like none.
SameSlotOnly(p) == ptr[p] = slot[p]

SameConfig(p) == ptr[p] = slot[p] /\ configuration[ptr[p]] = epoch[p]

CheckConfig(p) ==
  /\ Goto(p, "check", IF SameConfig(p) THEN "lookup" ELSE "undo")
  /\ UNCHANGED <<kernelVars, agentVars, inFlight, cpu, attempt, ptr, slot, epoch, birth>>

\* Mutant: one attempt too many.
UndoAndRetryOnceMore(p) ==
  /\ attempt[p] + 1 <= Attempts
  /\ Goto(p, "undo", "read")
  /\ Exit(p)
  /\ attempt' = [attempt EXCEPT ![p] = @ + 1]
  /\ UNCHANGED <<kernelVars, agentVars, cpu, ptr, slot, epoch, birth>>

\* Mutant: the retry forgets to take the registration back.
UndoAndRetryLeaks(p) ==
  /\ attempt[p] + 1 < Attempts
  /\ Goto(p, "undo", "read")
  /\ attempt' = [attempt EXCEPT ![p] = @ + 1]
  /\ UNCHANGED <<kernelVars, agentVars, inFlight, cpu, ptr, slot, epoch, birth>>

\* The config changed under the packet: take the registration back and retry;
\* after the last attempt the packet is blocked (REASON_CONFIG).
UndoAndRetry(p) ==
  /\ attempt[p] + 1 < Attempts
  /\ Goto(p, "undo", "read")
  /\ Exit(p)
  /\ attempt' = [attempt EXCEPT ![p] = @ + 1]
  /\ UNCHANGED <<kernelVars, agentVars, cpu, ptr, slot, epoch, birth>>

\* Mutant: the blocked packet leaves its registration behind.
UndoAndBlockLeaks(p) ==
  /\ attempt[p] + 1 = Attempts
  /\ Goto(p, "undo", "idle")
  /\ Forget(p)
  /\ UNCHANGED <<kernelVars, agentVars, inFlight, cpu>>

UndoAndBlock(p) ==
  /\ attempt[p] + 1 = Attempts
  /\ Goto(p, "undo", "idle")
  /\ Exit(p)
  /\ Forget(p)
  /\ UNCHANGED <<kernelVars, agentVars, cpu>>

\* The slot's entries are looked up for as long as pktPc[p] is "lookup"; every
\* return path then takes the registration back.
Decide(p) ==
  /\ Goto(p, "lookup", "idle")
  /\ Exit(p)
  /\ Forget(p)
  /\ UNCHANGED <<kernelVars, agentVars, cpu>>

PacketStep(p) ==
  \/ ReadConfig(p) \/ LoadConfig(p) \/ Register(p) \/ RereadConfig(p)
  \/ CheckConfig(p) \/ UndoAndRetry(p) \/ UndoAndBlock(p) \/ Decide(p)

-----------------------------------------------------------------------------
(* The agent.                                                              *)

\* Mutant: a recovered engine takes the inactive slot to be free of readers.
RecoverWithoutPending ==
  /\ agentPc = "down"
  /\ agentPc' = "idle"
  /\ memSlot' = activeConfig
  /\ memEpoch' = ActiveEpoch
  /\ applied' = slotData[activeConfig]
  /\ hasApplied' = (ActiveEpoch # 0)
  /\ pending' = NoSlot
  /\ UNCHANGED <<kernelVars, packetVars, why, desired, scanned>>

\* NewLinuxEngine on the pinned maps: recoverActiveConfig,
\* recoverPolicySlots, engineCore.recover.  The inactive slot may be partly
\* filled and may have readers, so it is always left pending.
Recover ==
  /\ agentPc = "down"
  /\ agentPc' = "idle"
  /\ memSlot' = activeConfig
  /\ memEpoch' = ActiveEpoch
  /\ applied' = slotData[activeConfig]
  /\ hasApplied' = (ActiveEpoch # 0)
  /\ pending' = Other(activeConfig)
  /\ UNCHANGED <<kernelVars, packetVars, why, desired, scanned>>

\* The process dies, or Close releases its handles: the pins stay.
Crash ==
  /\ agentPc # "down"
  /\ agentPc' = "down" /\ why' = "none"
  /\ memSlot' = 0 /\ memEpoch' = 0
  /\ applied' = {} /\ hasApplied' = FALSE
  /\ pending' = NoSlot
  /\ desired' = {} /\ scanned' = {}
  /\ UNCHANGED <<kernelVars, packetVars>>

Return == agentPc' = "idle" /\ why' = "none" /\ desired' = {} /\ scanned' = {}

Begin(step, purpose) == agentPc' = step /\ why' = purpose /\ scanned' = {}

Unchanged == hasApplied /\ applied = desired

\* Apply up to its first store call: a pending slot is reclaimed before the
\* candidate is looked at.
ApplyStart(policy) ==
  /\ agentPc = "idle"
  /\ desired' = policy
  /\ IF pending = NoSlot THEN Begin("compare", "none") ELSE Begin("wait", "reclaim")
  /\ UNCHANGED <<kernelVars, packetVars, memoryVars, pending>>

\* The candidate equals what is committed: nothing is written.
ApplyNoop ==
  /\ agentPc = "compare" /\ Unchanged
  /\ Return
  /\ UNCHANGED <<kernelVars, packetVars, memoryVars, pending>>

\* Apply gives up before it touches the inactive slot: a link left over from
\* an earlier call cannot be removed, the context is cancelled, or the policy
\* epoch is exhausted.
ApplyRefused ==
  /\ agentPc = "compare"
  /\ Return
  /\ UNCHANGED <<kernelVars, packetVars, memoryVars, pending>>

ApplyChanged ==
  /\ agentPc = "compare" /\ ~Unchanged
  /\ memEpoch < MaxEpoch
  /\ Begin("clear", "prepare")
  /\ UNCHANGED <<kernelVars, packetVars, memoryVars, pending, desired>>

\* WaitQuiescent reads the per-CPU cells one after the other; a busy cell
\* means another pass.
ScanCell(c) ==
  /\ agentPc = "wait" /\ c \notin scanned
  /\ scanned' = IF inFlight[c][Other(memSlot)] = 0 THEN scanned \cup {c} ELSE {}
  /\ UNCHANGED <<kernelVars, packetVars, memoryVars, agentPc, why, pending, desired>>

Quiesced ==
  /\ agentPc = "wait" /\ scanned = CPUs
  /\ agentPc' = "clear" /\ scanned' = {}
  /\ UNCHANGED <<kernelVars, packetVars, memoryVars, why, pending, desired>>

\* A slot that could not be reclaimed stays pending; one that could not be
\* emptied for another reason becomes pending.
KeepPending == pending' = IF why = "reclaim" THEN pending ELSE Other(memSlot)

\* The wait times out or the counters cannot be read.
WaitFails ==
  /\ agentPc = "wait"
  /\ KeepPending
  /\ Return
  /\ UNCHANGED <<kernelVars, packetVars, memoryVars>>

\* ClearSlot deletes the slot's keys one by one.
ClearEntry(e) ==
  /\ agentPc = "clear"
  /\ e \in slotData[Other(memSlot)]
  /\ slotData' = [slotData EXCEPT ![Other(memSlot)] = @ \ {e}]
  /\ UNCHANGED <<activeConfig, configuration, committed, packetVars, agentVars>>

ClearFails ==
  /\ agentPc = "clear"
  /\ KeepPending
  /\ Return
  /\ UNCHANGED <<kernelVars, packetVars, memoryVars>>

\* The slot is empty: go on as the caller of ClearSlot does.  A context that is
\* cancelled before the candidate is written leaves the slot empty.
ClearDone ==
  /\ agentPc = "clear" /\ slotData[Other(memSlot)] = {}
  /\ \/ why = "reclaim" /\ Begin("compare", "none") /\ pending' = NoSlot /\ UNCHANGED desired
     \/ why = "prepare" /\ Begin("populate", "none") /\ UNCHANGED <<pending, desired>>
     \/ why \in {"prepare", "rollback"} /\ Return /\ UNCHANGED pending
     \/ why = "retire" /\ Return /\ pending' = NoSlot
  /\ UNCHANGED <<kernelVars, packetVars, memoryVars>>

PopulateEntry(e) ==
  /\ agentPc = "populate"
  /\ e \in desired \ slotData[Other(memSlot)]
  /\ slotData' = [slotData EXCEPT ![Other(memSlot)] = @ \cup {e}]
  /\ UNCHANGED <<activeConfig, configuration, committed, packetVars, agentVars>>

\* Mutant: an entry that could not be written is overlooked.
PopulateDoneEarly ==
  /\ agentPc = "populate"
  /\ Begin("attach", "none")
  /\ UNCHANGED <<kernelVars, packetVars, memoryVars, pending, desired>>

PopulateDone ==
  /\ agentPc = "populate" /\ slotData[Other(memSlot)] = desired
  /\ Begin("attach", "none")
  /\ UNCHANGED <<kernelVars, packetVars, memoryVars, pending, desired>>

AttachDone ==
  /\ agentPc = "attach"
  /\ Begin("write", "none")
  /\ UNCHANGED <<kernelVars, packetVars, memoryVars, pending, desired>>

\* Mutant: the candidate reuses the epoch in force.
FlipWriteSameEpoch ==
  /\ agentPc = "write"
  /\ configuration' = [configuration EXCEPT ![Other(memSlot)] = memEpoch]
  /\ Begin("publish", "none")
  /\ UNCHANGED <<activeConfig, slotData, committed, packetVars, memoryVars, pending, desired>>

\* Flip, first half: the candidate's inner map, which nothing points at.
FlipWrite ==
  /\ agentPc = "write"
  /\ configuration' = [configuration EXCEPT ![Other(memSlot)] = memEpoch + 1]
  /\ Begin("publish", "none")
  /\ UNCHANGED <<activeConfig, slotData, committed, packetVars, memoryVars, pending, desired>>

\* Mutant: the cache of what is committed is not refreshed.
FlipPublishStaleCache ==
  /\ agentPc = "publish"
  /\ activeConfig' = Other(memSlot)
  /\ committed' = [committed EXCEPT ![memEpoch + 1] = desired]
  /\ memSlot' = Other(memSlot) /\ memEpoch' = memEpoch + 1
  /\ hasApplied' = TRUE
  /\ Begin("wait", "retire")
  /\ UNCHANGED <<configuration, slotData, packetVars, applied, pending, desired>>

\* Flip, second half: the pointer swap that commits; then the engine adopts
\* the candidate and starts retiring the old slot.
FlipPublish ==
  /\ agentPc = "publish"
  /\ activeConfig' = Other(memSlot)
  /\ committed' = [committed EXCEPT ![memEpoch + 1] = desired]
  /\ memSlot' = Other(memSlot) /\ memEpoch' = memEpoch + 1
  /\ applied' = desired /\ hasApplied' = TRUE
  /\ Begin("wait", "retire")
  /\ UNCHANGED <<configuration, slotData, packetVars, pending, desired>>

\* PopulateSlot, Attach, either half of Flip, or a cancelled context: the
\* candidate is rolled back, without a wait, since no packet could use it.
CandidateFails ==
  /\ agentPc \in {"populate", "attach", "write", "publish"}
  /\ Begin("clear", "rollback")
  /\ UNCHANGED <<kernelVars, packetVars, memoryVars, pending, desired>>

AgentStep ==
  \/ ApplyNoop \/ ApplyRefused \/ ApplyChanged
  \/ (\E c \in CPUs : ScanCell(c)) \/ Quiesced \/ WaitFails
  \/ (\E e \in Entries : ClearEntry(e)) \/ ClearFails \/ ClearDone
  \/ (\E e \in Entries : PopulateEntry(e)) \/ PopulateDone
  \/ AttachDone \/ FlipWrite \/ FlipPublish \/ CandidateFails

Next ==
  \/ \E p \in Packets : PacketStart(p) \/ PacketStep(p)
  \/ \E policy \in SUBSET Entries : ApplyStart(policy)
  \/ AgentStep
  \/ Recover
  \/ Crash

Spec == Init /\ [][Next]_vars

\* A packet program runs to completion: the verifier rejects one that may
\* not, and the kernel never abandons one.  Nothing is assumed of the agent.
FairSpec == Spec /\ \A p \in Packets : WF_vars(PacketStep(p))
-----------------------------------------------------------------------------
(* Properties.                                                             *)

Registered(c, s) ==
  {p \in Packets : /\ pktPc[p] \in {"reread", "check", "lookup", "undo"}
                   /\ cpu[p] = c /\ slot[p] = s}

\* Every variable has its type; in particular no counter cell goes below zero
\* and no packet makes more than three attempts.
TypeOK ==
  /\ activeConfig \in Slots
  /\ configuration \in [Slots -> Epochs]
  /\ slotData \in [Slots -> SUBSET Entries]
  /\ inFlight \in [CPUs -> [Slots -> Nat]]
  /\ pktPc \in [Packets -> {"idle", "read", "load", "enter", "reread", "check",
                            "lookup", "undo"}]
  /\ cpu \in [Packets -> CPUs]
  /\ attempt \in [Packets -> 0..(Attempts - 1)]
  /\ ptr \in [Packets -> Slots]
  /\ slot \in [Packets -> Slots]
  /\ epoch \in [Packets -> Epochs]
  /\ birth \in [Packets -> Epochs]
  /\ agentPc \in {"down", "idle", "compare", "wait", "clear", "populate",
                  "attach", "write", "publish"}
  /\ why \in {"none", "reclaim", "prepare", "rollback", "retire"}
  /\ memSlot \in Slots
  /\ memEpoch \in Epochs
  /\ applied \in SUBSET Entries
  /\ hasApplied \in BOOLEAN
  /\ pending \in Slots \cup {NoSlot}
  /\ desired \in SUBSET Entries
  /\ scanned \in SUBSET CPUs
  /\ committed \in [Epochs -> SUBSET Entries]

\* While a packet looks entries up, its slot holds exactly the policy set that
\* was committed at the packet's epoch: no entry of it has been cleared and
\* none of a later candidate is there, whatever the agent did meanwhile.
PacketReadsCommittedPolicy ==
  \A p \in Packets : pktPc[p] = "lookup" => slotData[slot[p]] = committed[epoch[p]]

\* The slot active_config points at always holds the whole policy set that
\* was committed last, also while no agent runs and right after a crash.
ActivePolicyIntact == slotData[activeConfig] = committed[ActiveEpoch]

\* Each in_flight cell counts exactly the packets registered on it: a cell
\* that reads zero proves there is no reader, and none leaks a registration.
CountersExact ==
  \A c \in CPUs, s \in Slots : inFlight[c][s] = Cardinality(Registered(c, s))

\* A running engine's memory agrees with the pinned maps: what Apply compares
\* a candidate with is what the active slot holds, and a slot pending cleanup
\* is never the active one (the conflict reclaimPendingSlot reports cannot
\* occur).
MemoryMatchesKernel ==
  agentPc # "down" =>
    /\ memSlot = activeConfig /\ memEpoch = ActiveEpoch
    /\ hasApplied = (ActiveEpoch # 0)
    /\ applied = slotData[activeConfig]
    /\ pending \in {NoSlot, Other(activeConfig)}

\* A step changes the published configuration only by moving to the other
\* slot with the next epoch; crashes, rollbacks and recoveries keep both.
CommitAdvancesEpoch ==
  [][ <<activeConfig, ActiveEpoch>>' # <<activeConfig, ActiveEpoch>>
        => activeConfig' = Other(activeConfig) /\ ActiveEpoch' = ActiveEpoch + 1 ]_vars

Stage ==
  [p \in Packets |-> IF pktPc[p] = "idle" THEN "away"
                     ELSE IF pktPc[p] = "lookup" THEN "judged" ELSE "arrived"]
View == [p \in Packets |-> IF pktPc[p] = "lookup" THEN slotData[slot[p]] ELSE {}]

Register_ == INSTANCE PolicyRegister WITH
  current <- ActiveEpoch, log <- committed, stage <- Stage, since <- birth, view <- View

\* The packets see one register of whole policies (module PolicyRegister): a
\* packet is judged by a policy that was current at some moment since it
\* started.
ImplementsPolicyRegister == Register_!Spec

\* The counters of a retired slot reach zero unless the slot becomes active
\* again: no stream of new packets keeps a retired slot busy, so waiting for
\* its readers can succeed.
RetiredSlotDrains ==
  \A s \in Slots :
    activeConfig # s ~> (activeConfig = s \/ \A c \in CPUs : inFlight[c][s] = 0)
-----------------------------------------------------------------------------
(* The inductive invariant.                                                *)

\* The packet's second read of the pointer agreed with its first: its check
\* will pass, or has passed, unless the epochs differ.
Holds(p) == pktPc[p] \in {"check", "lookup"} /\ ptr[p] = slot[p]

\* Where the agent is when packet p may still use the retired slot: gone,
\* between calls with the slot pending, or waiting and not yet past p's CPU.
AgentKeepsOff(p) ==
  \/ agentPc = "down"
  \/ agentPc = "idle" /\ pending # NoSlot
  \/ agentPc = "wait" /\ cpu[p] \notin scanned

\* A packet that holds a slot holds the active one, or the one retired by the
\* last commit, still whole, and out of the agent's reach.
HeldSlotsProtected ==
  \A p \in Packets : Holds(p) =>
    \/ slot[p] = activeConfig
    \/ /\ ActiveEpoch = configuration[slot[p]] + 1
       /\ slotData[slot[p]] = committed[configuration[slot[p]]]
       /\ AgentKeepsOff(p)

LookupsChecked ==
  \A p \in Packets : pktPc[p] = "lookup" =>
    ptr[p] = slot[p] /\ epoch[p] = configuration[slot[p]]

\* Epochs a packet has loaded are no older than the one it started in.
EpochsNotBeforeBirth ==
  \A p \in Packets :
    /\ birth[p] <= ActiveEpoch
    /\ pktPc[p] = "idle" => birth[p] = 0
    /\ pktPc[p] = "load" => birth[p] <= configuration[ptr[p]]
    /\ pktPc[p] \in {"enter", "reread", "check", "lookup", "undo"} => birth[p] <= epoch[p]

Candidate == {"populate", "attach", "write", "publish"}

\* What Apply knows at each of its steps.
AgentInv ==
  /\ configuration[Other(activeConfig)] <= ActiveEpoch + 1
  /\ agentPc \in Candidate \cup {"compare"} => pending = NoSlot
  /\ agentPc = "wait" => why \in {"reclaim", "retire"}
  /\ agentPc = "clear" /\ why = "prepare" => pending = NoSlot
  /\ agentPc \in {"wait", "clear"} /\ why = "reclaim" => pending # NoSlot
  /\ agentPc \in Candidate \/ (agentPc = "clear" /\ why = "prepare") => memEpoch < MaxEpoch
  /\ agentPc \in {"attach", "write", "publish"} => slotData[Other(memSlot)] = desired
  /\ agentPc = "publish" => configuration[Other(memSlot)] = memEpoch + 1

IInv ==
  /\ TypeOK
  /\ CountersExact
  /\ MemoryMatchesKernel
  /\ ActivePolicyIntact
  /\ AgentInv
  /\ HeldSlotsProtected
  /\ LookupsChecked
  /\ EpochsNotBeforeBirth
=============================================================================
