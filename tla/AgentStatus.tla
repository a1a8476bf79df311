----------------------------- MODULE AgentStatus -----------------------------
(***************************************************************************)
(* The agent_status record: one agent process at a time publishes its      *)
(* lifecycle and a heartbeat in a pinned map, from two threads (the        *)
(* engine and the heartbeat goroutine); `ztap flows` polls the record and  *)
(* stops streaming when the agent it follows is gone.                      *)
(*                                                                         *)
(* Simplifications: time is kept as ages, in heartbeat periods, that stop  *)
(* counting one above MaxAge; agent epochs are random in the code and are  *)
(* taken in order here, so that a record can be called newer; of Apply and *)
(* Close only the lifecycle calls are kept, in their order.                *)
(***************************************************************************)
EXTENDS Integers

CONSTANTS
    MaxAge,     \* flowAgentHeartbeatMaxAge, in heartbeat periods
    MaxAgents   \* bound: agent processes started one after the other

ASSUME Bounds == MaxAge \in Nat /\ MaxAgents \in Nat

VARIABLES
    status,     \* the record in the pinned map
    agent,      \* the process: pc, its statusState, epoch, whether its maps are open
    beat,       \* its heartbeat goroutine: pc and whether it is canceled
    lock,       \* holder of statusMu
    snap,       \* the record a thread is about to write
    poll,       \* the flow reader's status poll: pc, record read, epoch expected
    lastAlive   \* history: age of each agent's last moment in state enforcing

statusVars == <<status, agent, beat, lock, snap, poll, lastAlive>>

Threads == {"main", "beat"}
Epochs == 1 .. MaxAgents
Ages == 0 .. MaxAge + 1
Lives == {"none", "starting", "enforcing", "stopping"}
Records == [life : Lives, epoch : 0 .. MaxAgents, age : Ages]
NoRecord == [life |-> "none", epoch |-> 0, age |-> MaxAge + 1]

Older(a) == IF a > MaxAge THEN a ELSE a + 1

MainPCs == {"down", "opened", "opening", "running", "committed", "publishing", "stopping",
            "marking", "marked", "waiting", "releasing", "saying"}

StatusTypeOK ==
    /\ status \in Records
    /\ agent \in [pc : MainPCs, state : Lives, epoch : 0 .. MaxAgents]
    /\ beat \in [pc : {"off", "ticking", "writing", "done"}, canceled : BOOLEAN]
    /\ lock \in Threads \cup {"free"}
    /\ snap \in [Threads -> Records]
    /\ poll \in [pc : {"idle", "polling", "read", "waiting"}, seen : Records,
                 expected : 0 .. MaxAgents]
    /\ lastAlive \in [Epochs -> Ages]

StatusInit ==
    /\ status = NoRecord
    /\ agent = [pc |-> "down", state |-> "none", epoch |-> 0]
    /\ beat = [pc |-> "off", canceled |-> FALSE]
    /\ lock = "free"
    /\ snap = [t \in Threads |-> NoRecord]
    /\ poll = [pc |-> "idle", seen |-> NoRecord, expected |-> 0]
    /\ lastAlive = [e \in Epochs |-> MaxAge + 1]

(***************************************************************************)
(* Writing the record.                                                     *)
(***************************************************************************)

\* Mutant: the snapshot is taken without holding the mutex through the write.
LockAndSnapUnlocked(t) ==
    /\ lock' = lock
    /\ snap' = [snap EXCEPT ![t] = [life |-> agent.state, epoch |-> agent.epoch, age |-> 0]]

\* updateAgentStatus up to the write: the mutex is taken, the clock and the state are read.
LockAndSnap(t) ==
    /\ lock = "free"
    /\ lock' = t
    /\ snap' = [snap EXCEPT ![t] = [life |-> agent.state, epoch |-> agent.epoch, age |-> 0]]

\* The write and the release of the mutex.  Reading the clock or writing may fail.
Put(t) ==
    /\ status' \in {snap[t], status}
    /\ lock' = "free"
    /\ snap' = [snap EXCEPT ![t] = NoRecord]

MainGoes(from, to) ==
    /\ agent.pc = from
    /\ agent' = [agent EXCEPT !.pc = to]

(***************************************************************************)
(* The agent process.                                                      *)
(***************************************************************************)

\* The store is opened with a new epoch and in state starting.
OpenStore ==
    /\ agent.pc = "down"
    /\ agent.epoch < MaxAgents
    /\ agent' = [pc |-> "opened", state |-> "starting", epoch |-> agent.epoch + 1]
    /\ UNCHANGED <<status, beat, lock, snap, poll, lastAlive>>

\* Some step of startup fails: before the collection is loaded Close writes nothing,
\* afterwards it publishes that the agent stops.
OpenFails ==
    /\ \E pc \in {"down", "releasing"} : MainGoes("opened", pc)
    /\ UNCHANGED <<status, beat, lock, snap, poll, lastAlive>>

\* The first record of this agent, and its heartbeat if that was written.
FirstStatus ==
    /\ MainGoes("opened", "opening")
    /\ LockAndSnap("main")
    /\ UNCHANGED <<status, beat, poll, lastAlive>>

FirstStatusWritten ==
    /\ agent.pc = "opening"
    /\ Put("main")
    /\ \/ /\ status' = snap["main"]
          /\ agent' = [agent EXCEPT !.pc = "running"]
          /\ beat' = [pc |-> "ticking", canceled |-> FALSE]
       \/ /\ status' = status
          /\ agent' = [agent EXCEPT !.pc = "releasing"]
          /\ UNCHANGED beat
    /\ UNCHANGED <<poll, lastAlive>>

\* Apply has committed, or found nothing to change: MarkEnforcing.
MarkEnforcing ==
    /\ agent.pc = "running"
    /\ lock = "free"
    /\ agent' = [agent EXCEPT !.state = "enforcing", !.pc = "committed"]
    /\ lastAlive' = [lastAlive EXCEPT ![agent.epoch] = 0]
    /\ UNCHANGED <<status, beat, lock, snap, poll>>

MarkEnforcingSnap ==
    /\ MainGoes("committed", "publishing")
    /\ LockAndSnap("main")
    /\ UNCHANGED <<status, beat, poll, lastAlive>>

MarkEnforcingWritten ==
    /\ MainGoes("publishing", "running")
    /\ Put("main")
    /\ UNCHANGED <<beat, poll, lastAlive>>

\* engineCore.Close: MarkStopping, then the links are released, which may fail; Close is
\* then called again.
MarkStopping ==
    /\ agent.pc = "running"
    /\ lock = "free"
    /\ agent' = [agent EXCEPT !.state = "stopping", !.pc = "stopping"]
    /\ UNCHANGED <<status, beat, lock, snap, poll, lastAlive>>

MarkStoppingSnap ==
    /\ MainGoes("stopping", "marking")
    /\ LockAndSnap("main")
    /\ UNCHANGED <<status, beat, poll, lastAlive>>

MarkStoppingWritten ==
    /\ \E pc \in {"stopping", "marked"} : MainGoes("marking", pc)
    /\ Put("main")
    /\ UNCHANGED <<beat, poll, lastAlive>>

\* Store.Close: the heartbeat is canceled and waited for.
CancelHeartbeat ==
    /\ MainGoes("marked", "waiting")
    /\ beat' = [beat EXCEPT !.canceled = TRUE]
    /\ UNCHANGED <<status, lock, snap, poll, lastAlive>>

\* Mutant: Close cancels the heartbeat without waiting for it.
HeartbeatOnItsWay ==
    /\ agent.pc = "waiting"
    /\ agent' = [agent EXCEPT !.pc = "releasing"]
    /\ UNCHANGED <<status, beat, lock, snap, poll, lastAlive>>

HeartbeatGone ==
    /\ agent.pc = "waiting"
    /\ beat.pc = "done"
    /\ agent' = [agent EXCEPT !.pc = "releasing"]
    /\ UNCHANGED <<status, beat, lock, snap, poll, lastAlive>>

\* The last record, and the release of the maps.
LastStatus ==
    /\ agent.pc = "releasing"
    /\ lock = "free"
    /\ lock' = "main"
    /\ agent' = [agent EXCEPT !.pc = "saying", !.state = "stopping"]
    /\ snap' = [snap EXCEPT !["main"] = [life |-> "stopping", epoch |-> agent.epoch, age |-> 0]]
    /\ UNCHANGED <<status, beat, poll, lastAlive>>

LastStatusWritten ==
    /\ MainGoes("saying", "down")
    /\ Put("main")
    /\ beat' = [beat EXCEPT !.pc = IF @ = "done" THEN "off" ELSE @]
    /\ UNCHANGED <<poll, lastAlive>>

\* The process dies anywhere; the map keeps its record.
AgentCrash ==
    /\ agent.pc # "down"
    /\ agent' = [agent EXCEPT !.pc = "down", !.state = "none"]
    /\ beat' = [pc |-> "off", canceled |-> FALSE]
    /\ lock' = "free"
    /\ snap' = [t \in Threads |-> NoRecord]
    /\ UNCHANGED <<status, poll, lastAlive>>

(***************************************************************************)
(* The heartbeat goroutine.                                                *)
(***************************************************************************)

\* A tick of the ticker; select may prefer it although the context is canceled.
HeartbeatTick ==
    /\ beat.pc = "ticking"
    /\ LockAndSnap("beat")
    /\ beat' = [beat EXCEPT !.pc = "writing"]
    /\ UNCHANGED <<status, agent, poll, lastAlive>>

HeartbeatWritten ==
    /\ beat.pc = "writing"
    /\ Put("beat")
    /\ beat' = [beat EXCEPT !.pc = "ticking"]
    /\ UNCHANGED <<agent, poll, lastAlive>>

HeartbeatEnds ==
    /\ beat.pc = "ticking"
    /\ beat.canceled
    /\ beat' = [beat EXCEPT !.pc = "done"]
    /\ UNCHANGED <<status, agent, lock, snap, poll, lastAlive>>

(***************************************************************************)
(* The flow reader's poll, monitorPinnedAgentStatus.                       *)
(***************************************************************************)

Follow ==
    /\ poll.pc = "idle"
    /\ poll' = [poll EXCEPT !.pc = "polling", !.expected = 0]
    /\ UNCHANGED <<status, agent, beat, lock, snap, lastAlive>>

PollRead ==
    /\ poll.pc = "polling"
    /\ poll' = [poll EXCEPT !.pc = "read", !.seen = status]
    /\ UNCHANGED <<status, agent, beat, lock, snap, lastAlive>>

\* Mutant: the age of the heartbeat is not looked at.
ValidUndated(s, expected) ==
    /\ s.life = "enforcing"
    /\ expected # 0 => s.epoch = expected

\* validatePinnedAgentStatus; an expected epoch of 0 stands for the first poll.
Valid(s, expected) ==
    /\ s.life = "enforcing"
    /\ expected # 0 => s.epoch = expected
    /\ s.age <= MaxAge

\* The clock is read after the record, so the age is the one at this step.
PollJudge ==
    /\ poll.pc = "read"
    /\ poll' = IF Valid(poll.seen, poll.expected)
                 THEN [pc |-> "waiting", seen |-> NoRecord, expected |-> poll.seen.epoch]
                 ELSE [pc |-> "idle", seen |-> NoRecord, expected |-> 0]
    /\ UNCHANGED <<status, agent, beat, lock, snap, lastAlive>>

PollAgain ==
    /\ poll.pc = "waiting"
    /\ poll' = [poll EXCEPT !.pc = "polling"]
    /\ UNCHANGED <<status, agent, beat, lock, snap, lastAlive>>

\* The user interrupts the stream, or the map or the clock cannot be read.
PollCanceled ==
    /\ poll.pc # "idle"
    /\ poll' = [pc |-> "idle", seen |-> NoRecord, expected |-> 0]
    /\ UNCHANGED <<status, agent, beat, lock, snap, lastAlive>>

(***************************************************************************)
(* Time passes.                                                            *)
(***************************************************************************)

Alive(e) == agent.epoch = e /\ agent.pc # "down"

EnforcingNow(e) == Alive(e) /\ agent.state = "enforcing"

Tick ==
    /\ status' = [status EXCEPT !.age = Older(@)]
    /\ snap' = [t \in Threads |-> [snap[t] EXCEPT !.age = Older(@)]]
    /\ poll' = [poll EXCEPT !.seen.age = Older(@)]
    /\ lastAlive' = [e \in Epochs |-> IF EnforcingNow(e) THEN 0 ELSE Older(lastAlive[e])]
    /\ UNCHANGED <<agent, beat, lock>>

Agent ==
    \/ OpenStore \/ OpenFails \/ FirstStatus \/ FirstStatusWritten
    \/ MarkEnforcing \/ MarkEnforcingSnap \/ MarkEnforcingWritten
    \/ MarkStopping \/ MarkStoppingSnap \/ MarkStoppingWritten
    \/ CancelHeartbeat \/ HeartbeatGone \/ LastStatus \/ LastStatusWritten
    \/ AgentCrash

Heartbeat == HeartbeatTick \/ HeartbeatWritten \/ HeartbeatEnds

Poll == PollRead \/ PollJudge \/ PollAgain

StatusNext == Agent \/ Heartbeat \/ Follow \/ Poll \/ PollCanceled \/ Tick

StatusSpec == StatusInit /\ [][StatusNext]_statusVars

\* The poll's goroutine runs and time passes.  Nothing is assumed of the agent.
StatusFairness == WF_statusVars(Poll) /\ WF_statusVars(Tick)

StatusFairSpec == StatusSpec /\ StatusFairness

(***************************************************************************)
(* Properties.                                                             *)
(***************************************************************************)

Rank == [none |-> 0, starting |-> 1, enforcing |-> 2, stopping |-> 3]

\* No write takes the published record back: a record of the same agent never returns to
\* an earlier lifecycle state nor to an older heartbeat, and a record of an earlier agent
\* never returns at all.  updateAgentStatus holds statusMu through the write for this.
StatusNeverRegresses ==
    [][status' = status \/ status'.epoch > status.epoch
        \/ (status'.epoch = status.epoch /\ Rank[status'.life] >= Rank[status.life]
            /\ (status'.age <= status.age \/ status'.age = Older(status.age)))]_statusVars

\* A poll that lets the stream go on proves that the agent it names was alive and
\* enforcing at most MaxAge before: this is what the stream promises its reader.
AcceptedMeansEnforcing ==
    [][poll.pc = "read" /\ poll'.pc = "waiting"
        => EnforcingNow(poll'.expected) \/ lastAlive[poll'.expected] <= MaxAge]_statusVars

\* The maps are only released when the heartbeat goroutine, which writes to one of them,
\* is gone.
HeartbeatEndsFirst ==
    agent.pc \in {"releasing", "saying", "down"} => beat.pc \in {"off", "done"}

\* A stream notices that its agent is gone, killed, stopped or replaced.
EndOfAgentNoticed ==
    \A e \in Epochs :
        (poll.expected = e /\ ~Alive(e)) ~> (poll.expected # e)

\* The status record, the heartbeat and the poll have their types, and the maps are
\* released only after the heartbeat has ended (Close of the engine).
StatusSafe == StatusTypeOK /\ HeartbeatEndsFirst

\* No write takes the published record back to an earlier lifecycle or time, and a poll
\* lets the stream go on only if the agent was enforcing within the freshness limit
\* (updateAgentStatus, validatePinnedAgentStatus).
StatusSound == StatusNeverRegresses /\ AcceptedMeansEnforcing
==============================================================================
