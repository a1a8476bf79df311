----------------------------- MODULE AgentProofs -----------------------------
(***************************************************************************)
(* Proofs about the two machines of the agent process that MCAgent runs,   *)
(* which share no variable.                                                *)
(*                                                                         *)
(* AgentLoop, for any number of caches, any contents and any retry bounds: *)
(* the event loop sleeps on no change, and what it publishes is the        *)
(* outcome of its last pass.                                               *)
(*                                                                         *)
(* AgentStatus, for any heartbeat limit and any number of agent processes: *)
(* the heartbeat ends before the maps are released, no write takes the     *)
(* published record back, and a stream that goes on was backed by an agent *)
(* that enforced.                                                          *)
(***************************************************************************)
EXTENDS AgentLoop, AgentStatus, TLAPS

-----------------------------------------------------------------------------
(* AgentLoop: the invariant.                                               *)

\* A change nobody has read yet will be signalled, or has been.
Token == dirty \/ \E k \in Kinds : queued[k] > 0

\* What a pass has read and returned at each step of reconcileOnce.
Phases ==
  /\ pc = "read" => Len(view) < Caches
  /\ pc = "apply" => Len(view) = Caches
  /\ pc \notin {"read", "apply"} => view = <<>>
  /\ pc = "record" => outcome # "none"

\* A cache that changed after this pass has read it left a token behind: the
\* channel is drained before the first lister runs, never after it.
ReadIsCurrent == \A i \in 1..Len(view) : view[i] # store[i] => Token

\* A commit of something else than the caches hold by now did, too.
CommitIsCurrent == pc = "record" /\ outcome = "ok" /\ enforced # store => Token

LoopInv ==
  /\ TypeOK
  /\ Phases
  /\ ReadIsCurrent
  /\ CommitIsCurrent
  /\ NoLostWakeup
  /\ StatusTruthful

\* nextNativeAgentRetryDelay stays within its maximum.
LEMMA RetryDelayBounded ==
  ASSUME NEW previous \in 0..RetryMax
  PROVE  NextRetryDelay(previous) \in 0..RetryMax
BY RetryBounds DEF NextRetryDelay

\* A snapshot read to its end is one content per cache.
LEMMA ReadSnapshot ==
  ASSUME NEW s \in Seq(Contents), Len(s) = Caches
  PROVE  /\ s \in Snapshots
         /\ \A t \in Snapshots : (\A i \in 1..Len(s) : s[i] = t[i]) => s = t
BY CachesNat DEF Snapshots, Kinds

\* What a process that is gone, or a pass that is over, leaves behind.
LEMMA Cleared ==
  /\ [k \in Kinds |-> 0] \in [Kinds -> 0..MaxQueued]
  /\ <<>> \in Seq(Contents) /\ Len(<<>>) <= Caches
  /\ 0 \in 0..RetryMax
BY CachesNat, MaxQueuedNat, RetryBounds

\* Whatever ends the agent function leaves an invariant state behind.
LEMMA ExitTypes == TypeOK /\ Exit => TypeOK'
BY ZenonT(30), Cleared DEF TypeOK, Exit

-----------------------------------------------------------------------------
(* Every step preserves the invariant: one lemma per action.               *)

\* A change of a cache leaves a notification behind.
LEMMA CacheUpdatePreserves ==
  ASSUME LoopInv, NEW k \in Kinds, CacheUpdate(k)
  PROVE  LoopInv'
<1> USE DEF CacheUpdate, envVars, retryVars
<1>1. CommitIsCurrent' /\ NoLostWakeup'
  BY DEF LoopInv, TypeOK, CommitIsCurrent, NoLostWakeup, Token, Awake
<1>2. TypeOK'
  <2>1. store' \in Snapshots /\ queued' \in [Kinds -> 0..MaxQueued]
    BY MaxQueuedNat DEF LoopInv, TypeOK, Snapshots
  <2> QED
    BY ZenonT(30), <2>1 DEF LoopInv, TypeOK
<1>3. ReadIsCurrent'
  BY DEF LoopInv, TypeOK, Phases, ReadIsCurrent, Token
<1>4. Phases' /\ StatusTruthful'
  BY DEF LoopInv, Phases, StatusTruthful
<1> QED
  BY <1>1, <1>2, <1>3, <1>4 DEF LoopInv

\* The handler turns a notification into the token.
LEMMA NotifyPreserves ==
  ASSUME LoopInv, NEW k \in Kinds, Notify(k)
  PROVE  LoopInv'
<1> USE DEF Notify, envVars, retryVars
<1>1. TypeOK'
  BY MaxQueuedNat DEF LoopInv, TypeOK
<1>2. Phases' /\ ReadIsCurrent' /\ CommitIsCurrent' /\ NoLostWakeup' /\ StatusTruthful'
  BY DEF LoopInv, Phases, ReadIsCurrent, CommitIsCurrent, NoLostWakeup, StatusTruthful, Token,
     Awake
<1> QED
  BY <1>1, <1>2 DEF LoopInv

\* Nothing is claimed of an agent that is not there.
LEMMA CrashPreserves ==
  ASSUME LoopInv, Crash
  PROVE  LoopInv'
<1> USE DEF Exit, Crash, envVars, retryVars
<1>1. TypeOK'
  BY ExitTypes DEF LoopInv
<1>2. Phases' /\ ReadIsCurrent' /\ CommitIsCurrent' /\ NoLostWakeup' /\ StatusTruthful'
  BY DEF LoopInv, Phases, ReadIsCurrent, CommitIsCurrent, NoLostWakeup, StatusTruthful, Token,
     Awake
<1> QED
  BY <1>1, <1>2 DEF LoopInv

\* A canceled loop owes no pass.
LEMMA CancelPreserves ==
  ASSUME LoopInv, Cancel
  PROVE  LoopInv'
BY DEF LoopInv, TypeOK, Phases, ReadIsCurrent, CommitIsCurrent, NoLostWakeup, StatusTruthful,
   Token, Awake, Cancel, envVars, retryVars

\* A calm environment changes nothing by itself.
LEMMA CalmDownPreserves ==
  ASSUME LoopInv, CalmDown
  PROVE  LoopInv'
BY DEF LoopInv, TypeOK, Phases, ReadIsCurrent, CommitIsCurrent, NoLostWakeup, StatusTruthful,
   Token, Awake, CalmDown, envVars, retryVars

\* A new agent begins with its first pass.
LEMMA StartPreserves ==
  ASSUME LoopInv, Start
  PROVE  LoopInv'
<1> USE DEF Start, envVars, retryVars
<1>1. TypeOK'
  BY MaxQueuedNat DEF LoopInv, TypeOK
<1>2. Phases' /\ ReadIsCurrent' /\ CommitIsCurrent' /\ NoLostWakeup' /\ StatusTruthful'
  BY DEF LoopInv, Phases, ReadIsCurrent, CommitIsCurrent, NoLostWakeup, StatusTruthful, Token,
     Awake
<1> QED
  BY <1>1, <1>2 DEF LoopInv

\* Nothing is read yet when the channel is drained.
LEMMA DrainInitialPreserves ==
  ASSUME LoopInv, DrainInitial
  PROVE  LoopInv'
<1> USE DEF Reconcile, DrainInitial, envVars, retryVars
<1>1. TypeOK'
  BY ZenonT(30) DEF LoopInv, TypeOK
<1>2. Phases'
  BY CachesNat DEF LoopInv, Phases
<1>3. ReadIsCurrent'
  BY DEF LoopInv, Phases, ReadIsCurrent, Token
<1>4. CommitIsCurrent' /\ NoLostWakeup' /\ StatusTruthful'
  BY DEF LoopInv, CommitIsCurrent, NoLostWakeup, StatusTruthful, Token, Awake
<1> QED
  BY <1>1, <1>2, <1>3, <1>4 DEF LoopInv

\* What is read from a cache is what it holds.
LEMMA ReadCachePreserves ==
  ASSUME LoopInv, ReadCache
  PROVE  LoopInv'
<1> USE DEF ReadCache, envVars, retryVars
<1>1. TypeOK'
  BY CachesNat DEF LoopInv, TypeOK, Phases, Kinds, Snapshots
<1>2. Phases'
  BY CachesNat DEF LoopInv, Phases
<1>3. ReadIsCurrent' /\ CommitIsCurrent' /\ NoLostWakeup' /\ StatusTruthful'
  BY DEF LoopInv, ReadIsCurrent, CommitIsCurrent, NoLostWakeup, StatusTruthful, Token, Awake
<1> QED
  BY <1>1, <1>2, <1>3 DEF LoopInv

\* A failed pass commits nothing.
LEMMA ReconcileFailsPreserves ==
  ASSUME LoopInv, ReconcileFails
  PROVE  LoopInv'
<1> USE DEF Returns, ReconcileFails, envVars, retryVars
<1>1. TypeOK'
  BY ZenonT(30), Cleared DEF LoopInv, TypeOK
<1>2. Phases' /\ ReadIsCurrent' /\ CommitIsCurrent' /\ NoLostWakeup' /\ StatusTruthful'
  BY DEF LoopInv, Phases, ReadIsCurrent, CommitIsCurrent, NoLostWakeup, StatusTruthful, Token,
     Awake
<1> QED
  BY <1>1, <1>2 DEF LoopInv

\* What is committed is what was read: each difference from the caches has
\* left a token.
LEMMA ApplyCommitsPreserves ==
  ASSUME LoopInv, ApplyCommits
  PROVE  LoopInv'
<1> USE DEF Returns, ApplyCommits, envVars, retryVars
<1>1. TypeOK'
  <2>1. view \in Snapshots
    BY ReadSnapshot DEF LoopInv, TypeOK, Phases
  <2> QED
    BY ZenonT(30), <2>1, Cleared DEF LoopInv, TypeOK
<1>2. CommitIsCurrent'
  BY DEF LoopInv, TypeOK, Phases, ReadIsCurrent, CommitIsCurrent, Token, Kinds, Snapshots
<1>3. Phases' /\ ReadIsCurrent' /\ NoLostWakeup' /\ StatusTruthful'
  BY DEF LoopInv, Phases, ReadIsCurrent, NoLostWakeup, StatusTruthful, Token, Awake
<1> QED
  BY <1>1, <1>2, <1>3 DEF LoopInv

\* The loop waits with a token for whatever changed during the pass.
LEMMA RecordSuccessPreserves ==
  ASSUME LoopInv, RecordSuccess
  PROVE  LoopInv'
<1> USE DEF Recorded, stopRetry, RecordSuccess, envVars, retryVars
<1>1. TypeOK'
  BY ZenonT(30), Cleared DEF LoopInv, TypeOK, Verdict
<1>2. NoLostWakeup'
  BY DEF LoopInv, CommitIsCurrent, NoLostWakeup, Token, Awake
<1>3. StatusTruthful'
  BY DEF LoopInv, StatusTruthful, Verdict
<1>4. Phases' /\ ReadIsCurrent' /\ CommitIsCurrent'
  BY DEF LoopInv, Phases, ReadIsCurrent, CommitIsCurrent, Token
<1> QED
  BY <1>1, <1>2, <1>3, <1>4 DEF LoopInv

\* A failed pass is retried.
LEMMA RecordFailurePreserves ==
  ASSUME LoopInv, RecordFailure
  PROVE  LoopInv'
<1> USE DEF Recorded, scheduleRetry, RecordFailure, envVars, retryVars
<1>1. TypeOK'
  <2>1. retryDelay' \in 0..RetryMax
    BY RetryDelayBounded DEF LoopInv, TypeOK
  <2> QED
    BY ZenonT(30), <2>1 DEF LoopInv, TypeOK
<1>2. Phases' /\ ReadIsCurrent' /\ CommitIsCurrent' /\ NoLostWakeup' /\ StatusTruthful'
  BY DEF LoopInv, Phases, ReadIsCurrent, CommitIsCurrent, NoLostWakeup, StatusTruthful, Token,
     Awake
<1> QED
  BY <1>1, <1>2 DEF LoopInv

\* A failed first pass ends the process.
LEMMA InitialFailurePreserves ==
  ASSUME LoopInv, InitialFailure
  PROVE  LoopInv'
<1> USE DEF Exit, InitialFailure, envVars, retryVars
<1>1. TypeOK'
  BY ExitTypes DEF LoopInv
<1>2. Phases' /\ ReadIsCurrent' /\ CommitIsCurrent' /\ NoLostWakeup' /\ StatusTruthful'
  BY DEF LoopInv, Phases, ReadIsCurrent, CommitIsCurrent, NoLostWakeup, StatusTruthful, Token,
     Awake
<1> QED
  BY <1>1, <1>2 DEF LoopInv

\* A canceled loop records nothing.
LEMMA RecordCanceledPreserves ==
  ASSUME LoopInv, RecordCanceled
  PROVE  LoopInv'
<1> USE DEF Recorded, RecordCanceled, envVars, retryVars
<1>1. TypeOK'
  BY ZenonT(30) DEF LoopInv, TypeOK
<1>2. Phases' /\ ReadIsCurrent' /\ CommitIsCurrent' /\ NoLostWakeup' /\ StatusTruthful'
  BY DEF LoopInv, Phases, ReadIsCurrent, CommitIsCurrent, NoLostWakeup, StatusTruthful, Token,
     Awake
<1> QED
  BY <1>1, <1>2 DEF LoopInv

\* Nothing changes at the top of the loop.
LEMMA LoopTopPreserves ==
  ASSUME LoopInv, LoopTop
  PROVE  LoopInv'
BY DEF LoopInv, TypeOK, Phases, ReadIsCurrent, CommitIsCurrent, NoLostWakeup, StatusTruthful,
   Token, Awake, LoopTop, envVars, retryVars

\* The agent function returns.
LEMMA StopPreserves ==
  ASSUME LoopInv, Stop
  PROVE  LoopInv'
<1> USE DEF Exit, Stop, envVars, retryVars
<1>1. TypeOK'
  BY ExitTypes DEF LoopInv
<1>2. Phases' /\ ReadIsCurrent' /\ CommitIsCurrent' /\ NoLostWakeup' /\ StatusTruthful'
  BY DEF LoopInv, Phases, ReadIsCurrent, CommitIsCurrent, NoLostWakeup, StatusTruthful, Token,
     Awake
<1> QED
  BY <1>1, <1>2 DEF LoopInv

\* The token is taken for a pass to come.
LEMMA TakeDirtyPreserves ==
  ASSUME LoopInv, TakeDirty
  PROVE  LoopInv'
<1> USE DEF TakeDirty, envVars, retryVars
<1>1. TypeOK'
  BY ZenonT(30) DEF LoopInv, TypeOK
<1>2. ReadIsCurrent'
  BY DEF LoopInv, Phases, ReadIsCurrent, Token
<1>3. Phases' /\ CommitIsCurrent' /\ NoLostWakeup' /\ StatusTruthful'
  BY DEF LoopInv, Phases, CommitIsCurrent, NoLostWakeup, StatusTruthful, Token, Awake
<1> QED
  BY <1>1, <1>2, <1>3 DEF LoopInv

\* The retry timer is used up by the pass that begins.
LEMMA TakeRetryPreserves ==
  ASSUME LoopInv, TakeRetry
  PROVE  LoopInv'
<1> USE DEF Reconcile, TakeRetry, envVars, retryVars
<1>1. TypeOK'
  BY ZenonT(30) DEF LoopInv, TypeOK
<1>2. Phases'
  BY CachesNat DEF LoopInv, Phases
<1>3. ReadIsCurrent' /\ CommitIsCurrent' /\ NoLostWakeup' /\ StatusTruthful'
  BY DEF LoopInv, ReadIsCurrent, CommitIsCurrent, NoLostWakeup, StatusTruthful, Token, Awake
<1> QED
  BY <1>1, <1>2, <1>3 DEF LoopInv

\* The agent function returns with the error of the status server.
LEMMA StatusServerFailsPreserves ==
  ASSUME LoopInv, StatusServerFails
  PROVE  LoopInv'
<1> USE DEF Exit, StatusServerFails, envVars, retryVars
<1>1. TypeOK'
  BY ExitTypes DEF LoopInv
<1>2. Phases' /\ ReadIsCurrent' /\ CommitIsCurrent' /\ NoLostWakeup' /\ StatusTruthful'
  BY DEF LoopInv, Phases, ReadIsCurrent, CommitIsCurrent, NoLostWakeup, StatusTruthful, Token,
     Awake
<1> QED
  BY <1>1, <1>2 DEF LoopInv

\* A token swallowed in the window is covered by the pass that follows it.
LEMMA DebounceDrainPreserves ==
  ASSUME LoopInv, DebounceDrain
  PROVE  LoopInv'
<1> USE DEF DebounceDrain, envVars, retryVars
<1>1. TypeOK'
  BY ZenonT(30) DEF LoopInv, TypeOK
<1>2. ReadIsCurrent'
  BY DEF LoopInv, Phases, ReadIsCurrent, Token
<1>3. Phases' /\ CommitIsCurrent' /\ NoLostWakeup' /\ StatusTruthful'
  BY DEF LoopInv, Phases, CommitIsCurrent, NoLostWakeup, StatusTruthful, Token, Awake
<1> QED
  BY <1>1, <1>2, <1>3 DEF LoopInv

\* The timer fires.
LEMMA WindowElapsesPreserves ==
  ASSUME LoopInv, WindowElapses
  PROVE  LoopInv'
BY DEF LoopInv, TypeOK, Phases, ReadIsCurrent, CommitIsCurrent, NoLostWakeup, StatusTruthful,
   Token, Awake, WindowElapses, envVars, retryVars

\* The pass begins with nothing read.
LEMMA DebounceEndsPreserves ==
  ASSUME LoopInv, DebounceEnds
  PROVE  LoopInv'
<1> USE DEF Reconcile, DebounceEnds, envVars, retryVars
<1>1. Phases'
  BY CachesNat DEF LoopInv, Phases
<1>2. TypeOK' /\ ReadIsCurrent' /\ CommitIsCurrent' /\ NoLostWakeup' /\ StatusTruthful'
  BY DEF LoopInv, TypeOK, ReadIsCurrent, CommitIsCurrent, NoLostWakeup, StatusTruthful, Token,
     Awake
<1> QED
  BY <1>1, <1>2 DEF LoopInv

-----------------------------------------------------------------------------
\* Before its first start there is no agent to claim anything of.
LEMMA LoopInitEstablishes == Init => LoopInv
<1> USE DEF Init
<1>1. Init => TypeOK
  BY ZenonT(30), Cleared DEF TypeOK
<1>2. Init => Phases /\ ReadIsCurrent /\ CommitIsCurrent /\ NoLostWakeup /\ StatusTruthful
  BY DEF Phases, ReadIsCurrent, CommitIsCurrent, NoLostWakeup, StatusTruthful
<1> QED
  BY <1>1, <1>2 DEF LoopInv

\* Stuttering keeps what the invariant is about.
LEMMA LoopStutterPreserves ==
  ASSUME LoopInv, UNCHANGED vars
  PROVE  LoopInv'
BY DEF LoopInv, TypeOK, Phases, ReadIsCurrent, CommitIsCurrent, NoLostWakeup, StatusTruthful,
   Token, Awake, vars, envVars, retryVars

\* Every step of the loop and of its surroundings preserves the invariant.
LEMMA LoopStepPreserves == LoopInv /\ [Next]_vars => LoopInv'
<1> SUFFICES ASSUME LoopInv, [Next]_vars
             PROVE  LoopInv'
  OBVIOUS
<1>1. CASE \E k \in Kinds : Informer(k)
  BY <1>1, CacheUpdatePreserves, NotifyPreserves DEF Informer
<1>2. CASE Start
  BY <1>2, StartPreserves
<1>3. CASE Pass
  BY <1>3, DrainInitialPreserves, ReadCachePreserves, ReconcileFailsPreserves,
     ApplyCommitsPreserves DEF Pass
<1>4. CASE Record
  BY <1>4, RecordSuccessPreserves, RecordFailurePreserves, InitialFailurePreserves,
     RecordCanceledPreserves DEF Record
<1>5. CASE Wait
  BY <1>5, LoopTopPreserves, StopPreserves, TakeDirtyPreserves, TakeRetryPreserves,
     StatusServerFailsPreserves DEF Wait
<1>6. CASE Debounce
  BY <1>6, DebounceDrainPreserves, WindowElapsesPreserves, DebounceEndsPreserves
     DEF Debounce
<1>7. CASE Environment
  BY <1>7, CrashPreserves, CancelPreserves, CalmDownPreserves DEF Environment
<1>8. CASE UNCHANGED vars
  BY <1>8, LoopStutterPreserves
<1> QED
  BY <1>1, <1>2, <1>3, <1>4, <1>5, <1>6, <1>7, <1>8 DEF Next

\* The inductive invariant of the event loop.
THEOREM LoopInvariant == Spec => []LoopInv
BY LoopInitEstablishes, LoopStepPreserves, PTL DEF Spec

\* The event loop never sleeps on a change: whenever it waits although the
\* kernel enforces something else than the caches hold, a token, a
\* notification on its way or a retry timer wakes it; and what the readiness
\* endpoint says is the outcome of the last pass.  For any number of caches,
\* and however bursts, drains, failed passes, cancellations and restarts
\* interleave (runNativeAgentReconciliation, waitNativeAgentDebounce,
\* signalNativeAgentDirty, markApplied).
THEOREM LoopIsSafe == Spec => []LoopSafe
<1>1. LoopInv => LoopSafe
  BY DEF LoopInv, LoopSafe
<1> QED
  BY <1>1, LoopInvariant, PTL

-----------------------------------------------------------------------------
(* AgentStatus: the invariant.                                             *)

\* The heartbeat is not there before the first record is written.
HeartbeatStarts == agent.pc \in {"down", "opened", "opening"} => beat.pc = "off"

\* statusMu: a thread holds it between its snapshot and its write.
Mutex ==
    /\ lock = "main" <=> agent.pc \in {"opening", "publishing", "marking", "saying"}
    /\ lock = "beat" <=> beat.pc = "writing"

\* The lifecycle state of the process at each of its steps.
Lifecycle ==
    /\ agent.pc # "down" => agent.epoch # 0 /\ agent.state # "none"
    /\ agent.pc \in {"opened", "opening", "running"} => agent.state \in {"starting", "enforcing"}
    /\ agent.pc \in {"committed", "publishing"} => agent.state = "enforcing"
    /\ agent.pc \in {"stopping", "marking", "marked", "waiting", "saying"} => agent.state = "stopping"

\* What the holder of statusMu is about to write is what the process is, and
\* no older than what is published.
Held ==
    \A t \in Threads : lock = t =>
        /\ snap[t].epoch = agent.epoch /\ snap[t].life = agent.state
        /\ snap[t].age <= status.age

\* What is published never runs ahead of the process.
Published ==
    /\ status.epoch <= agent.epoch
    /\ agent.pc # "down" /\ status.epoch = agent.epoch
         => Rank[status.life] <= Rank[agent.state]

\* A record that says enforcing is no younger than the moment that made it true.
Backed(r) ==
    r.life = "enforcing" => r.epoch \in Epochs /\ lastAlive[r.epoch] <= r.age

Truthful ==
    /\ \A e \in Epochs : EnforcingNow(e) => lastAlive[e] = 0
    /\ Backed(status) /\ Backed(poll.seen)
    /\ \A t \in Threads : Backed(snap[t])

StatusInv ==
    /\ StatusTypeOK
    /\ HeartbeatEndsFirst
    /\ HeartbeatStarts
    /\ Mutex
    /\ Lifecycle
    /\ Held
    /\ Published
    /\ Truthful

\* Ranks are comparable numbers.
LEMMA RankType == \A l \in Lives : Rank[l] \in 0..3
BY DEF Rank, Lives

\* The lifecycle goes from starting to enforcing to stopping.
LEMMA RankOrder ==
    /\ Rank["none"] = 0 /\ Rank["starting"] = 1
    /\ Rank["enforcing"] = 2 /\ Rank["stopping"] = 3
BY DEF Rank

\* Ages stay ages, and time passes for all of them alike.
LEMMA OlderFacts ==
    /\ \A a \in Ages : Older(a) \in Ages
    /\ \A a, b \in Ages : a <= b => Older(a) <= Older(b)
BY Bounds DEF Ages, Older

\* Nothing to write is a record, too.
LEMMA NoRecordType == NoRecord \in Records
BY Bounds DEF NoRecord, Records, Lives, Ages

\* What a thread is about to write is a record of the process.
LEMMA SnapType ==
    ASSUME StatusTypeOK, NEW t \in Threads, LockAndSnap(t)
    PROVE  snap' \in [Threads -> Records] /\ lock' \in Threads
<1>1. [life |-> agent.state, epoch |-> agent.epoch, age |-> 0] \in Records
  BY Bounds DEF StatusTypeOK, Records, Ages
<1> QED
  BY <1>1 DEF StatusTypeOK, LockAndSnap

\* What is written is a record, and nothing is left to write.
LEMMA PutType ==
    ASSUME StatusTypeOK, NEW t \in Threads, Put(t)
    PROVE  status' \in Records /\ snap' \in [Threads -> Records] /\ lock' = "free"
BY NoRecordType DEF StatusTypeOK, Put

-----------------------------------------------------------------------------
(* Every step preserves the invariant: one lemma per action.               *)

\* A new agent has an epoch that was never published.
LEMMA OpenStorePreserves ==
  ASSUME StatusInv, OpenStore
  PROVE  StatusInv'
<1> USE DEF OpenStore
<1>1. Lifecycle'
  BY DEF StatusInv, StatusTypeOK, Lifecycle
<1>2. StatusTypeOK'
  <2>1. agent' \in [pc : MainPCs, state : Lives, epoch : 0 .. MaxAgents]
    BY Bounds DEF StatusInv, StatusTypeOK, MainPCs, Lives
  <2> QED
    BY <2>1 DEF StatusInv, StatusTypeOK
<1>3. Held'
  BY DEF StatusInv, HeartbeatStarts, Mutex, Held, Threads
<1>4. Published'
  BY Bounds DEF StatusInv, StatusTypeOK, Published, Records
<1>5. HeartbeatEndsFirst' /\ HeartbeatStarts' /\ Mutex' /\ Truthful'
  BY DEF StatusInv, HeartbeatEndsFirst, HeartbeatStarts, Mutex, Truthful, Backed, EnforcingNow,
     Alive, Threads
<1> QED
  BY <1>1, <1>2, <1>3, <1>4, <1>5 DEF StatusInv

\* An agent that fails to start has no heartbeat yet.
LEMMA OpenFailsPreserves ==
  ASSUME StatusInv, OpenFails
  PROVE  StatusInv'
<1> USE DEF MainGoes, OpenFails
<1>1. StatusTypeOK'
  BY DEF StatusInv, StatusTypeOK, Threads, MainPCs
<1>2. HeartbeatEndsFirst'
  BY DEF StatusInv, StatusTypeOK, HeartbeatEndsFirst, HeartbeatStarts
<1>3. HeartbeatStarts' /\ Mutex' /\ Lifecycle' /\ Held' /\ Published' /\ Truthful'
  BY DEF StatusInv, HeartbeatStarts, Mutex, Lifecycle, Held, Published, Truthful, Backed,
     EnforcingNow, Alive, Threads
<1> QED
  BY <1>1, <1>2, <1>3 DEF StatusInv

\* The first record is taken under the mutex.
LEMMA FirstStatusPreserves ==
  ASSUME StatusInv, FirstStatus
  PROVE  StatusInv'
<1> USE DEF MainGoes, LockAndSnap, FirstStatus
<1>1. StatusTypeOK'
  BY SnapType DEF StatusInv, StatusTypeOK, Threads, MainPCs
<1>2. Held'
  BY Bounds DEF StatusInv, StatusTypeOK, Mutex, Held, Threads, Records, Ages
<1>3. Truthful'
  BY Bounds DEF StatusInv, StatusTypeOK, Lifecycle, Truthful, Backed, EnforcingNow, Alive,
     Threads, Records, Ages, Epochs
<1>4. HeartbeatEndsFirst' /\ HeartbeatStarts' /\ Mutex' /\ Lifecycle' /\ Published'
  BY DEF StatusInv, HeartbeatEndsFirst, HeartbeatStarts, Mutex, Lifecycle, Published
<1> QED
  BY <1>1, <1>2, <1>3, <1>4 DEF StatusInv

\* The heartbeat starts once the first record is written.
LEMMA FirstStatusWrittenPreserves ==
  ASSUME StatusInv, FirstStatusWritten
  PROVE  StatusInv'
<1> USE DEF Put, FirstStatusWritten
<1>1. HeartbeatStarts' /\ Mutex' /\ Lifecycle'
  BY DEF StatusInv, StatusTypeOK, HeartbeatStarts, Mutex, Lifecycle
<1>2. StatusTypeOK'
  <2>1. agent' \in [pc : MainPCs, state : Lives, epoch : 0 .. MaxAgents]
    BY DEF StatusInv, StatusTypeOK, MainPCs
  <2>2. beat' \in [pc : {"off", "ticking", "writing", "done"}, canceled : BOOLEAN]
    <3>1. beat' = [pc |-> "ticking", canceled |-> FALSE] \/ beat' = beat
      OBVIOUS
    <3>2. [pc |-> "ticking", canceled |-> FALSE]
            \in [pc : {"off", "ticking", "writing", "done"}, canceled : BOOLEAN]
      OBVIOUS
    <3> QED
      BY <3>1, <3>2 DEF StatusInv, StatusTypeOK
  <2> QED
    BY <2>1, <2>2, PutType DEF StatusInv, StatusTypeOK, Threads
<1>3. HeartbeatEndsFirst'
  BY DEF StatusInv, StatusTypeOK, HeartbeatEndsFirst, HeartbeatStarts
<1>4. Published'
  BY RankType, RankOrder, Bounds DEF StatusInv, StatusTypeOK, Mutex, Lifecycle, Held, Published,
     Threads, Lives, Records
<1>5. Truthful'
  BY DEF StatusInv, StatusTypeOK, Lifecycle, Truthful, Backed, EnforcingNow, Alive, Threads, NoRecord
<1>6. Held'
  BY DEF StatusInv, Held, Threads
<1> QED
  BY <1>1, <1>2, <1>3, <1>4, <1>5, <1>6 DEF StatusInv

\* The agent enforces from now on.
LEMMA MarkEnforcingPreserves ==
  ASSUME StatusInv, MarkEnforcing
  PROVE  StatusInv'
<1> USE DEF MarkEnforcing
<1>1. StatusTypeOK'
  <2>1. agent' \in [pc : MainPCs, state : Lives, epoch : 0 .. MaxAgents]
    BY ZenonT(30) DEF StatusInv, StatusTypeOK, MainPCs, Lives
  <2> QED
    BY <2>1, Bounds DEF StatusInv, StatusTypeOK, Lifecycle, Epochs, Ages
<1>2. Published'
  BY RankType, RankOrder, Bounds DEF StatusInv, StatusTypeOK, Lifecycle, Published, Lives,
     Records
<1>3. Truthful'
  BY SMTT(30), Bounds DEF StatusInv, StatusTypeOK, Lifecycle, Truthful, Backed, EnforcingNow,
     Alive, Threads, Records, Ages, Epochs
<1>4. HeartbeatEndsFirst' /\ HeartbeatStarts' /\ Mutex' /\ Lifecycle' /\ Held'
  BY DEF StatusInv, HeartbeatEndsFirst, HeartbeatStarts, Mutex, Lifecycle, Held, Threads
<1> QED
  BY <1>1, <1>2, <1>3, <1>4 DEF StatusInv

\* The record of an enforcing agent is taken under the mutex.
LEMMA MarkEnforcingSnapPreserves ==
  ASSUME StatusInv, MarkEnforcingSnap
  PROVE  StatusInv'
<1> USE DEF MainGoes, LockAndSnap, MarkEnforcingSnap
<1>1. StatusTypeOK'
  BY SnapType DEF StatusInv, StatusTypeOK, Threads, MainPCs
<1>2. Held'
  BY Bounds DEF StatusInv, StatusTypeOK, Mutex, Held, Threads, Records, Ages
<1>3. Truthful'
  BY Bounds DEF StatusInv, StatusTypeOK, Lifecycle, Truthful, Backed, EnforcingNow, Alive,
     Threads, Records, Ages, Epochs
<1>4. HeartbeatEndsFirst' /\ HeartbeatStarts' /\ Mutex' /\ Lifecycle' /\ Published'
  BY DEF StatusInv, HeartbeatEndsFirst, HeartbeatStarts, Mutex, Lifecycle, Published
<1> QED
  BY <1>1, <1>2, <1>3, <1>4 DEF StatusInv

\* It is written under the mutex.
LEMMA MarkEnforcingWrittenPreserves ==
  ASSUME StatusInv, MarkEnforcingWritten
  PROVE  StatusInv'
<1> USE DEF MainGoes, Put, MarkEnforcingWritten
<1>1. StatusTypeOK'
  BY PutType DEF StatusInv, StatusTypeOK, Threads, MainPCs
<1>2. Published'
  BY RankType, RankOrder, Bounds DEF StatusInv, StatusTypeOK, Mutex, Lifecycle, Held, Published,
     Threads, Lives, Records
<1>3. Truthful'
  BY DEF StatusInv, StatusTypeOK, Lifecycle, Truthful, Backed, EnforcingNow, Alive, Threads, NoRecord
<1>4. HeartbeatEndsFirst' /\ HeartbeatStarts' /\ Mutex' /\ Lifecycle' /\ Held'
  BY DEF StatusInv, HeartbeatEndsFirst, HeartbeatStarts, Mutex, Lifecycle, Held, Threads
<1> QED
  BY <1>1, <1>2, <1>3, <1>4 DEF StatusInv

\* The state changes only while nobody holds a snapshot of it.
LEMMA MarkStoppingPreserves ==
  ASSUME StatusInv, MarkStopping
  PROVE  StatusInv'
<1> USE DEF MarkStopping
<1>1. StatusTypeOK'
  <2>1. agent' \in [pc : MainPCs, state : Lives, epoch : 0 .. MaxAgents]
    BY ZenonT(30) DEF StatusInv, StatusTypeOK, MainPCs, Lives
  <2> QED
    BY <2>1 DEF StatusInv, StatusTypeOK
<1>2. Published'
  BY RankType, RankOrder, Bounds DEF StatusInv, StatusTypeOK, Published, Lives, Records
<1>3. HeartbeatEndsFirst' /\ HeartbeatStarts' /\ Mutex' /\ Lifecycle' /\ Held' /\ Truthful'
  BY DEF StatusInv, HeartbeatEndsFirst, HeartbeatStarts, Mutex, Lifecycle, Held, Truthful,
     Backed, EnforcingNow, Alive, Threads
<1> QED
  BY <1>1, <1>2, <1>3 DEF StatusInv

\* The record of a stopping agent is taken under the mutex.
LEMMA MarkStoppingSnapPreserves ==
  ASSUME StatusInv, MarkStoppingSnap
  PROVE  StatusInv'
<1> USE DEF MainGoes, LockAndSnap, MarkStoppingSnap
<1>1. StatusTypeOK'
  BY SnapType DEF StatusInv, StatusTypeOK, Threads, MainPCs
<1>2. Held'
  BY Bounds DEF StatusInv, StatusTypeOK, Mutex, Held, Threads, Records, Ages
<1>3. Truthful'
  BY DEF StatusInv, StatusTypeOK, Lifecycle, Truthful, Backed, EnforcingNow, Alive, Threads
<1>4. HeartbeatEndsFirst' /\ HeartbeatStarts' /\ Mutex' /\ Lifecycle' /\ Published'
  BY DEF StatusInv, HeartbeatEndsFirst, HeartbeatStarts, Mutex, Lifecycle, Published
<1> QED
  BY <1>1, <1>2, <1>3, <1>4 DEF StatusInv

\* Writing it may fail, and Close is then called again.
LEMMA MarkStoppingWrittenPreserves ==
  ASSUME StatusInv, MarkStoppingWritten
  PROVE  StatusInv'
<1> USE DEF MainGoes, Put, MarkStoppingWritten
<1>1. StatusTypeOK'
  BY PutType DEF StatusInv, StatusTypeOK, Threads, MainPCs
<1>2. Published'
  BY RankType, RankOrder, Bounds DEF StatusInv, StatusTypeOK, Mutex, Lifecycle, Held, Published,
     Threads, Lives, Records
<1>3. Truthful'
  BY DEF StatusInv, StatusTypeOK, Lifecycle, Truthful, Backed, EnforcingNow, Alive, Threads, NoRecord
<1>4. HeartbeatEndsFirst' /\ HeartbeatStarts' /\ Mutex' /\ Lifecycle' /\ Held'
  BY DEF StatusInv, HeartbeatEndsFirst, HeartbeatStarts, Mutex, Lifecycle, Held, Threads
<1> QED
  BY <1>1, <1>2, <1>3, <1>4 DEF StatusInv

\* Cancelling the heartbeat does not end it yet.
LEMMA CancelHeartbeatPreserves ==
  ASSUME StatusInv, CancelHeartbeat
  PROVE  StatusInv'
<1> USE DEF MainGoes, CancelHeartbeat
<1>1. StatusTypeOK'
  BY ZenonT(30) DEF StatusInv, StatusTypeOK, Threads, MainPCs
<1>2. /\ HeartbeatEndsFirst' /\ HeartbeatStarts' /\ Mutex' /\ Lifecycle' /\ Held'
      /\ Published' /\ Truthful'
  BY DEF StatusInv, HeartbeatEndsFirst, HeartbeatStarts, Mutex, Lifecycle, Held, Published,
     Truthful, Backed, EnforcingNow, Alive, Threads
<1> QED
  BY <1>1, <1>2 DEF StatusInv

\* The maps are released once the heartbeat is gone.
LEMMA HeartbeatGonePreserves ==
  ASSUME StatusInv, HeartbeatGone
  PROVE  StatusInv'
<1> USE DEF HeartbeatGone
<1>1. StatusTypeOK'
  BY DEF StatusInv, StatusTypeOK, Threads, MainPCs
<1>2. /\ HeartbeatEndsFirst' /\ HeartbeatStarts' /\ Mutex' /\ Lifecycle' /\ Held'
      /\ Published' /\ Truthful'
  BY DEF StatusInv, HeartbeatEndsFirst, HeartbeatStarts, Mutex, Lifecycle, Held, Published,
     Truthful, Backed, EnforcingNow, Alive, Threads
<1> QED
  BY <1>1, <1>2 DEF StatusInv

\* The last record says stopping.
LEMMA LastStatusPreserves ==
  ASSUME StatusInv, LastStatus
  PROVE  StatusInv'
<1> USE DEF LastStatus
<1>1. StatusTypeOK'
  <2>1. agent' \in [pc : MainPCs, state : Lives, epoch : 0 .. MaxAgents]
    BY ZenonT(30) DEF StatusInv, StatusTypeOK, MainPCs, Lives
  <2>2. [life |-> "stopping", epoch |-> agent.epoch, age |-> 0] \in Records
    BY Bounds DEF StatusInv, StatusTypeOK, Records, Lives, Ages
  <2>3. snap' \in [Threads -> Records] /\ lock' \in Threads
    BY <2>2 DEF StatusInv, StatusTypeOK, Threads
  <2> QED
    BY <2>1, <2>3 DEF StatusInv, StatusTypeOK
<1>2. Held'
  BY Bounds DEF StatusInv, StatusTypeOK, Mutex, Held, Threads, Records, Ages
<1>3. Published'
  BY RankType, RankOrder, Bounds DEF StatusInv, StatusTypeOK, Published, Lives, Records
<1>4. HeartbeatEndsFirst' /\ HeartbeatStarts' /\ Mutex' /\ Lifecycle' /\ Truthful'
  BY DEF StatusInv, HeartbeatEndsFirst, HeartbeatStarts, Mutex, Lifecycle, Truthful, Backed,
     EnforcingNow, Alive, Threads
<1> QED
  BY <1>1, <1>2, <1>3, <1>4 DEF StatusInv

\* It is written without a heartbeat that could overwrite it.
LEMMA LastStatusWrittenPreserves ==
  ASSUME StatusInv, LastStatusWritten
  PROVE  StatusInv'
<1> USE DEF MainGoes, Put, LastStatusWritten
<1>1. StatusTypeOK'
  <2>1. agent' \in [pc : MainPCs, state : Lives, epoch : 0 .. MaxAgents]
    BY DEF StatusInv, StatusTypeOK, MainPCs
  <2>2. beat' \in [pc : {"off", "ticking", "writing", "done"}, canceled : BOOLEAN]
    BY DEF StatusInv, StatusTypeOK
  <2> QED
    BY <2>1, <2>2, PutType DEF StatusInv, StatusTypeOK, Threads
<1>2. HeartbeatStarts'
  BY DEF StatusInv, HeartbeatEndsFirst, HeartbeatStarts
<1>3. Published'
  BY RankType, RankOrder, Bounds DEF StatusInv, StatusTypeOK, Mutex, Lifecycle, Held, Published,
     Threads, Lives, Records
<1>4. Truthful'
  BY DEF StatusInv, StatusTypeOK, Lifecycle, Truthful, Backed, EnforcingNow, Alive, Threads, NoRecord
<1>5. HeartbeatEndsFirst' /\ Mutex' /\ Lifecycle' /\ Held'
  BY DEF StatusInv, HeartbeatEndsFirst, Mutex, Lifecycle, Held, Threads
<1> QED
  BY <1>1, <1>2, <1>3, <1>4, <1>5 DEF StatusInv

\* The map keeps its record.
LEMMA AgentCrashPreserves ==
  ASSUME StatusInv, AgentCrash
  PROVE  StatusInv'
<1> USE DEF AgentCrash
<1>1. StatusTypeOK'
  <2>1. agent' \in [pc : MainPCs, state : Lives, epoch : 0 .. MaxAgents]
    BY ZenonT(30) DEF StatusInv, StatusTypeOK, MainPCs, Lives
  <2> QED
    BY <2>1, NoRecordType DEF StatusInv, StatusTypeOK
<1>2. Truthful'
  BY DEF StatusInv, StatusTypeOK, Lifecycle, Truthful, Backed, EnforcingNow, Alive, Threads, NoRecord
<1>3. HeartbeatEndsFirst' /\ HeartbeatStarts' /\ Mutex' /\ Lifecycle' /\ Held' /\ Published'
  BY DEF StatusInv, HeartbeatEndsFirst, HeartbeatStarts, Mutex, Lifecycle, Held, Published,
     Threads
<1> QED
  BY <1>1, <1>2, <1>3 DEF StatusInv

\* A heartbeat takes its snapshot under the mutex.
LEMMA HeartbeatTickPreserves ==
  ASSUME StatusInv, HeartbeatTick
  PROVE  StatusInv'
<1> USE DEF LockAndSnap, HeartbeatTick
<1>1. StatusTypeOK'
  BY SnapType DEF StatusInv, StatusTypeOK, Threads, MainPCs
<1>2. Held'
  BY Bounds DEF StatusInv, StatusTypeOK, Mutex, Held, Threads, Records, Ages
<1>3. Truthful'
  BY Bounds DEF StatusInv, StatusTypeOK, HeartbeatStarts, Lifecycle, Truthful, Backed,
     EnforcingNow, Alive, Threads, Epochs
<1>4. HeartbeatEndsFirst' /\ HeartbeatStarts' /\ Mutex' /\ Lifecycle' /\ Published'
  BY DEF StatusInv, HeartbeatEndsFirst, HeartbeatStarts, Mutex, Lifecycle, Published
<1> QED
  BY <1>1, <1>2, <1>3, <1>4 DEF StatusInv

\* What a heartbeat writes is what the process still is.
LEMMA HeartbeatWrittenPreserves ==
  ASSUME StatusInv, HeartbeatWritten
  PROVE  StatusInv'
<1> USE DEF Put, HeartbeatWritten
<1>1. StatusTypeOK'
  BY PutType DEF StatusInv, StatusTypeOK, Threads, MainPCs
<1>2. Published'
  BY RankType, RankOrder, Bounds DEF StatusInv, StatusTypeOK, Mutex, Lifecycle, Held, Published,
     Threads, Lives, Records
<1>3. Truthful'
  BY DEF StatusInv, StatusTypeOK, Lifecycle, Truthful, Backed, EnforcingNow, Alive, Threads, NoRecord
<1>4. HeartbeatEndsFirst' /\ HeartbeatStarts' /\ Mutex' /\ Lifecycle' /\ Held'
  BY DEF StatusInv, HeartbeatEndsFirst, HeartbeatStarts, Mutex, Lifecycle, Held, Threads
<1> QED
  BY <1>1, <1>2, <1>3, <1>4 DEF StatusInv

\* A canceled heartbeat ends between two writes.
LEMMA HeartbeatEndsPreserves ==
  ASSUME StatusInv, HeartbeatEnds
  PROVE  StatusInv'
BY DEF StatusInv, StatusTypeOK, HeartbeatEndsFirst, HeartbeatStarts, Mutex, Lifecycle, Held, Published,
   Truthful, Backed, EnforcingNow, Alive, Threads, HeartbeatEnds

\* The poll begins.
LEMMA FollowPreserves ==
  ASSUME StatusInv, Follow
  PROVE  StatusInv'
<1> USE DEF Follow
<1>1. StatusTypeOK'
  <2>1. 0 \in 0 .. MaxAgents
    BY Bounds
  <2>2. poll' \in [pc : {"idle", "polling", "read", "waiting"}, seen : Records,
                   expected : 0 .. MaxAgents]
    BY ZenonT(30), <2>1 DEF StatusInv, StatusTypeOK
  <2> QED
    BY <2>2 DEF StatusInv, StatusTypeOK
<1>2. /\ HeartbeatEndsFirst' /\ HeartbeatStarts' /\ Mutex' /\ Lifecycle' /\ Held'
      /\ Published' /\ Truthful'
  BY DEF StatusInv, HeartbeatEndsFirst, HeartbeatStarts, Mutex, Lifecycle, Held, Published,
     Truthful, Backed, EnforcingNow, Alive, Threads
<1> QED
  BY <1>1, <1>2 DEF StatusInv

\* The poll reads what is published.
LEMMA PollReadPreserves ==
  ASSUME StatusInv, PollRead
  PROVE  StatusInv'
<1> USE DEF PollRead
<1>1. StatusTypeOK'
  <2>1. poll' \in [pc : {"idle", "polling", "read", "waiting"}, seen : Records,
                   expected : 0 .. MaxAgents]
    BY ZenonT(30) DEF StatusInv, StatusTypeOK
  <2> QED
    BY <2>1 DEF StatusInv, StatusTypeOK
<1>2. /\ HeartbeatEndsFirst' /\ HeartbeatStarts' /\ Mutex' /\ Lifecycle' /\ Held'
      /\ Published' /\ Truthful'
  BY DEF StatusInv, HeartbeatEndsFirst, HeartbeatStarts, Mutex, Lifecycle, Held, Published,
     Truthful, Backed, EnforcingNow, Alive, Threads
<1> QED
  BY <1>1, <1>2 DEF StatusInv

\* The poll forgets the record it has judged.
LEMMA PollJudgePreserves ==
  ASSUME StatusInv, PollJudge
  PROVE  StatusInv'
<1> USE DEF PollJudge
<1>1. StatusTypeOK'
  <2>1. poll' \in [pc : {"idle", "polling", "read", "waiting"}, seen : Records,
                   expected : 0 .. MaxAgents]
    BY NoRecordType, Bounds DEF StatusInv, StatusTypeOK, Records
  <2> QED
    BY <2>1 DEF StatusInv, StatusTypeOK
<1>2. Truthful'
  BY DEF StatusInv, StatusTypeOK, Lifecycle, Truthful, Backed, EnforcingNow, Alive, Threads, NoRecord
<1>3. HeartbeatEndsFirst' /\ HeartbeatStarts' /\ Mutex' /\ Lifecycle' /\ Held' /\ Published'
  BY DEF StatusInv, HeartbeatEndsFirst, HeartbeatStarts, Mutex, Lifecycle, Held, Published,
     Threads
<1> QED
  BY <1>1, <1>2, <1>3 DEF StatusInv

\* The poll goes on.
LEMMA PollAgainPreserves ==
  ASSUME StatusInv, PollAgain
  PROVE  StatusInv'
BY DEF StatusInv, StatusTypeOK, HeartbeatEndsFirst, HeartbeatStarts, Mutex, Lifecycle, Held, Published,
   Truthful, Backed, EnforcingNow, Alive, Threads, PollAgain

\* The poll ends.
LEMMA PollCanceledPreserves ==
  ASSUME StatusInv, PollCanceled
  PROVE  StatusInv'
<1> USE DEF PollCanceled
<1>1. StatusTypeOK'
  <2>1. poll' \in [pc : {"idle", "polling", "read", "waiting"}, seen : Records,
                   expected : 0 .. MaxAgents]
    BY NoRecordType, Bounds DEF StatusInv, StatusTypeOK, Records
  <2> QED
    BY <2>1 DEF StatusInv, StatusTypeOK
<1>2. Truthful'
  BY DEF StatusInv, StatusTypeOK, Lifecycle, Truthful, Backed, EnforcingNow, Alive, Threads, NoRecord
<1>3. HeartbeatEndsFirst' /\ HeartbeatStarts' /\ Mutex' /\ Lifecycle' /\ Held' /\ Published'
  BY DEF StatusInv, HeartbeatEndsFirst, HeartbeatStarts, Mutex, Lifecycle, Held, Published,
     Threads
<1> QED
  BY <1>1, <1>2, <1>3 DEF StatusInv

\* Everything grows older alike, but for the agent that enforces.
LEMMA TickPreserves ==
  ASSUME StatusInv, Tick
  PROVE  StatusInv'
<1> USE DEF Tick
<1>1. StatusTypeOK'
  <2>1. status' \in Records /\ snap' \in [Threads -> Records]
    BY OlderFacts DEF StatusInv, StatusTypeOK, Records
  <2>2. poll' \in [pc : {"idle", "polling", "read", "waiting"}, seen : Records,
                   expected : 0 .. MaxAgents]
    BY OlderFacts DEF StatusInv, StatusTypeOK, Records
  <2>3. lastAlive' \in [Epochs -> Ages]
    BY OlderFacts, Bounds DEF StatusInv, StatusTypeOK, Ages
  <2> QED
    BY <2>1, <2>2, <2>3 DEF StatusInv, StatusTypeOK
<1>2. Held'
  BY OlderFacts DEF StatusInv, StatusTypeOK, Held, Threads, Records
<1>3. Truthful'
  <2>1. \A e \in Epochs : EnforcingNow(e)' => lastAlive'[e] = 0
    BY DEF EnforcingNow, Alive
  <2>2. ASSUME NEW r \in Records, Backed(r)
        PROVE  Backed([r EXCEPT !.age = Older(@)])'
    <3>1. r.epoch \in Epochs => lastAlive'[r.epoch] \in {0, Older(lastAlive[r.epoch])}
      OBVIOUS
    <3>2. Older(r.age) \in Ages
      BY OlderFacts DEF Records
    <3>3. r.life = "enforcing" => Older(lastAlive[r.epoch]) <= Older(r.age)
      BY <2>2, OlderFacts DEF Backed, StatusInv, StatusTypeOK, Records
    <3> QED
      BY <2>2, <3>1, <3>2, <3>3, Bounds DEF Backed, Records, Ages
  <2>3. Backed(status)'
    BY <2>2 DEF StatusInv, StatusTypeOK, Truthful
  <2>4. Backed(poll.seen)'
    <3>1. poll'.seen = [poll.seen EXCEPT !.age = Older(@)]
      BY DEF StatusInv, StatusTypeOK
    <3> QED
      BY <2>2, <3>1 DEF StatusInv, StatusTypeOK, Truthful, Backed
  <2>5. \A t \in Threads : Backed(snap[t])'
    BY <2>2 DEF StatusInv, StatusTypeOK, Truthful
  <2> QED
    BY <2>1, <2>3, <2>4, <2>5 DEF Truthful
<1>4. HeartbeatEndsFirst' /\ HeartbeatStarts' /\ Mutex' /\ Lifecycle' /\ Published'
  BY DEF StatusInv, HeartbeatEndsFirst, HeartbeatStarts, Mutex, Lifecycle, Published
<1> QED
  BY <1>1, <1>2, <1>3, <1>4 DEF StatusInv

-----------------------------------------------------------------------------
\* Before the first agent nothing is published.
LEMMA StatusInitEstablishes == StatusInit => StatusInv
<1> SUFFICES ASSUME StatusInit
             PROVE  StatusInv
  OBVIOUS
<1> USE DEF StatusInit
<1>1. StatusTypeOK
  <2>1. agent \in [pc : MainPCs, state : Lives, epoch : 0 .. MaxAgents]
    BY Bounds DEF MainPCs, Lives
  <2>2. /\ snap \in [Threads -> Records]
        /\ poll \in [pc : {"idle", "polling", "read", "waiting"}, seen : Records,
                     expected : 0 .. MaxAgents]
    BY NoRecordType, Bounds
  <2>3. lastAlive \in [Epochs -> Ages]
    BY Bounds DEF Ages
  <2> QED
    BY <2>1, <2>2, <2>3, NoRecordType DEF StatusTypeOK
<1>2. HeartbeatEndsFirst /\ HeartbeatStarts /\ Mutex /\ Lifecycle /\ Held
  BY DEF HeartbeatEndsFirst, HeartbeatStarts, Mutex, Lifecycle, Held, Threads
<1>3. Published /\ Truthful
  BY DEF Published, Truthful, Backed, EnforcingNow, Alive, NoRecord
<1> QED
  BY <1>1, <1>2, <1>3 DEF StatusInv

\* Stuttering keeps what the invariant is about.
LEMMA StatusStutterPreserves ==
  ASSUME StatusInv, UNCHANGED statusVars
  PROVE  StatusInv'
BY DEF StatusInv, StatusTypeOK, HeartbeatEndsFirst, HeartbeatStarts, Mutex, Lifecycle, Held, Published,
   Truthful, Backed, EnforcingNow, Alive, statusVars

\* Every step of the agent, the heartbeat and the readers preserves the invariant.
LEMMA StatusStepPreserves == StatusInv /\ [StatusNext]_statusVars => StatusInv'
<1> SUFFICES ASSUME StatusInv, [StatusNext]_statusVars
             PROVE  StatusInv'
  OBVIOUS
<1>1. CASE Agent
  BY <1>1, OpenStorePreserves, OpenFailsPreserves, FirstStatusPreserves,
     FirstStatusWrittenPreserves, MarkEnforcingPreserves, MarkEnforcingSnapPreserves,
     MarkEnforcingWrittenPreserves, MarkStoppingPreserves, MarkStoppingSnapPreserves,
     MarkStoppingWrittenPreserves, CancelHeartbeatPreserves, HeartbeatGonePreserves,
     LastStatusPreserves, LastStatusWrittenPreserves, AgentCrashPreserves DEF Agent
<1>2. CASE Heartbeat
  BY <1>2, HeartbeatTickPreserves, HeartbeatWrittenPreserves, HeartbeatEndsPreserves
     DEF Heartbeat
<1>3. CASE Follow \/ Poll \/ PollCanceled
  BY <1>3, FollowPreserves, PollReadPreserves, PollJudgePreserves, PollAgainPreserves,
     PollCanceledPreserves DEF Poll
<1>4. CASE Tick
  BY <1>4, TickPreserves
<1>5. CASE UNCHANGED statusVars
  BY <1>5, StatusStutterPreserves
<1> QED
  BY <1>1, <1>2, <1>3, <1>4, <1>5 DEF StatusNext

\* The inductive invariant of the record, its writers and its reader.
THEOREM StatusInvariant == StatusSpec => []StatusInv
<1>1. StatusInit => StatusInv
  BY StatusInitEstablishes
<1>2. StatusInv /\ [StatusNext]_statusVars => StatusInv'
  BY StatusStepPreserves
<1> QED
  BY <1>1, <1>2, PTL DEF StatusSpec

\* The engine releases its maps only when the heartbeat goroutine, which writes
\* to one of them, has ended, wherever startup, Close or a write fails; for
\* every freshness limit and any number of agents (startHeartbeat, Close).
THEOREM StatusStaysSafe == StatusSpec => []StatusSafe
<1>1. StatusInv => StatusSafe
  BY DEF StatusInv, StatusSafe
<1> QED
  BY <1>1, StatusInvariant, PTL

-----------------------------------------------------------------------------
(* What a step may never do.                                               *)

\* What the holder of statusMu writes is at least as new as what it replaces.
LEMMA PutIsNewer ==
  ASSUME StatusInv, NEW t \in Threads, lock = t, agent.pc # "down", Put(t)
  PROVE  \/ status' = status \/ status'.epoch > status.epoch
         \/ /\ status'.epoch = status.epoch
            /\ Rank[status'.life] >= Rank[status.life]
            /\ status'.age <= status.age
<1>1. CASE status' = snap[t]
  <2>1. status'.epoch = agent.epoch /\ status'.life = agent.state /\ status'.age <= status.age
    BY <1>1 DEF StatusInv, Held
  <2>2. status.epoch \in Int /\ agent.epoch \in Int
    BY Bounds DEF StatusInv, StatusTypeOK, Records
  <2>3. Rank[status.life] \in Int /\ Rank[agent.state] \in Int
    BY RankType DEF StatusInv, StatusTypeOK, Records
  <2> QED
    BY <2>1, <2>2, <2>3 DEF StatusInv, Published
<1> QED
  BY <1>1 DEF Put

\* Every other step leaves the record alone or makes it older.
LEMMA StepIsNewer ==
  ASSUME StatusInv, [StatusNext]_statusVars
  PROVE  status' = status \/ status'.epoch > status.epoch
           \/ (status'.epoch = status.epoch /\ Rank[status'.life] >= Rank[status.life]
               /\ (status'.age <= status.age \/ status'.age = Older(status.age)))
<1>1. CASE \/ FirstStatusWritten \/ MarkEnforcingWritten \/ MarkStoppingWritten
           \/ LastStatusWritten
  <2>1. lock = "main" /\ agent.pc # "down" /\ Put("main")
    BY <1>1 DEF FirstStatusWritten, MarkEnforcingWritten, MarkStoppingWritten,
       LastStatusWritten, MainGoes, StatusInv, Mutex
  <2> QED
    BY <2>1, PutIsNewer DEF Threads
<1>2. CASE HeartbeatWritten
  <2>1. lock = "beat" /\ agent.pc # "down" /\ Put("beat")
    BY <1>2 DEF HeartbeatWritten, StatusInv, Mutex, HeartbeatStarts
  <2> QED
    BY <2>1, PutIsNewer DEF Threads
<1>3. CASE Tick
  <2>1. /\ status'.epoch = status.epoch /\ status'.life = status.life
        /\ status'.age = Older(status.age)
    BY <1>3 DEF Tick, StatusInv, StatusTypeOK, Records
  <2>2. Rank[status.life] \in Int
    BY RankType DEF StatusInv, StatusTypeOK, Records
  <2> QED
    BY <2>1, <2>2
<1> QED
  BY <1>1, <1>2, <1>3 DEF StatusNext, Agent, Heartbeat, Poll, OpenStore, OpenFails, FirstStatus,
     MarkEnforcing, MarkEnforcingSnap, MarkStopping, MarkStoppingSnap, CancelHeartbeat,
     HeartbeatGone, LastStatus, AgentCrash, HeartbeatTick, HeartbeatEnds, Follow, PollRead,
     PollJudge, PollAgain, PollCanceled, statusVars

\* A poll that goes on names an agent that enforced within the limit.
LEMMA AcceptedIsBacked ==
  ASSUME StatusInv, [StatusNext]_statusVars, poll.pc = "read", poll'.pc = "waiting"
  PROVE  EnforcingNow(poll'.expected) \/ lastAlive[poll'.expected] <= MaxAge
<1>1. PollJudge
  <2>1. poll' # poll
    OBVIOUS
  <2>2. CASE Tick
    BY <2>2 DEF Tick, StatusInv, StatusTypeOK
  <2> QED
    BY <2>1, <2>2 DEF StatusNext, Agent, Heartbeat, Poll, OpenStore, OpenFails, FirstStatus,
       FirstStatusWritten, MarkEnforcing, MarkEnforcingSnap, MarkEnforcingWritten,
       MarkStopping, MarkStoppingSnap, MarkStoppingWritten, CancelHeartbeat, HeartbeatGone,
       LastStatus, LastStatusWritten, AgentCrash, HeartbeatTick, HeartbeatWritten, HeartbeatEnds,
       Follow, PollRead, PollAgain, PollCanceled, statusVars
<1>2. Valid(poll.seen, poll.expected) /\ poll'.expected = poll.seen.epoch
  BY <1>1 DEF PollJudge
<1>3. /\ poll.seen.epoch \in Epochs /\ lastAlive[poll.seen.epoch] <= poll.seen.age
      /\ poll.seen.age <= MaxAge
  BY <1>2 DEF Valid, StatusInv, Truthful, Backed
<1>4. lastAlive[poll.seen.epoch] \in Int /\ poll.seen.age \in Int
  BY <1>3, Bounds DEF StatusInv, StatusTypeOK, Records, Ages
<1> QED
  BY <1>2, <1>3, <1>4, Bounds

\* No write takes the published record back to an earlier agent, lifecycle
\* state or heartbeat, although the engine and the heartbeat goroutine write it
\* in turn and any write may fail; and a poll that lets a stream go on was
\* backed by an agent that enforced at most MaxAge heartbeats before, however
\* long the record lay between the read and the judgement (updateAgentStatus,
\* validatePinnedAgentStatus).
THEOREM StatusIsSound == StatusSpec => StatusSound
<1>1. StatusInv /\ [StatusNext]_statusVars =>
        [status' = status \/ status'.epoch > status.epoch
          \/ (status'.epoch = status.epoch /\ Rank[status'.life] >= Rank[status.life]
              /\ (status'.age <= status.age \/ status'.age = Older(status.age)))]_statusVars
  BY StepIsNewer
<1>2. StatusInv /\ [StatusNext]_statusVars =>
        [poll.pc = "read" /\ poll'.pc = "waiting"
          => EnforcingNow(poll'.expected) \/ lastAlive[poll'.expected] <= MaxAge]_statusVars
  BY AcceptedIsBacked
<1>3. StatusSpec => StatusNeverRegresses
  BY <1>1, StatusInvariant, PTL DEF StatusSpec, StatusNeverRegresses
<1>4. StatusSpec => AcceptedMeansEnforcing
  BY <1>2, StatusInvariant, PTL DEF StatusSpec, AcceptedMeansEnforcing
<1> QED
  BY <1>3, <1>4 DEF StatusSound
==============================================================================
