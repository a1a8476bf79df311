------------------------------ MODULE AgentLoop ------------------------------
(***************************************************************************)
(* The event loop of the node agent: runNativeAgentReconciliation, its     *)
(* single consumer, and the informer callbacks that feed it.               *)
(*                                                                         *)
(* An informer first updates its cache and later runs the handler, which   *)
(* puts a token in the one-place channel dirty unless one is there.  The   *)
(* loop takes the token, lets one fixed debounce window pass, reads the    *)
(* caches one after the other, and applies what it read.  An error is      *)
(* retried after a growing delay; an error of the first pass ends the      *)
(* process unless it is ErrIdentityUncertain.  The process may be told to  *)
(* stop, or die, at any point; the kernel keeps the last committed policy  *)
(* and the DaemonSet starts the agent again.                               *)
(*                                                                         *)
(* The content of a cache is what nativeObjectChanged compares, so an      *)
(* update that the handler filters out is no step at all.  Dry runs are    *)
(* left out: they apply nothing and never become ready.                    *)
(***************************************************************************)
EXTENDS Naturals, Sequences

CONSTANTS
  Caches,         \* number of informer caches, numbered in the order they are read
  Contents,       \* what one cache may hold
  Quarantining,   \* the snapshots whose compilation quarantines a subject
  RetryInterval,  \* nativeAgentRetryInterval, in seconds
  RetryMax,       \* nativeAgentRetryMax
  MaxQueued       \* bound on the undelivered notifications of one informer

Kinds == 1..Caches
Snapshots == [Kinds -> Contents]

ASSUME CachesNat == Caches \in Nat \ {0}
ASSUME QuarantiningSnapshots == Quarantining \subseteq Snapshots
ASSUME RetryBounds ==
  RetryInterval \in Nat \ {0} /\ RetryMax \in Nat /\ RetryInterval <= RetryMax
ASSUME MaxQueuedNat == MaxQueued \in Nat \ {0}

VARIABLES
  store,      \* store[k]: the content of cache k
  queued,     \* queued[k]: notifications its handler has not run for yet
  calm,       \* the environment changes and breaks nothing any more
  enforced,   \* the snapshot the engine committed last; the kernel keeps it
  \* the agent process
  pc,         \* "down" without a process
  initial,    \* the first pass is under way
  canceled,   \* ctx.Err() # nil
  dirty,      \* a token is in the channel
  window,     \* the debounce timer
  view,       \* contents read by this pass, in the order of the caches
  outcome,    \* what reconcile() returned
  retry,      \* retryC # nil: the timer runs or has fired
  retryDelay, \* the delay of the last retry, 0 after a success
  reason      \* nativeAgentHTTP.reason; ready is reason = "ok"

envVars == <<store, queued, calm>>
retryVars == <<retry, retryDelay>>
vars == <<envVars, enforced, pc, initial, canceled, dirty, window, view, outcome,
          retryVars, reason>>

Init ==
  /\ store \in Snapshots
  /\ queued = [k \in Kinds |-> 0]
  /\ calm = FALSE
  /\ enforced \in Snapshots
  /\ pc = "down" /\ initial = FALSE /\ canceled = FALSE
  /\ dirty = FALSE /\ window = "open"
  /\ view = <<>> /\ outcome = "none"
  /\ retry = FALSE /\ retryDelay = 0
  /\ reason = "stopping"

-----------------------------------------------------------------------------
(* The environment: objects change, the process is told to stop or dies,   *)
(* and at some point all of that ends.                                     *)

\* The informer stores a relevant change and queues a notification for it.
\* Without a process the change is only seen by the next one's first list.
CacheUpdate(k) ==
  /\ ~calm /\ queued[k] < MaxQueued
  /\ \E c \in Contents \ {store[k]} : store' = [store EXCEPT ![k] = c]
  /\ queued' = [queued EXCEPT ![k] = IF pc = "down" THEN 0 ELSE @ + 1]
  /\ UNCHANGED <<calm, enforced, pc, initial, canceled, dirty, window, view,
                 outcome, retryVars, reason>>

\* Mutant: the handler hands its token over only to a waiting loop.
NotifyIfWaiting(k) ==
  /\ queued[k] > 0
  /\ queued' = [queued EXCEPT ![k] = @ - 1]
  /\ dirty' = (dirty \/ pc = "select")
  /\ UNCHANGED <<store, calm, enforced, pc, initial, canceled, window, view,
                 outcome, retryVars, reason>>

\* The handler runs signalNativeAgentDirty: a full channel swallows the token.
Notify(k) ==
  /\ queued[k] > 0
  /\ queued' = [queued EXCEPT ![k] = @ - 1]
  /\ dirty' = TRUE
  /\ UNCHANGED <<store, calm, enforced, pc, initial, canceled, window, view,
                 outcome, retryVars, reason>>

\* The agent function returns: handlers, timers and the process state are gone.
Exit ==
  /\ pc' = "down" /\ initial' = FALSE /\ canceled' = FALSE
  /\ queued' = [k \in Kinds |-> 0]
  /\ dirty' = FALSE /\ window' = "open"
  /\ view' = <<>> /\ outcome' = "none"
  /\ retry' = FALSE /\ retryDelay' = 0
  /\ reason' = "stopping"
  /\ UNCHANGED <<store, calm, enforced>>

Crash == ~calm /\ pc # "down" /\ Exit

Cancel ==
  /\ ~calm /\ pc # "down" /\ ~canceled
  /\ canceled' = TRUE
  /\ UNCHANGED <<envVars, enforced, pc, initial, dirty, window, view, outcome,
                 retryVars, reason>>

CalmDown ==
  /\ ~calm /\ calm' = TRUE
  /\ UNCHANGED <<store, queued, enforced, pc, initial, canceled, dirty, window,
                 view, outcome, retryVars, reason>>

-----------------------------------------------------------------------------
(* The agent process.                                                      *)

\* Lock, engine and caches are up; every cached object has an Add notification
\* on its way.
Start ==
  /\ pc = "down"
  /\ pc' = "drain" /\ initial' = TRUE
  /\ queued' = [k \in Kinds |-> 1]
  /\ reason' = "starting"
  /\ UNCHANGED <<store, calm, enforced, canceled, dirty, window, view, outcome,
                 retryVars>>

\* reconcileOnce begins: nothing is read once the context is canceled.
Reconcile ==
  /\ pc' = IF canceled THEN "loop" ELSE "read"
  /\ window' = "open"
  /\ UNCHANGED <<envVars, enforced, initial, canceled, view, outcome, reason>>

DrainInitial ==
  /\ pc = "drain"
  /\ dirty' = FALSE
  /\ Reconcile
  /\ UNCHANGED retryVars

\* One lister of nativePolicySnapshot; the other caches may change meanwhile.
ReadCache ==
  /\ pc = "read"
  /\ view' = Append(view, store[Len(view) + 1])
  /\ pc' = IF Len(view') = Caches THEN "apply" ELSE "read"
  /\ UNCHANGED <<envVars, enforced, initial, canceled, dirty, window, outcome,
                 retryVars, reason>>

Returns(o) ==
  /\ pc' = "record" /\ outcome' = o /\ view' = <<>>
  /\ UNCHANGED <<envVars, initial, canceled, dirty, window, retryVars, reason>>

\* A lister, the resolver, the compiler or the engine returns an error and the
\* committed policy stays; only the engine reports ErrIdentityUncertain.
ReconcileFails ==
  /\ ~calm
  /\ \/ pc \in {"read", "apply"} /\ Returns("error")
     \/ pc = "apply" /\ Returns("uncertain")
  /\ UNCHANGED enforced

\* Engine.Apply commits.  It still reports an error when MarkEnforcing fails.
ApplyCommits ==
  /\ pc = "apply"
  /\ enforced' = view
  /\ \/ Returns("ok")
     \/ ~calm /\ Returns("error")

\* nextNativeAgentRetryDelay
NextRetryDelay(previous) ==
  IF previous = 0 THEN RetryInterval
  ELSE IF previous >= RetryMax \div 2 THEN RetryMax ELSE 2 * previous

scheduleRetry == retry' = TRUE /\ retryDelay' = NextRetryDelay(retryDelay)
stopRetry == retry' = FALSE /\ retryDelay' = 0

\* The reason markApplied publishes for a committed snapshot.
Verdict(snapshot) == IF snapshot \in Quarantining THEN "quarantined" ELSE "ok"

Recorded ==
  /\ pc' = "loop" /\ initial' = FALSE /\ outcome' = "none"
  /\ UNCHANGED <<envVars, enforced, canceled, dirty, window, view>>

\* What reconcileOnce does with the result; a canceled context hides it.
RecordSuccess ==
  /\ pc = "record" /\ ~canceled /\ outcome = "ok"
  /\ stopRetry
  /\ reason' = Verdict(enforced)
  /\ Recorded

\* Mutant: a failed pass is retried by the next event only.
RecordFailureWithoutRetry ==
  /\ pc = "record" /\ ~canceled /\ outcome \in {"error", "uncertain"}
  /\ ~(initial /\ outcome = "error")
  /\ reason' = "apply_error"
  /\ Recorded
  /\ UNCHANGED retryVars

RecordFailure ==
  /\ pc = "record" /\ ~canceled /\ outcome \in {"error", "uncertain"}
  /\ ~(initial /\ outcome = "error")
  /\ scheduleRetry
  /\ reason' = "apply_error"
  /\ Recorded

InitialFailure ==
  /\ pc = "record" /\ ~canceled /\ initial /\ outcome = "error"
  /\ Exit

RecordCanceled ==
  /\ pc = "record" /\ canceled
  /\ Recorded
  /\ UNCHANGED <<retryVars, reason>>

\* The check at the top of the for loop.
LoopTop ==
  /\ pc = "loop" /\ ~canceled
  /\ pc' = "select"
  /\ UNCHANGED <<envVars, enforced, initial, canceled, dirty, window, view,
                 outcome, retryVars, reason>>

Stop == canceled /\ pc \in {"loop", "select", "debounce"} /\ Exit

\* The select statement: any ready case may be chosen, ctx.Done() included.
TakeDirty ==
  /\ pc = "select" /\ dirty
  /\ dirty' = FALSE
  /\ pc' = "debounce"
  /\ UNCHANGED <<envVars, enforced, initial, canceled, window, view, outcome,
                 retryVars, reason>>

TakeRetry ==
  /\ pc = "select" /\ retry
  /\ retry' = FALSE
  /\ Reconcile
  /\ UNCHANGED <<dirty, retryDelay>>

StatusServerFails == ~calm /\ pc = "select" /\ Exit

\* waitNativeAgentDebounce swallows tokens until its one timer fires.
DebounceDrain ==
  /\ pc = "debounce" /\ dirty
  /\ dirty' = FALSE
  /\ UNCHANGED <<envVars, enforced, pc, initial, canceled, window, view, outcome,
                 retryVars, reason>>

WindowElapses ==
  /\ pc = "debounce" /\ window = "open"
  /\ window' = "elapsed"
  /\ UNCHANGED <<envVars, enforced, pc, initial, canceled, dirty, view, outcome,
                 retryVars, reason>>

DebounceEnds ==
  /\ pc = "debounce" /\ window = "elapsed"
  /\ Reconcile
  /\ UNCHANGED <<dirty, retryVars>>
-----------------------------------------------------------------------------
Informer(k) == CacheUpdate(k) \/ Notify(k)

Pass == DrainInitial \/ ReadCache \/ ReconcileFails \/ ApplyCommits

Record == RecordSuccess \/ RecordFailure \/ InitialFailure \/ RecordCanceled

Wait == LoopTop \/ Stop \/ TakeDirty \/ TakeRetry \/ StatusServerFails

Debounce == DebounceDrain \/ WindowElapses \/ DebounceEnds

Environment == Crash \/ Cancel \/ CalmDown

Next ==
  \/ \E k \in Kinds : Informer(k)
  \/ Start \/ Pass \/ Record \/ Wait \/ Debounce \/ Environment

Spec == Init /\ [][Next]_vars

\* The DaemonSet restarts the agent, the informers run their handlers, the
\* process runs, and timers fire.
Fairness ==
  /\ \A k \in Kinds : WF_vars(Notify(k))
  /\ WF_vars(Start) /\ WF_vars(Pass) /\ WF_vars(Record)
  /\ WF_vars(Wait)
  /\ WF_vars(WindowElapses) /\ WF_vars(DebounceEnds)

FairSpec == Spec /\ Fairness

-----------------------------------------------------------------------------
(* Every variable has its type; a retry delay never exceeds the maximum of *)
(* nextNativeAgentRetryDelay, however many passes fail in a row.           *)
TypeOK ==
  /\ store \in Snapshots
  /\ queued \in [Kinds -> 0..MaxQueued]
  /\ calm \in BOOLEAN
  /\ enforced \in Snapshots
  /\ pc \in {"down", "drain", "read", "apply", "record", "loop", "select",
             "debounce"}
  /\ initial \in BOOLEAN /\ canceled \in BOOLEAN /\ dirty \in BOOLEAN
  /\ window \in {"open", "elapsed"}
  /\ view \in Seq(Contents) /\ Len(view) <= Caches
  /\ outcome \in {"none", "ok", "error", "uncertain"}
  /\ retry \in BOOLEAN
  /\ retryDelay \in 0..RetryMax
  /\ reason \in {"starting", "ok", "quarantined", "apply_error", "stopping"}

Awake == dirty \/ retry \/ \E k \in Kinds : queued[k] > 0

(* No wakeup is lost: whenever the loop is about to wait or waits in its   *)
(* select while the kernel enforces something else than the caches hold,   *)
(* a token, an undelivered notification or a retry timer will wake it.     *)
(* The one-place channel, the drains and the snapshot read cache by cache  *)
(* never leave a change that nobody will look at.                          *)
NoLostWakeup ==
  pc \in {"loop", "select"} /\ ~canceled /\ enforced # store => Awake

(* The readiness endpoint tells the outcome of the last pass: while the    *)
(* loop waits, apply_error is published exactly when a retry is scheduled, *)
(* and otherwise the reason is the verdict on the policy set the kernel    *)
(* really enforces.  In particular the agent is never ready after a failed *)
(* pass or with a quarantined subject.                                     *)
StatusTruthful ==
  pc \in {"loop", "select", "debounce"} /\ ~canceled =>
    /\ retry <=> reason = "apply_error"
    /\ reason # "apply_error" => reason = Verdict(enforced)

(* Once objects stop changing and calls stop failing, the kernel ends up   *)
(* enforcing exactly what the caches hold, and the published reason is the *)
(* verdict on it, whatever failures, restarts and bursts came before.      *)
Converges == <>calm => <>[](enforced = store /\ reason = Verdict(store))

(* The debounce window ends even if objects keep changing for ever:        *)
(* waitNativeAgentDebounce drains events in one fixed window.              *)
DebounceBounded == pc = "debounce" ~> pc # "debounce"

\* What always holds of the event loop: its types, no change is slept on, and
\* the status tells the truth about the last pass
\* (runNativeAgentReconciliation, markApplied).
LoopSafe == TypeOK /\ NoLostWakeup /\ StatusTruthful
=============================================================================
