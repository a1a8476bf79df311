----------------------------- MODULE FlowMonitor -----------------------------
(***************************************************************************)
(* The flow monitor (internal/flow/monitor.go) on top of the ring-buffer   *)
(* reader (internal/flow/reader_linux.go).                                 *)
(*                                                                         *)
(* Start opens a run: one goroutine that stays in reader.Start and one     *)
(* that hands its events to the subscribers.  Stop ends a run from any     *)
(* goroutine: a caller's, or the run's own processor when the context of   *)
(* Start is canceled.  A monitor may be started again while goroutines of  *)
(* the last run are still unwinding.  What happens under m.mu is one step; *)
(* channel operations and calls outside it are steps of their own.         *)
(*                                                                         *)
(* Statistics and the content of events are left out, and an event that a  *)
(* full channel drops is no step.                                          *)
(***************************************************************************)
EXTENDS Naturals, FiniteSets

CONSTANTS
  Callers,      \* goroutines that call Start and Stop
  Subscribers,  \* calls of Subscribe and SubscribeBeforeStart
  MaxRuns       \* bound on the runs of one monitor

Runs == 1..MaxRuns
None == 0      \* a nil channel or function; runs count from 1

ASSUME CallersAreNoRuns == Callers \cap Runs = {}
ASSUME MaxRunsNat == MaxRuns \in Nat

VARIABLES
  mon,   \* the fields of Monitor; a channel or a cancel function is named by its run
  ring,  \* LinuxReader.ringbuf: the run that opened it; running is ring # None
  run,   \* run[r]: the contexts, channels and reader goroutine of run r
  call,  \* call[x]: the Start or Stop call of x, and the processor of run x
  sub    \* sub[s]: a subscription, and the generation it was made in

vars == <<mon, ring, run, call, sub>>

\* A goroutine at pc, with nothing in its local variables.
Fresh(pc) == [pc |-> pc, stopReader |-> FALSE, done |-> None, cancel |-> None]

\* A stop channel is named by the number of those closed before it, so
\* channel k is closed exactly if k < mon.stopCh.
Init ==
  /\ mon = [running |-> FALSE, started |-> FALSE, stopped |-> FALSE, stopCh |-> 0,
            runGeneration |-> 0, readerInvoked |-> FALSE, readerStopped |-> FALSE,
            readerDone |-> None, readerCancel |-> None, readerErr |-> FALSE]
  /\ ring = None
  /\ run = [r \in Runs |-> [stopCh |-> 0, ctx |-> FALSE, readerCtx |-> FALSE,
                            reader |-> "none", result |-> "none", raw |-> 0]]
  /\ call = [x \in Callers \cup Runs |->
              Fresh(IF x \in Runs THEN "none" ELSE "idle")]
  /\ sub = [s \in Subscribers |-> [state |-> "new", born |-> 0]]

At(x, from) == call[x].pc = from

Goto(x, to) == call' = [call EXCEPT ![x].pc = to]

\* The current run is r and nobody has stopped it.
Current(r) == mon.stopCh = run[r].stopCh /\ mon.runGeneration = r

\* readerCtx is a child of the context given to Start.
ReaderCanceled(r) == run[r].ctx \/ run[r].readerCtx

Closed(r) == r # None => run[r].reader = "done"      \* <-readerDone

closeSubscribersLocked ==
  sub' = [s \in Subscribers |->
            IF sub[s].state = "open" THEN [sub[s] EXCEPT !.state = "closed"] ELSE sub[s]]
-----------------------------------------------------------------------------
(* Monitor.Start.                                                          *)

Entering(c) == call[c].pc \in {"idle", "await"} /\ (At(c, "await") => Closed(call[c].done))

\* Mutant: a new run does not wait for the reader of the last one.
AlwaysGone == TRUE

PreviousReaderGone == Closed(mon.readerDone)

\* The monitor runs already, or the context was canceled meanwhile.
StartReturns(c) ==
  /\ At(c, "await") /\ Closed(call[c].done)
  /\ call' = [call EXCEPT ![c] = Fresh("idle")]
  /\ UNCHANGED <<mon, ring, run, sub>>

StartWaits(c) ==
  /\ Entering(c) /\ ~mon.running /\ ~PreviousReaderGone
  /\ call' = [call EXCEPT ![c] = [@ EXCEPT !.pc = "await", !.done = mon.readerDone]]
  /\ UNCHANGED <<mon, ring, run, sub>>

StartRun(c) ==
  /\ Entering(c) /\ ~mon.running /\ PreviousReaderGone
  /\ mon.runGeneration < MaxRuns
  /\ LET r == mon.runGeneration + 1 IN
       /\ mon' = [mon EXCEPT !.running = TRUE, !.started = TRUE, !.stopped = FALSE,
                             !.readerErr = FALSE, !.readerInvoked = FALSE,
                             !.readerStopped = FALSE, !.runGeneration = r,
                             !.readerDone = r, !.readerCancel = r]
       /\ run' = [run EXCEPT ![r] = [@ EXCEPT !.stopCh = mon.stopCh, !.reader = "spawned"]]
       /\ call' = [call EXCEPT ![c] = Fresh("idle"), ![r].pc = "select"]
  /\ UNCHANGED <<ring, sub>>

\* The context given to Start is canceled while somebody still looks at it.
CancelContext(r) ==
  /\ r <= mon.runGeneration /\ ~run[r].ctx
  /\ run[r].reader # "done" \/ call[r].pc = "select"
  /\ run' = [run EXCEPT ![r].ctx = TRUE]
  /\ UNCHANGED <<mon, ring, call, sub>>
-----------------------------------------------------------------------------
(* The reader goroutine, with LinuxReader.Start between "open" and         *)
(* "returned".  The goroutine that watches the context inside it only      *)
(* closes the ring buffer, and has ended when Start returns.               *)

Reader(r, from, to) ==
  /\ run[r].reader = from
  /\ run' = [run EXCEPT ![r].reader = to]

\* Stop may have come first: then the reader is not invoked at all.
ReaderBegins(r) ==
  /\ IF ~ReaderCanceled(r) /\ mon.running /\ ~mon.readerStopped /\ Current(r)
       THEN Reader(r, "spawned", "open") /\ mon' = [mon EXCEPT !.readerInvoked = TRUE]
       ELSE Reader(r, "spawned", "closed") /\ UNCHANGED mon
  /\ UNCHANGED <<ring, call, sub>>

Return(r, result) ==
  /\ run' = [run EXCEPT ![r] = [@ EXCEPT !.reader = "returned", !.result = result]]
  /\ ring' = IF ring = r THEN None ELSE ring
  /\ UNCHANGED <<mon, call, sub>>

ReaderOpens(r) ==
  /\ ~ReaderCanceled(r) /\ ring = None
  /\ Reader(r, "open", "reading")
  /\ ring' = r
  /\ UNCHANGED <<mon, call, sub>>

\* A reader that is running already, or a context that is canceled by now.
ReaderDeclines(r) ==
  /\ run[r].reader = "open"
  /\ \/ ReaderCanceled(r) /\ Return(r, "canceled")
     \/ ~ReaderCanceled(r) /\ ring # None /\ Return(r, "nil")

ReaderReads(r) ==
  /\ run[r].reader = "reading" /\ ring = r /\ run[r].raw = 0
  /\ run' = [run EXCEPT ![r].raw = 1]
  /\ UNCHANGED <<mon, ring, call, sub>>

\* Stop closed the ring buffer, or the context ended; with both, select may
\* see either first.
ReaderEnds(r) ==
  /\ run[r].reader = "reading"
  /\ \/ ReaderCanceled(r) /\ Return(r, "canceled")
     \/ ring # r /\ Return(r, "nil")

ReaderFails(r) ==
  /\ run[r].reader \in {"open", "reading"}
  /\ Return(r, "error")

\* Mutant: the error of a canceled run is recorded as well.
ReaderRecordsAnyError(r) ==
  /\ Reader(r, "returned", "recorded")
  /\ mon' = [mon EXCEPT
       !.readerCancel = IF mon.readerDone = r THEN None ELSE @,
       !.readerErr = @ \/ (run[r].result # "nil" /\ Current(r))]
  /\ UNCHANGED <<ring, call, sub>>

ReaderRecords(r) ==
  /\ Reader(r, "returned", "recorded")
  /\ mon' = [mon EXCEPT
       !.readerCancel = IF mon.readerDone = r THEN None ELSE @,
       !.readerErr = @ \/ (run[r].result # "nil" /\ ~ReaderCanceled(r) /\ Current(r))]
  /\ UNCHANGED <<ring, call, sub>>

\* close(rawEvents)
ReaderCloses(r) ==
  /\ Reader(r, "recorded", "closed")
  /\ UNCHANGED <<mon, ring, call, sub>>

\* The deferred readerCancel and close(readerDone).
ReaderDone(r) ==
  /\ run[r].reader = "closed"
  /\ run' = [run EXCEPT ![r] = [@ EXCEPT !.reader = "done", !.readerCtx = TRUE]]
  /\ UNCHANGED <<mon, ring, call, sub>>
-----------------------------------------------------------------------------
(* processEvents: any ready case of its select may be chosen.              *)

ProcessorStopped(r) ==
  /\ At(r, "select") /\ run[r].stopCh < mon.stopCh
  /\ Goto(r, "ended")
  /\ UNCHANGED <<mon, ring, run, sub>>

ProcessorCanceled(r) ==
  /\ At(r, "select") /\ run[r].ctx
  /\ Goto(r, "canceled")
  /\ UNCHANGED <<mon, ring, run, sub>>

ProcessorReceives(r) ==
  /\ At(r, "select") /\ run[r].raw > 0
  /\ run' = [run EXCEPT ![r].raw = @ - 1]
  /\ Goto(r, "deliver")
  /\ UNCHANGED <<mon, ring, sub>>

\* The broadcast, unless the run is over.
ProcessorDelivers(r) ==
  /\ At(r, "deliver")
  /\ Goto(r, IF mon.running /\ Current(r) THEN "select" ELSE "ended")
  /\ UNCHANGED <<mon, ring, run, sub>>

ProcessorDrained(r) ==
  /\ At(r, "select") /\ run[r].raw = 0 /\ run[r].reader \in {"closed", "done"}
  /\ Goto(r, "drained")
  /\ UNCHANGED <<mon, ring, run, sub>>

\* The reader is gone: its run is over, unless it is no longer the current one.
ProcessorEnds(r) ==
  /\ At(r, "drained")
  /\ IF Current(r)
       THEN mon' = [mon EXCEPT !.running = FALSE, !.stopped = TRUE] /\ closeSubscribersLocked
       ELSE UNCHANGED <<mon, sub>>
  /\ Goto(r, "ended")
  /\ UNCHANGED <<ring, run>>
-----------------------------------------------------------------------------
(* Monitor.Stop, called by a caller or by a processor.                     *)

StopLocks(x, nextStopCh) ==
  /\ At(x, IF x \in Runs THEN "canceled" ELSE "idle")
  /\ mon' = [mon EXCEPT !.running = FALSE, !.stopped = TRUE, !.stopCh = nextStopCh,
                        !.readerCancel = None, !.readerStopped = TRUE]
  /\ call' = [call EXCEPT ![x] =
       [pc |-> "cancel", done |-> mon.readerDone, cancel |-> mon.readerCancel,
        stopReader |-> /\ mon.readerInvoked
                       /\ mon.running \/ (mon.started /\ ~mon.readerStopped)]]
  /\ closeSubscribersLocked
  /\ UNCHANGED <<ring, run>>

Stop(x) == StopLocks(x, IF mon.running THEN mon.stopCh + 1 ELSE mon.stopCh)

\* Mutant: only reader.Stop tells the reader.
StopKeepsContext(x) ==
  /\ At(x, "cancel")
  /\ Goto(x, "stop")
  /\ UNCHANGED <<mon, ring, run, sub>>

StopCancels(x) ==
  /\ At(x, "cancel")
  /\ run' = [r \in Runs |-> IF r = call[x].cancel
                              THEN [run[r] EXCEPT !.readerCtx = TRUE] ELSE run[r]]
  /\ call' = [call EXCEPT ![x] = [@ EXCEPT !.pc = "stop", !.cancel = None]]
  /\ UNCHANGED <<mon, ring, sub>>

\* LinuxReader.Stop closes whatever ring buffer is open now.
StopReader(x) ==
  /\ At(x, "stop")
  /\ ring' = IF call[x].stopReader THEN None ELSE ring
  /\ call' = [call EXCEPT ![x] = [@ EXCEPT !.pc = "wait", !.stopReader = FALSE]]
  /\ UNCHANGED <<mon, run, sub>>

StopReturns(x) ==
  /\ At(x, "wait") /\ Closed(call[x].done)
  /\ call' = [call EXCEPT ![x] = Fresh(IF x \in Runs THEN "ended" ELSE "idle")]
  /\ UNCHANGED <<mon, ring, run, sub>>
-----------------------------------------------------------------------------
(* Subscriptions.                                                          *)

\* Mutant: SubscribeBeforeStart does not look whether the monitor was stopped.
RefusesOnlyLate(allowBeforeStart) == ~mon.running /\ ~allowBeforeStart

Refuses(allowBeforeStart) ==
  ~mon.running /\ (~allowBeforeStart \/ mon.started \/ mon.stopped)

Subscribe(s, allowBeforeStart) ==
  /\ sub[s].state = "new"
  /\ sub' = [sub EXCEPT ![s] = [state |-> IF Refuses(allowBeforeStart) THEN "closed" ELSE "open",
                                born |-> mon.runGeneration]]
  /\ UNCHANGED <<mon, ring, run, call>>

\* The context of the subscription ends.
Unsubscribe(s) ==
  /\ sub[s].state = "open"
  /\ sub' = [sub EXCEPT ![s].state = "closed"]
  /\ UNCHANGED <<mon, ring, run, call>>
-----------------------------------------------------------------------------
ReaderStep(r) ==
  \/ ReaderBegins(r) \/ ReaderOpens(r) \/ ReaderDeclines(r) \/ ReaderEnds(r)
  \/ ReaderRecords(r) \/ ReaderCloses(r) \/ ReaderDone(r)

StopStep(x) == StopCancels(x) \/ StopReader(x) \/ StopReturns(x)

ProcessorStep(r) ==
  \/ ProcessorStopped(r) \/ ProcessorCanceled(r) \/ ProcessorReceives(r)
  \/ ProcessorDelivers(r) \/ ProcessorDrained(r) \/ ProcessorEnds(r)
  \/ Stop(r) \/ StopStep(r)

StartWakes(c) == At(c, "await") /\ (StartReturns(c) \/ StartWaits(c) \/ StartRun(c))

Next ==
  \/ \E c \in Callers : \/ StartReturns(c) \/ StartWaits(c) \/ StartRun(c)
                        \/ Stop(c) \/ StopStep(c)
  \/ \E r \in Runs : \/ ReaderStep(r) \/ ReaderReads(r) \/ ReaderFails(r)
                     \/ ProcessorStep(r) \/ CancelContext(r)
  \/ \E s \in Subscribers : \/ \E before \in BOOLEAN : Subscribe(s, before)
                            \/ Unsubscribe(s)

Spec == Init /\ [][Next]_vars

\* Every goroutine runs, a call of Start or Stop once made included; nobody
\* has to make one, to cancel a context or to fail.
FairSpec ==
  /\ Spec
  /\ \A r \in Runs : WF_vars(ReaderStep(r)) /\ WF_vars(ProcessorStep(r))
  /\ \A c \in Callers : WF_vars(StopStep(c)) /\ WF_vars(StartWakes(c))
-----------------------------------------------------------------------------
(* Properties.                                                             *)

\* Every variable has its type; in particular a monitor uses up at most one
\* stop channel per run.
TypeOK ==
  /\ mon \in [running : BOOLEAN, started : BOOLEAN, stopped : BOOLEAN,
              stopCh : 0..MaxRuns, runGeneration : 0..MaxRuns,
              readerInvoked : BOOLEAN, readerStopped : BOOLEAN,
              readerDone : Runs \cup {None}, readerCancel : Runs \cup {None},
              readerErr : BOOLEAN]
  /\ ring \in Runs \cup {None}
  /\ run \in [Runs -> [stopCh : 0..MaxRuns, ctx : BOOLEAN, readerCtx : BOOLEAN,
                       reader : {"none", "spawned", "open", "reading", "returned",
                                 "recorded", "closed", "done"},
                       result : {"none", "nil", "canceled", "error"}, raw : 0..1]]
  /\ call \in [Callers \cup Runs ->
                [pc : {"none", "idle", "await", "select", "canceled", "deliver", "drained",
                       "cancel", "stop", "wait", "ended"},
                 stopReader : BOOLEAN, done : Runs \cup {None}, cancel : Runs \cup {None}]]
  /\ sub \in [Subscribers -> [state : {"new", "open", "closed"}, born : 0..MaxRuns]]

InReader(r) == run[r].reader \in {"open", "reading"}

\* The reader is never entered twice at once, although a monitor may be
\* started again while the last run unwinds: Start waits for readerDone.
OneReader == Cardinality({r \in Runs : InReader(r)}) <= 1

\* A reader that blocks on an idle ring buffer is never left behind: it
\* belongs to the run in force, or its context is canceled, or a Stop that
\* holds its cancel function is about to call it.
NoAbandonedReader ==
  \A r \in Runs : InReader(r) =>
    \/ mon.running /\ mon.runGeneration = r
    \/ ReaderCanceled(r)
    \/ \E x \in Callers \cup Runs : At(x, "cancel") /\ call[x].cancel = r

\* A subscription lives within one run: it is closed when the run ends,
\* whoever ends it, and a stopped monitor accepts none.  Only one made before
\* the first Start carries over, into the first run.
SubscriptionsEndWithRun ==
  \A s \in Subscribers : sub[s].state = "open" =>
    \/ mon.running /\ sub[s].born = mon.runGeneration
    \/ mon.runGeneration <= 1 /\ sub[s].born = 0 /\ (mon.running \/ ~mon.started)

\* Err reports a reader's failure and nothing else: neither a canceled
\* context nor an intentional Stop; and a run that ended because its reader
\* failed, neither stopped nor canceled, does report it.
ErrTruthful ==
  /\ mon.readerErr => run[mon.runGeneration].result = "error"
  /\ \A r \in Runs :
       /\ Current(r) /\ mon.started /\ ~mon.running
       /\ run[r].result = "error" /\ ~run[r].ctx
       => mon.readerErr

\* Goroutines left over from an earlier run are harmless: a processor only
\* ever ends the run it belongs to.
StaleProcessorHarmless ==
  [][ mon.running /\ ~mon'.running =>
        \A r \in Runs : call'[r].pc # call[r].pc => r = mon.runGeneration ]_vars

\* Every call of Stop returns: the reader it waits for comes back, however
\* Start, Stop and the cancellation of the context interleave.
StopCompletes ==
  \A c \in Callers : call[c].pc \in {"cancel", "stop", "wait"} ~> call[c].pc = "idle"

\* A run whose reader has ended does not go on existing in the monitor's
\* state, where a later Start would take it for a running one.
RunEnds ==
  \A r \in Runs : run[r].reader = "done" ~> ~(mon.running /\ mon.runGeneration = r)

\* What always holds of the reader goroutines: their types, one ring-buffer
\* reader at a time, and none that nobody waits for or cancels
\* (Monitor.Start, Monitor.Stop).
ReadersSound == TypeOK /\ OneReader /\ NoAbandonedReader

\* Every Stop returns, and every run whose reader ends or that is stopped comes
\* to its end, with the monitor ready for the next Start (Monitor.Stop,
\* processEvents).
StopsAndRunsEnd == StopCompletes /\ RunEnds
=============================================================================
