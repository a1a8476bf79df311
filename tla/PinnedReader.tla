----------------------------- MODULE PinnedReader -----------------------------
(***************************************************************************)
(* mapOwningReader: the reader that `ztap flows` gives to its monitor.  It *)
(* owns the handles of two pinned maps.  Each Start runs the ring-buffer   *)
(* reader and the status poll in goroutines of their own and ends when     *)
(* either ends; Stop waits for a Start in progress and closes the handles. *)
(*                                                                         *)
(* Simplifications: events are left out; the poll of AgentStatus is        *)
(* reduced to its end, with an error or by cancellation; the goroutine     *)
(* that watches the context inside LinuxReader.Start is merged into the    *)
(* step that ends the read, which does not return before that goroutine.   *)
(***************************************************************************)
EXTENDS Naturals, FiniteSets

CONSTANTS
    Starts,     \* calls of Start
    Stops,      \* calls of Stop
    NoStart     \* a nil channel, or no ring buffer

ASSUME NoStartAssumption == NoStart \notin Starts

VARIABLES
    owner,      \* mapOwningReader: running, done (the Start that made the channel), closed
    maps,       \* "owned" by the reader, "taken" by a Stop, or "closed"
    start,      \* per Start: pc, parent context canceled, own context canceled, result
    reader,     \* per Start: goroutine running inner.Start, with what it returned
    status,     \* per Start: goroutine polling the status, with what it returned
    ring,       \* LinuxReader: the Start whose ring buffer is open, or NoStart
    stop        \* per Stop: pc, the done channel and whether the handles are its own

readerVars == <<owner, maps, start, reader, status, ring, stop>>

Results == {"none", "nil", "canceled", "error"}
Goroutine == [pc : {"off", "new", "busy", "done"}, result : Results]

ReaderTypeOK ==
    /\ owner \in [running : BOOLEAN, done : Starts \cup {NoStart}, closed : BOOLEAN]
    /\ maps \in {"owned", "taken", "closed"}
    /\ start \in [Starts -> [pc : {"idle", "select", "joining", "stopping", "ended", "returned"},
                             parent : BOOLEAN, canceled : BOOLEAN, result : Results]]
    /\ reader \in [Starts -> Goroutine]
    /\ status \in [Starts -> Goroutine]
    /\ ring \in Starts \cup {NoStart}
    /\ stop \in [Stops -> [pc : {"idle", "inner", "waiting", "closing", "returned"},
                           done : Starts \cup {NoStart}, maps : BOOLEAN]]

Off == [pc |-> "off", result |-> "none"]
Ended(r) == [pc |-> "done", result |-> r]

ReaderInit ==
    /\ owner = [running |-> FALSE, done |-> NoStart, closed |-> FALSE]
    /\ maps = "owned"
    /\ start = [s \in Starts |-> [pc |-> "idle", parent |-> FALSE, canceled |-> FALSE,
                                  result |-> "none"]]
    /\ reader = [s \in Starts |-> Off]
    /\ status = [s \in Starts |-> Off]
    /\ ring = NoStart
    /\ stop = [t \in Stops |-> [pc |-> "idle", done |-> NoStart, maps |-> FALSE]]

\* readCtx: canceled with the parent or by its own cancel function.
ReadCanceled(s) == start[s].parent \/ start[s].canceled

CancelParent(s) ==
    /\ ~start[s].parent
    /\ start' = [start EXCEPT ![s].parent = TRUE]
    /\ UNCHANGED <<owner, maps, reader, status, ring, stop>>

(***************************************************************************)
(* Start.                                                                  *)
(***************************************************************************)

\* Start returns at once: canceled, closed, or somebody else is running.
StartRefused(s) ==
    /\ start[s].pc = "idle"
    /\ start[s].parent \/ owner.closed \/ owner.running
    /\ start' = [start EXCEPT ![s] =
           [@ EXCEPT !.pc = "returned",
                     !.result = IF start[s].parent THEN "canceled"
                                ELSE IF owner.closed THEN "error" ELSE "nil"]]
    /\ UNCHANGED <<owner, maps, reader, status, ring, stop>>

\* The critical section that takes the reader, and the two goroutines.
StartRuns(s) ==
    /\ start[s].pc = "idle"
    /\ ~start[s].parent
    /\ ~owner.closed
    /\ ~owner.running
    /\ owner' = [owner EXCEPT !.running = TRUE, !.done = s]
    /\ start' = [start EXCEPT ![s].pc = "select"]
    /\ reader' = [reader EXCEPT ![s].pc = "new"]
    /\ status' = [status EXCEPT ![s].pc = "new"]
    /\ UNCHANGED <<maps, ring, stop>>

\* Mutant: the status poll is not canceled when the reader has ended.
ReaderFirstKeepsPolling(s) ==
    /\ start[s].pc = "select"
    /\ reader[s].pc = "done"
    /\ start' = [start EXCEPT ![s].pc = "joining"]
    /\ UNCHANGED <<owner, maps, reader, status, ring, stop>>

\* select takes the reader's end: cancel and wait for the poll.
ReaderFirst(s) ==
    /\ start[s].pc = "select"
    /\ reader[s].pc = "done"
    /\ start' = [start EXCEPT ![s] = [@ EXCEPT !.pc = "joining", !.canceled = TRUE]]
    /\ UNCHANGED <<owner, maps, reader, status, ring, stop>>

\* select takes the poll's end: cancel, stop the inner reader, wait for it.
StatusFirst(s) ==
    /\ start[s].pc = "select"
    /\ status[s].pc = "done"
    /\ start' = [start EXCEPT ![s] = [@ EXCEPT !.pc = "stopping", !.canceled = TRUE]]
    /\ UNCHANGED <<owner, maps, reader, status, ring, stop>>

StatusFirstStops(s) ==
    /\ start[s].pc = "stopping"
    /\ start' = [start EXCEPT ![s].pc = "joining"]
    /\ ring' = NoStart
    /\ UNCHANGED <<owner, maps, reader, status, stop>>

\* joinPinnedFlowReaderErrors.
Joined(s) ==
    IF start[s].parent THEN "canceled"
    ELSE IF "error" \in {reader[s].result, status[s].result} THEN "error" ELSE "nil"

StartEnds(s) ==
    /\ start[s].pc = "joining"
    /\ reader[s].pc = "done"
    /\ status[s].pc = "done"
    /\ start' = [start EXCEPT ![s] = [@ EXCEPT !.pc = "ended", !.result = Joined(s)]]
    /\ UNCHANGED <<owner, maps, reader, status, ring, stop>>

\* The deferred critical section; a returned Start is one whose done channel is closed.
StartReturns(s) ==
    /\ start[s].pc = "ended"
    /\ owner' = [owner EXCEPT !.running = FALSE, !.done = IF @ = s THEN NoStart ELSE @]
    /\ start' = [start EXCEPT ![s].pc = "returned"]
    /\ UNCHANGED <<maps, reader, status, ring, stop>>

(***************************************************************************)
(* The goroutines of a Start.                                              *)
(***************************************************************************)

\* inner.Start opens the ring buffer of the flow map, unless canceled or failing.
ReaderOpens(s) ==
    /\ reader[s].pc = "new"
    /\ ~ReadCanceled(s)
    /\ ring = NoStart
    /\ ring' = s
    /\ reader' = [reader EXCEPT ![s].pc = "busy"]
    /\ UNCHANGED <<owner, maps, start, status, stop>>

ReaderDeclines(s) ==
    /\ reader[s].pc = "new"
    /\ \E r \in {"nil", "canceled", "error"} :
        /\ r = "nil" => ring # NoStart
        /\ r = "canceled" => ReadCanceled(s)
        /\ reader' = [reader EXCEPT ![s] = Ended(r)]
    /\ UNCHANGED <<owner, maps, start, status, ring, stop>>

\* The ring buffer was closed by a Stop, the context is canceled, or a read fails.
ReaderEnds(s) ==
    /\ reader[s].pc = "busy"
    /\ \E r \in {"nil", "canceled", "error"} :
        /\ r = "nil" => ring # s
        /\ r = "canceled" => ReadCanceled(s)
        /\ reader' = [reader EXCEPT ![s] = Ended(r)]
    /\ ring' = IF ring = s THEN NoStart ELSE ring
    /\ UNCHANGED <<owner, maps, start, status, stop>>

StatusPolls(s) ==
    /\ status[s].pc = "new"
    /\ status' = [status EXCEPT ![s].pc = "busy"]
    /\ UNCHANGED <<owner, maps, start, reader, ring, stop>>

StatusEnds(s) ==
    /\ status[s].pc \in {"new", "busy"}
    /\ ReadCanceled(s)
    /\ status' = [status EXCEPT ![s] = Ended("canceled")]
    /\ UNCHANGED <<owner, maps, start, reader, ring, stop>>

StatusFails(s) ==
    /\ status[s].pc = "busy"
    /\ status' = [status EXCEPT ![s] = Ended("error")]
    /\ UNCHANGED <<owner, maps, start, reader, ring, stop>>

(***************************************************************************)
(* Stop.                                                                   *)
(***************************************************************************)

\* The critical section: the reader is closed for good and its handles are taken.
StopTakes(t) ==
    /\ stop[t].pc = "idle"
    /\ stop' = [stop EXCEPT ![t] = [pc |-> "inner", done |-> owner.done, maps |-> maps = "owned"]]
    /\ owner' = [owner EXCEPT !.closed = TRUE]
    /\ maps' = IF maps = "owned" THEN "taken" ELSE maps
    /\ UNCHANGED <<start, reader, status, ring>>

\* inner.Stop closes whatever ring buffer is open.
StopInner(t) ==
    /\ stop[t].pc = "inner"
    /\ ring' = NoStart
    /\ stop' = [stop EXCEPT ![t].pc = "waiting"]
    /\ UNCHANGED <<owner, maps, start, reader, status>>

\* Mutant: Stop does not wait for the Start in progress.
StopDoesNotWait(t) ==
    /\ stop[t].pc = "waiting"
    /\ stop' = [stop EXCEPT ![t].pc = "closing"]
    /\ UNCHANGED <<owner, maps, start, reader, status, ring>>

StopWaited(t) ==
    /\ stop[t].pc = "waiting"
    /\ stop[t].done # NoStart => start[stop[t].done].pc = "returned"
    /\ stop' = [stop EXCEPT ![t].pc = "closing"]
    /\ UNCHANGED <<owner, maps, start, reader, status, ring>>

StopReturns(t) ==
    /\ stop[t].pc = "closing"
    /\ stop' = [stop EXCEPT ![t].pc = "returned"]
    /\ maps' = IF stop[t].maps THEN "closed" ELSE maps
    /\ UNCHANGED <<owner, start, reader, status, ring>>

StartGoes(s) ==
    \/ ReaderFirst(s) \/ StatusFirst(s) \/ StatusFirstStops(s) \/ StartEnds(s)
    \/ StartReturns(s)

ReaderGoes(s) ==
    \/ ReaderOpens(s)
    \/ (reader[s].pc = "new" /\ ReadCanceled(s) /\ ReaderDeclines(s))
    \/ (reader[s].pc = "busy" /\ (ring # s \/ ReadCanceled(s)) /\ ReaderEnds(s))

StopGoes(t) == StopInner(t) \/ StopWaited(t) \/ StopReturns(t)

ReaderNext ==
    \/ \E s \in Starts :
        \/ CancelParent(s) \/ StartRefused(s) \/ StartRuns(s) \/ StartGoes(s)
        \/ ReaderOpens(s) \/ ReaderDeclines(s) \/ ReaderEnds(s)
        \/ StatusPolls(s) \/ StatusEnds(s) \/ StatusFails(s)
    \/ \E t \in Stops : StopTakes(t) \/ StopGoes(t)

ReaderSpec == ReaderInit /\ [][ReaderNext]_readerVars

\* Goroutines and calls in progress go on; a read ends once it is woken.  No context has
\* to be canceled, no status to become invalid and no read to fail.
ReaderFairSpec ==
    /\ ReaderSpec
    /\ \A s \in Starts : /\ WF_readerVars(StartGoes(s))
                         /\ WF_readerVars(ReaderGoes(s))
                         /\ WF_readerVars(StatusEnds(s))
    /\ \A t \in Stops : WF_readerVars(StopGoes(t))

(***************************************************************************)
(* Properties.                                                             *)
(***************************************************************************)

\* The map handles are not closed while a goroutine of some Start may still use them: the
\* poll reads the status map, and inner.Start opens the flow map, at any moment.
NoUseAfterClose ==
    maps = "closed" =>
        \A s \in Starts : {reader[s].pc, status[s].pc} \cap {"new", "busy"} = {}

\* A Start that took the reader returns without an error only because a Stop closed its
\* ring buffer, which is how the flows command tells a stop from a failure.
SilentEndMeansStopped ==
    \A s \in Starts :
        start[s].result = "nil" /\ reader[s].pc = "done" => owner.closed

\* Reader and poll end together: when one of them ends, Start ends the other and returns.
EndsTogether ==
    \A s \in Starts :
        (reader[s].pc = "done" \/ status[s].pc = "done") ~> (start[s].pc = "returned")

\* Once the contexts are canceled, as the monitor does before it calls Stop, Stop returns,
\* even when its inner.Stop came before the ring buffer was open.
StopCompletes ==
    \A t \in Stops :
        (stop[t].pc # "idle" /\ \A s \in Starts : start[s].parent) ~> (stop[t].pc = "returned")

\* Every handle, goroutine and call is in a state it can be in; no map handle is closed
\* under a goroutine that may still use it; and a Start ends without an error only because
\* a Stop closed its ring buffer (mapOwningReader.Start, mapOwningReader.Stop).
ReaderSafe == ReaderTypeOK /\ NoUseAfterClose /\ SilentEndMeansStopped
==============================================================================
