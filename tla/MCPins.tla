------------------------------- MODULE MCPins -------------------------------
(* Two users of the pinned objects that outlive the agent, one at a time:  *)
(* starts, restarts and explicit removal of enforcement, or the flow       *)
(* reader that opens the pinned maps.  `part' says which one runs, the     *)
(* other stays in its initial state.                                       *)
EXTENDS EnforcementPins, PinnedReader

VARIABLE part

Runs(p) == part = p /\ part' = p

MCInit == part \in {"pins", "reader"} /\ Init /\ ReaderInit

MCNext ==
    \/ Runs("pins") /\ Next /\ UNCHANGED readerVars
    \/ Runs("reader") /\ ReaderNext /\ UNCHANGED vars

\* The fairness of each module, for the part that runs.
PartFairness ==
    /\ SF_vars(Runs("pins") /\ CleanupBegins) /\ SF_vars(Runs("pins") /\ RemovePin)
    /\ \A s \in Starts : /\ WF_readerVars(Runs("reader") /\ StartGoes(s))
                         /\ WF_readerVars(Runs("reader") /\ ReaderGoes(s))
                         /\ WF_readerVars(Runs("reader") /\ StatusEnds(s))
    /\ \A t \in Stops : WF_readerVars(Runs("reader") /\ StopGoes(t))

MCSpec == MCInit /\ [][MCNext]_<<part, vars, readerVars>> /\ PartFairness

-----------------------------------------------------------------------------
(* The properties of the parts.                                            *)

\* EnforcementPins: an explicit removal that is repeated often enough leaves
\* no pin behind (RemoveEnforcement).
PinsRemovalCompletes == part = "pins" => RemovalCompletes
\* PinnedReader: the reader and the status poll of one Start end together, and
\* a Stop returns once the contexts are canceled (mapOwningReader.Start,
\* mapOwningReader.Stop).
StartsAndStopsEnd == part = "reader" => EndsTogether /\ StopCompletes
=============================================================================
