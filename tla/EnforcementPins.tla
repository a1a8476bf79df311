--------------------------- MODULE EnforcementPins ---------------------------
(***************************************************************************)
(* The pinned objects that keep enforcement alive without the agent: maps, *)
(* program generations with their registry, and the links that run the     *)
(* programs.  Every start of the agent loads a new generation, publishes   *)
(* it, moves the links over and retires what no link uses; `ztap cleanup`  *)
(* takes everything down.  Both write pin by pin, may be killed between    *)
(* any two writes and are run again; both refuse to touch pins they cannot *)
(* account for.  The node lock keeps them apart.                           *)
(*                                                                         *)
(* Simplifications: a program is a pair of generation and kind; the two    *)
(* directions of a subject are links with a life of their own that run one *)
(* kind of program, so a generation has four programs for the code's five; *)
(* one parent cgroup is guarded; the maps that programs reference are      *)
(* "data", the two ownership maps are "owners".  DurableLinks models the   *)
(* ownership records themselves.                                           *)
(***************************************************************************)
EXTENDS Integers, FiniteSets, Sequences

CONSTANTS
    Subjects,       \* places for directional links of subjects
    MaxGen,         \* bound: generations loaded
    RegistryMax,    \* capacity of the program registry
    None

ASSUME SubjectsFinite == IsFiniteSet(Subjects)
ASSUME GenAssumption == MaxGen \in Nat \ {0}
ASSUME RegistryAssumption == RegistryMax \in Nat
\* No subject has the name of a guard link, and None is no program.
ASSUME NamesAssumption ==
    /\ Subjects \cap {"socket", "egress", "ingress"} = {}
    /\ None \notin Nat \X {"subject", "socket", "egress", "ingress"}

GuardLinks == {"socket", "egress", "ingress"}
Links == Subjects \cup GuardLinks
Kinds == {"subject"} \cup GuardLinks
Programs == (1 .. MaxGen) \X Kinds
MapNames == {"journal", "registry", "owners", "data"}

VARIABLES
    mapPins,    \* pinned maps
    removing,   \* the journal's flag: intentional removal has begun
    registry,   \* program registry
    progPins,   \* pinned programs
    link,       \* per link, the program it runs, or None when it is not pinned
    alive,      \* per subject, whether its cgroup exists
    guard,      \* ownership record of the guarded parent
    agent,      \* pc, generation, what is left to do, recovered and stale programs
    failed,     \* history: starts that failed since the last complete one
    cleanup     \* whether a cleanup is removing pins

kernel == <<mapPins, removing, registry, progPins, link, alive, guard>>
vars == <<kernel, agent, failed, cleanup>>

AgentPCs == {"down", "maps", "publish", "pin", "update", "guard", "retire", "unlist", "stale",
             "running"}

TypeOK ==
    /\ mapPins \subseteq MapNames
    /\ removing \in BOOLEAN
    /\ registry \subseteq Programs
    /\ progPins \subseteq Programs
    /\ link \in [Links -> Programs \cup {None}]
    /\ alive \in [Subjects -> BOOLEAN]
    /\ guard \in {"none", "partial", "complete"}
    /\ agent.pc \in AgentPCs
    /\ agent.gen \in 0 .. MaxGen
    /\ agent.todo \subseteq Kinds \cup Links
    /\ agent.cur \in Programs \cup {None}
    /\ agent.recovered \subseteq Programs
    /\ agent.stale \subseteq Programs
    /\ failed \in 0 .. MaxGen
    /\ cleanup \in BOOLEAN

Pinned == {l \in Links : link[l] # None}
InUse == {link[l] : l \in Pinned}
Empty == mapPins = {} /\ progPins = {} /\ Pinned = {}
OwnGeneration == {<<agent.gen, k>> : k \in Kinds}
Starting == agent.pc \notin {"down", "running"}

Down(gen) == [pc |-> "down", gen |-> gen, todo |-> {}, cur |-> None, recovered |-> {},
              stale |-> {}]

Init ==
    /\ mapPins = {} /\ registry = {} /\ progPins = {}
    /\ removing = FALSE
    /\ link = [l \in Links |-> None]
    /\ alive = [s \in Subjects |-> TRUE]
    /\ guard = "none"
    /\ agent = Down(0)
    /\ failed = 0
    /\ cleanup = FALSE

(***************************************************************************)
(* What a start and a cleanup check before they write anything.            *)
(***************************************************************************)

\* openDurableMaps: all maps of the journal, and no removal in progress.
MapsRecoverable == mapPins = MapNames /\ ~removing

\* validatePinInventory: a record without a pin is stale, a pin without a record foreign.
ProgramsRecoverable == progPins \subseteq registry

\* recoverLinks: a link runs a program that was recovered.
LinksRecoverable == \A s \in Subjects \cap Pinned : link[s] \in registry \cap progPins

\* recoverGuardLinks: the same of the guard, which must be whole once it was complete.
GuardRecoverable ==
    /\ \A g \in GuardLinks \cap Pinned : link[g] \in registry \cap progPins
    /\ guard = "complete" => GuardLinks \subseteq Pinned
    /\ guard = "none" => GuardLinks \cap Pinned = {}

Recoverable == MapsRecoverable /\ ProgramsRecoverable /\ LinksRecoverable /\ GuardRecoverable

\* Cleanup opens what the journal lists.  A map that is not pinned is lost unless a
\* program holds it, which no program does with the ownership maps and the registry.
Readable(m) == {"journal", m} \subseteq mapPins

ProgramsRemovable == progPins # {} => Readable("registry") /\ progPins \subseteq registry

\* Every link runs a registered program, and a guard link has its ownership record.
LinksRemovable ==
    /\ Pinned # {} => Readable("registry") /\ Readable("owners") /\ InUse \subseteq registry
    /\ GuardLinks \cap Pinned # {} => guard # "none"

\* The checks of removeEnforcement.
Removable == Readable("journal") /\ ProgramsRemovable /\ LinksRemovable

(***************************************************************************)
(* A start of the agent.                                                   *)
(***************************************************************************)

Unlocked == agent.pc = "down" /\ ~cleanup

StartFresh ==
    /\ Unlocked
    /\ Empty
    /\ agent.gen < MaxGen
    /\ agent' = [Down(agent.gen + 1) EXCEPT !.pc = "maps"]
    /\ registry' = {}
    /\ guard' = "none"
    /\ removing' = FALSE
    /\ UNCHANGED <<mapPins, progPins, link, alive, failed, cleanup>>

\* publishDurableMaps: the journal is pinned first.
PublishMap(m) ==
    /\ agent.pc = "maps"
    /\ m \in MapNames \ mapPins
    /\ m # "journal" => "journal" \in mapPins
    /\ mapPins' = mapPins \cup {m}
    /\ agent' = IF mapPins' = MapNames
                  THEN [agent EXCEPT !.pc = "publish", !.todo = Kinds]
                  ELSE agent
    /\ UNCHANGED <<removing, registry, progPins, link, alive, guard, failed, cleanup>>

StartRecovers ==
    /\ Unlocked
    /\ Recoverable
    /\ agent.gen < MaxGen
    /\ agent' = [pc |-> "publish", gen |-> agent.gen + 1, todo |-> Kinds, cur |-> None,
                 recovered |-> registry \cap progPins, stale |-> registry \ progPins]
    /\ UNCHANGED <<kernel, failed, cleanup>>

\* publishPrograms, in any order of kinds: a registry record, which needs room, ...
Register(k) ==
    /\ agent.pc = "publish"
    /\ k \in agent.todo
    /\ Cardinality(registry) < RegistryMax
    /\ registry' = registry \cup {<<agent.gen, k>>}
    /\ agent' = [agent EXCEPT !.pc = "pin", !.cur = <<agent.gen, k>>]
    /\ UNCHANGED <<mapPins, removing, progPins, link, alive, guard, failed, cleanup>>

\* ... then the pin; after the last one every recovered link is to be updated.
PinProgram ==
    /\ agent.pc = "pin"
    /\ progPins' = progPins \cup {agent.cur}
    /\ LET todo == agent.todo \ {agent.cur[2]} IN
        agent' = [agent EXCEPT !.cur = None,
                               !.pc = IF todo = {} THEN "update" ELSE "publish",
                               !.todo = IF todo = {} THEN Subjects \cap Pinned ELSE todo]
    /\ UNCHANGED <<mapPins, removing, registry, link, alive, guard, failed, cleanup>>

\* Mutant: the first failing update is taken for the end of the list.
UpdateLinkStops(s) ==
    /\ agent.pc = "update"
    /\ s \in agent.todo
    /\ agent' = [agent EXCEPT !.todo = {}]
    /\ UNCHANGED <<kernel, failed, cleanup>>

\* updateRecoveredLinks: links of dead cgroups are left alone.
UpdateLink(s) ==
    /\ agent.pc = "update"
    /\ s \in agent.todo
    /\ agent' = [agent EXCEPT !.todo = @ \ {s}]
    /\ link' = [link EXCEPT ![s] = IF alive[s] THEN <<agent.gen, "subject">> ELSE @]
    /\ UNCHANGED <<mapPins, removing, registry, progPins, alive, guard, failed, cleanup>>

\* installGuard: without one, a recorded parent is an error; otherwise the record comes
\* first.
BeginGuard ==
    /\ agent.pc = "update"
    /\ agent.todo = {}
    /\ \/ /\ guard = "none"
          /\ agent' = [agent EXCEPT !.pc = "retire"]
          /\ UNCHANGED guard
       \/ /\ agent' = [agent EXCEPT !.pc = "guard", !.todo = GuardLinks]
          /\ guard' = IF guard = "none" THEN "partial" ELSE guard
    /\ UNCHANGED <<mapPins, removing, registry, progPins, link, alive, failed, cleanup>>

\* installParentGuard installs socket capture before either directional guard.
GuardOrder == <<"socket", "egress", "ingress">>

\* A guard link is updated, or attached and pinned, with the new program.
InstallGuardLink(i) ==
    /\ agent.pc = "guard"
    /\ GuardOrder[i] \in agent.todo
    /\ \A j \in 1 .. i - 1 : GuardOrder[j] \notin agent.todo
    /\ link' = [link EXCEPT ![GuardOrder[i]] = <<agent.gen, GuardOrder[i]>>]
    /\ agent' = [agent EXCEPT !.todo = @ \ {GuardOrder[i]}]
    /\ UNCHANGED <<mapPins, removing, registry, progPins, alive, guard, failed, cleanup>>

GuardComplete ==
    /\ agent.pc = "guard"
    /\ agent.todo = {}
    /\ guard' = "complete"
    /\ agent' = [agent EXCEPT !.pc = "retire"]
    /\ UNCHANGED <<mapPins, removing, registry, progPins, link, alive, failed, cleanup>>

\* Mutant: everything but the own generation is retired.
RetirableAll == agent.recovered

\* The recovered programs that no link runs.
Retirable == agent.recovered \ InUse

\* retirePrograms: a recovered program that no link runs loses its pin, then its record.
RetireUnpin(p) ==
    /\ agent.pc = "retire"
    /\ p \in Retirable
    /\ progPins' = progPins \ {p}
    /\ agent' = [agent EXCEPT !.pc = "unlist", !.cur = p, !.recovered = @ \ {p}]
    /\ UNCHANGED <<mapPins, removing, registry, link, alive, guard, failed, cleanup>>

RetireUnlist ==
    /\ agent.pc = "unlist"
    /\ registry' = registry \ {agent.cur}
    /\ agent' = [agent EXCEPT !.pc = "retire", !.cur = None]
    /\ UNCHANGED <<mapPins, removing, progPins, link, alive, guard, failed, cleanup>>

RetireStale ==
    /\ agent.pc = "retire"
    /\ Retirable = {}
    /\ agent' = [agent EXCEPT !.pc = "stale", !.recovered = {}]
    /\ UNCHANGED <<kernel, failed, cleanup>>

\* Records that an interrupted publication or retirement left without a pin.
UnlistStale(p) ==
    /\ agent.pc = "stale"
    /\ p \in agent.stale
    /\ registry' = registry \ {p}
    /\ agent' = [agent EXCEPT !.stale = @ \ {p}]
    /\ UNCHANGED <<mapPins, removing, progPins, link, alive, guard, failed, cleanup>>

StartDone ==
    /\ agent.pc = "stale"
    /\ agent.stale = {}
    /\ agent' = [agent EXCEPT !.pc = "running"]
    /\ failed' = 0
    /\ UNCHANGED <<kernel, cleanup>>

(***************************************************************************)
(* The running agent, cgroups, and the end of the process.                 *)
(***************************************************************************)

AttachSubject(s) ==
    /\ agent.pc = "running"
    /\ link[s] = None
    /\ alive[s]
    /\ link' = [link EXCEPT ![s] = <<agent.gen, "subject">>]
    /\ UNCHANGED <<mapPins, removing, registry, progPins, alive, guard, agent, failed, cleanup>>

DetachSubject(s) ==
    /\ agent.pc = "running"
    /\ link[s] # None
    /\ link' = [link EXCEPT ![s] = None]
    /\ UNCHANGED <<mapPins, removing, registry, progPins, alive, guard, agent, failed, cleanup>>

CgroupDies(s) ==
    /\ alive[s]
    /\ alive' = [alive EXCEPT ![s] = FALSE]
    /\ UNCHANGED <<mapPins, removing, registry, progPins, link, guard, agent, failed, cleanup>>

CgroupCreated(s) ==
    /\ ~alive[s]
    /\ link[s] = None
    /\ alive' = [alive EXCEPT ![s] = TRUE]
    /\ UNCHANGED <<mapPins, removing, registry, progPins, link, guard, agent, failed, cleanup>>

\* The process is killed, a call fails and startup gives up, or the agent stops.  What is
\* pinned stays.
AgentEnds ==
    /\ agent.pc # "down"
    /\ agent' = Down(agent.gen)
    /\ failed' = IF Starting THEN failed + 1 ELSE failed
    /\ UNCHANGED <<kernel, cleanup>>

(***************************************************************************)
(* Explicit removal.                                                       *)
(***************************************************************************)

CleanupBegins ==
    /\ Unlocked
    /\ ~Empty
    /\ Removable
    /\ removing' = TRUE
    /\ cleanup' = TRUE
    /\ UNCHANGED <<mapPins, registry, progPins, link, alive, guard, agent, failed>>

\* Link pins go first, in the order of their names: directional guards before the socket
\* capture, guards before subjects.
RemoveLinkPin(l) ==
    /\ cleanup
    /\ l \in Pinned
    /\ l = "ingress" => "egress" \notin Pinned
    /\ l = "socket" => {"egress", "ingress"} \cap Pinned = {}
    /\ l \in Subjects => GuardLinks \cap Pinned = {}
    /\ link' = [link EXCEPT ![l] = None]
    /\ UNCHANGED <<mapPins, removing, registry, progPins, alive, guard, agent, failed, cleanup>>

RemoveProgramPin(p) ==
    /\ cleanup
    /\ Pinned = {}
    /\ p \in progPins
    /\ progPins' = progPins \ {p}
    /\ UNCHANGED <<mapPins, removing, registry, link, alive, guard, agent, failed, cleanup>>

\* Mutant: maps go while programs are still pinned.
RemoveMapPinEarly(m) ==
    /\ cleanup
    /\ Pinned = {}
    /\ m \in mapPins
    /\ m = "journal" => mapPins = {"journal"}
    /\ mapPins' = mapPins \ {m}
    /\ cleanup' = (mapPins' # {})
    /\ UNCHANGED <<removing, registry, progPins, link, alive, guard, agent, failed>>

\* Maps follow, the journal last; then cleanup returns.
RemoveMapPin(m) ==
    /\ cleanup
    /\ Pinned = {}
    /\ progPins = {}
    /\ m \in mapPins
    /\ m = "journal" => mapPins = {"journal"}
    /\ mapPins' = mapPins \ {m}
    /\ cleanup' = (mapPins' # {})
    /\ UNCHANGED <<removing, registry, progPins, link, alive, guard, agent, failed>>

CleanupEnds ==
    /\ cleanup
    /\ cleanup' = FALSE
    /\ UNCHANGED <<kernel, agent, failed>>

RemovePin ==
    \/ \E l \in Links : RemoveLinkPin(l)
    \/ \E p \in Programs : RemoveProgramPin(p)
    \/ \E m \in MapNames : RemoveMapPin(m)

Start ==
    \/ StartFresh \/ StartRecovers
    \/ \E m \in MapNames : PublishMap(m)
    \/ \E k \in Kinds : Register(k)
    \/ PinProgram
    \/ \E s \in Subjects : UpdateLink(s)
    \/ BeginGuard
    \/ \E i \in DOMAIN GuardOrder : InstallGuardLink(i)
    \/ GuardComplete
    \/ \E p \in Programs : RetireUnpin(p) \/ UnlistStale(p)
    \/ RetireUnlist \/ RetireStale \/ StartDone

Next ==
    \/ Start
    \/ \E s \in Subjects :
        AttachSubject(s) \/ DetachSubject(s) \/ CgroupDies(s) \/ CgroupCreated(s)
    \/ AgentEnds
    \/ CleanupBegins \/ RemovePin \/ CleanupEnds

Spec == Init /\ [][Next]_vars

\* The operator repeats an interrupted cleanup, and not every attempt is interrupted
\* before it has removed anything.
FairSpec == Spec /\ SF_vars(CleanupBegins) /\ SF_vars(RemovePin)

(***************************************************************************)
(* Properties.                                                             *)
(***************************************************************************)

\* A restart never meets pins it refuses: whatever write the last process died at, every
\* pinned link runs a program that is pinned and registered, every program pin is
\* registered and a completed guard is whole.  Only an interrupted first publication and a
\* removal in progress are left to cleanup.
StartSucceeds ==
    Unlocked /\ mapPins = MapNames /\ ~removing => Recoverable

\* Cleanup can account for everything it finds, after any interrupted start and after any
\* interrupted cleanup.
CleanupRetryable ==
    Unlocked /\ ~Empty => Removable

\* When a start is complete, every link of a live cgroup runs the new generation, and
\* nothing else is left than programs that links of dead cgroups still run.
StartLeavesOneGeneration ==
    [][agent.pc # "running" /\ agent'.pc = "running" =>
        /\ registry' = progPins'
        /\ registry' \subseteq OwnGeneration' \cup InUse'
        /\ OwnGeneration' \subseteq registry'
        /\ \A s \in Subjects : link'[s] # None /\ alive'[s] => link'[s][1] = agent'.gen]_vars

\* Each start that fails may leave one generation in the registry, and nothing else does:
\* the registry's capacity bounds the starts that may fail in a row.
RegistryGrowsByFailedStarts ==
    Cardinality(registry) <= Cardinality(Kinds) * (2 + failed) + Cardinality(Subjects)

\* A directional guard never filters without the socket capture that it relies on, through
\* installation, upgrades and removal.
CaptureBeforeGuard ==
    {"egress", "ingress"} \cap Pinned # {} => "socket" \in Pinned

\* A removal that has begun is not undone: no pin comes back until the directory is empty.
RemovalOnlyRemoves ==
    [][removing => /\ mapPins' \subseteq mapPins \/ Empty
                   /\ progPins' \subseteq progPins
                   /\ Pinned' \subseteq Pinned]_vars

\* A removal that has begun and is repeated when interrupted takes everything down.
RemovalCompletes == (removing /\ ~Empty) ~> Empty

\* Whatever is pinned is accounted for, after any crash: types, the next start
\* and the next cleanup accept it, the registry grows only by the generations
\* of failed starts, and the sockets are captured before the guard is on
\* (recoverPrograms, RemoveEnforcement, installGuard).
PinsAccountable ==
    /\ TypeOK
    /\ StartSucceeds
    /\ CleanupRetryable
    /\ RegistryGrowsByFailedStarts
    /\ CaptureBeforeGuard

\* What the steps may do: a completed start leaves the programs of its own
\* generation alone, and a removal adds no pin (retirePrograms,
\* RemoveEnforcement).
PinStepsSound == StartLeavesOneGeneration /\ RemovalOnlyRemoves
==============================================================================
