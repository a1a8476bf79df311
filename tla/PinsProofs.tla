----------------------------- MODULE PinsProofs -----------------------------
(***************************************************************************)
(* Proofs about the two users of the pinned objects: EnforcementPins,      *)
(* which starts, restarts and removes enforcement, and PinnedReader, the   *)
(* flow reader that opens the pinned maps.                                 *)
(***************************************************************************)
EXTENDS EnforcementPins, PinnedReader, FiniteSetTheorems, TLAPS

(***************************************************************************)
(* Proofs about EnforcementPins, for any subjects, any number of           *)
(* generations and any capacity of the registry: whatever write a start or *)
(* a removal was killed at, the next one accepts what is pinned, and the   *)
(* registry has grown only by the generations of failed starts.            *)
(***************************************************************************)

\* The agent's record; TypeOK only speaks of its fields.
AgentRecords ==
    [pc : AgentPCs, gen : 0 .. MaxGen, todo : SUBSET (Kinds \cup Links),
     cur : Programs \cup {None}, recovered : SUBSET Programs, stale : SUBSET Programs]

\* Each start has a generation of its own, the ones that failed too.
FailedStarts ==
    /\ failed + (IF Starting THEN 1 ELSE 0) <= agent.gen
    /\ agent.pc # "down" => agent.gen >= 1

\* No program is newer than the agent's generation, and what a start found is older.
GenerationsKnown ==
    /\ \A p \in registry : p[1] <= agent.gen
    /\ \A p \in agent.recovered \cup agent.stale : p[1] < agent.gen

\* A link runs a pinned program, and a pinned program is registered.
PinsRegistered ==
    /\ progPins \subseteq registry
    /\ \A l \in Links : link[l] # None => link[l] \in progPins

\* The maps are complete before there is anything else, and go last, the journal after
\* all others.  No agent lives while a removal is under way.
MapsFirst ==
    /\ progPins # {} \/ Pinned # {} => mapPins = MapNames
    /\ mapPins # {} => "journal" \in mapPins
    /\ agent.pc \notin {"down", "maps"} => mapPins = MapNames
    /\ agent.pc = "maps" => mapPins # MapNames /\ registry = {}
    /\ agent.pc # "down" => ~removing
    /\ cleanup => removing /\ agent.pc = "down"

\* A guard without a record has no link; a complete one has them all, unless it is
\* being removed; an installation has pinned what is not left to do.
GuardKept ==
    /\ guard = "none" => GuardLinks \cap Pinned = {}
    /\ guard = "complete" /\ ~removing => GuardLinks \subseteq Pinned
    /\ agent.pc = "guard" =>
        /\ guard # "none"
        /\ \A g \in GuardLinks \ agent.todo : link[g] = <<agent.gen, g>>
    /\ agent.pc \in {"retire", "unlist", "stale"} =>
        \A g \in GuardLinks : link[g] # None => link[g] = <<agent.gen, g>>

\* The generation is pinned kind by kind, and stays pinned.
Publication ==
    /\ agent.pc \in {"publish", "pin"} =>
        /\ agent.todo \subseteq Kinds
        /\ \A k \in Kinds \ agent.todo : <<agent.gen, k>> \in progPins
    /\ agent.pc = "pin" =>
        /\ agent.cur \in registry
        /\ \E k \in agent.todo : agent.cur = <<agent.gen, k>>
    /\ agent.pc \in {"update", "guard", "retire", "unlist", "stale", "running"} =>
        OwnGeneration \subseteq progPins

\* The links of live cgroups that are not left to do run the new generation.
LinksMoved ==
    /\ agent.pc = "update" =>
        \A s \in Subjects \ agent.todo : link[s] # None /\ alive[s] => link[s][1] = agent.gen
    /\ agent.pc \in {"guard", "retire", "unlist", "stale"} =>
        \A s \in Subjects : link[s] # None /\ alive[s] => link[s][1] = agent.gen

\* What is registered besides the new generation was found by the start: programs with
\* a pin, records without one.
Found ==
    /\ agent.pc \in {"maps", "publish", "pin", "update", "guard", "retire", "unlist"} =>
        registry \subseteq OwnGeneration \cup agent.recovered \cup agent.stale
                             \cup (IF agent.pc = "unlist" THEN {agent.cur} ELSE {})
    /\ agent.recovered \subseteq progPins
    /\ agent.pc \in {"down", "stale", "running"} => agent.recovered = {}
    /\ agent.pc \in {"down", "running"} => agent.stale = {}
    /\ agent.stale \cap progPins = {}
    /\ agent.pc = "unlist" => agent.cur \notin progPins /\ agent.cur[1] < agent.gen
    /\ agent.pc = "stale" => registry \subseteq OwnGeneration \cup InUse \cup agent.stale

\* The programs of generations other than the one a start is publishing.
OtherPrograms == IF Starting THEN registry \ OwnGeneration ELSE registry

\* Each failed start adds at most its own generation.
RegistryBounded ==
    Cardinality(OtherPrograms) <= 4 * (1 + failed) + Cardinality(Subjects)

PinsInv ==
    /\ TypeOK /\ agent \in AgentRecords
    /\ FailedStarts
    /\ GenerationsKnown
    /\ PinsRegistered
    /\ MapsFirst
    /\ GuardKept
    /\ CaptureBeforeGuard
    /\ Publication
    /\ LinksMoved
    /\ Found
    /\ RegistryBounded

-----------------------------------------------------------------------------
(* Counting programs.                                                      *)

\* A generation has four programs.
LEMMA KindsCount == IsFiniteSet(Kinds) /\ Cardinality(Kinds) = 4
<1>1. IsFiniteSet({"subject"}) /\ Cardinality({"subject"}) = 1
  BY FS_Singleton
<1>2. /\ IsFiniteSet({"subject"} \cup {"socket"})
      /\ Cardinality({"subject"} \cup {"socket"}) = 2
  BY <1>1, FS_AddElement
<1>3. /\ IsFiniteSet(({"subject"} \cup {"socket"}) \cup {"egress"})
      /\ Cardinality(({"subject"} \cup {"socket"}) \cup {"egress"}) = 3
  BY <1>2, FS_AddElement
<1>4. /\ IsFiniteSet((({"subject"} \cup {"socket"}) \cup {"egress"}) \cup {"ingress"})
      /\ Cardinality((({"subject"} \cup {"socket"}) \cup {"egress"}) \cup {"ingress"}) = 4
  BY <1>3, FS_AddElement
<1>5. Kinds = (({"subject"} \cup {"socket"}) \cup {"egress"}) \cup {"ingress"}
  BY DEF Kinds, GuardLinks
<1>6. QED
  BY <1>4, <1>5

\* There are finitely many programs.
LEMMA ProgramsFinite == IsFiniteSet(Programs)
<1>1. IsFiniteSet(1 .. MaxGen)
  BY GenAssumption, FS_Interval
<1>2. QED
  BY <1>1, KindsCount, FS_Product DEF Programs

\* A set of programs is finite, and a subset of it is not larger.
LEMMA ProgramSets ==
  ASSUME NEW S \in SUBSET Programs, NEW T \in SUBSET S
  PROVE  /\ IsFiniteSet(S) /\ Cardinality(S) \in Nat
         /\ IsFiniteSet(T) /\ Cardinality(T) \in Nat /\ Cardinality(T) <= Cardinality(S)
BY ProgramsFinite, FS_Subset, FS_CardinalityType

\* The own generation has at most four programs.
LEMMA OwnCount ==
  ASSUME agent.gen \in Nat
  PROVE  IsFiniteSet(OwnGeneration) /\ Cardinality(OwnGeneration) \in Nat
         /\ Cardinality(OwnGeneration) <= 4
<1> DEFINE f == [k \in Kinds |-> <<agent.gen, k>>]
<1>1. f \in Surjection(Kinds, OwnGeneration)
  BY DEF Surjection, OwnGeneration
<1> HIDE DEF f
<1>2. QED
  BY <1>1, KindsCount, FS_Surjection, FS_CardinalityType

\* The links of subjects run at most as many programs as there are subjects.
LEMMA SubjectsCount ==
  ASSUME NEW S, S = {link[s] : s \in Subjects}
  PROVE  IsFiniteSet(S) /\ Cardinality(S) \in Nat /\ Cardinality(S) <= Cardinality(Subjects)
<1> DEFINE f == [s \in Subjects |-> link[s]]
<1>1. f \in Surjection(Subjects, S)
  BY DEF Surjection
<1> HIDE DEF f
<1>2. QED
  BY <1>1, SubjectsFinite, FS_Surjection, FS_CardinalityType

\* A step that adds no program of another generation keeps the bound.
LEMMA FewerPrograms ==
  ASSUME PinsInv, OtherPrograms' \subseteq OtherPrograms, failed' = failed
  PROVE  RegistryBounded'
<1>1. OtherPrograms \subseteq Programs
  BY DEF PinsInv, TypeOK, OtherPrograms
<1>2. Cardinality(OtherPrograms') \in Nat /\ Cardinality(OtherPrograms) \in Nat
      /\ Cardinality(OtherPrograms') <= Cardinality(OtherPrograms)
  BY <1>1, ProgramSets
<1>3. Cardinality(Subjects) \in Nat /\ failed \in Nat
  BY SubjectsFinite, FS_CardinalityType, GenAssumption DEF PinsInv, TypeOK
<1>4. Cardinality(OtherPrograms) <= 4 * (1 + failed) + Cardinality(Subjects)
  BY DEF PinsInv, RegistryBounded
<1>5. Cardinality(OtherPrograms') <= 4 * (1 + failed') + Cardinality(Subjects)
  BY <1>2, <1>3, <1>4
<1>6. QED
  BY <1>5 DEF RegistryBounded

\* Together with the own generation there are at most four programs more.
LEMMA AllPrograms ==
  ASSUME PinsInv
  PROVE  /\ Cardinality(registry) \in Nat
         /\ Cardinality(registry) <= 4 * (2 + failed) + Cardinality(Subjects)
         /\ ~Starting => Cardinality(registry) <= 4 * (1 + failed) + Cardinality(Subjects)
<1>1. OtherPrograms \subseteq registry /\ registry \subseteq Programs
  BY DEF PinsInv, TypeOK, OtherPrograms
<1>2. /\ IsFiniteSet(OtherPrograms) /\ Cardinality(OtherPrograms) \in Nat
      /\ IsFiniteSet(registry) /\ Cardinality(registry) \in Nat
  BY <1>1, ProgramSets
<1>3. agent.gen \in Nat /\ failed \in Nat
  BY GenAssumption DEF PinsInv, TypeOK
<1>4. /\ IsFiniteSet(OwnGeneration) /\ Cardinality(OwnGeneration) \in Nat
      /\ Cardinality(OwnGeneration) <= 4
  BY <1>3, OwnCount
<1>5. /\ IsFiniteSet(OtherPrograms \cup OwnGeneration)
      /\ Cardinality(OtherPrograms \cup OwnGeneration)
           = Cardinality(OtherPrograms) + Cardinality(OwnGeneration)
               - Cardinality(OtherPrograms \cap OwnGeneration)
      /\ Cardinality(OtherPrograms \cap OwnGeneration) \in Nat
  BY <1>2, <1>4, FS_Union, FS_Subset, FS_CardinalityType
<1>6. Cardinality(OtherPrograms \cup OwnGeneration) <= Cardinality(OtherPrograms) + 4
  BY <1>2, <1>4, <1>5
<1>7. registry \subseteq OtherPrograms \cup OwnGeneration
  BY DEF OtherPrograms
<1>8. Cardinality(registry) <= Cardinality(OtherPrograms \cup OwnGeneration)
  BY <1>5, <1>7, FS_Subset
<1>9. Cardinality(OtherPrograms) <= 4 * (1 + failed) + Cardinality(Subjects)
  BY DEF PinsInv, RegistryBounded
<1>10. Cardinality(Subjects) \in Nat /\ Cardinality(OtherPrograms \cup OwnGeneration) \in Nat
  BY <1>5, SubjectsFinite, FS_CardinalityType
<1>11. Cardinality(registry) <= 4 * (2 + failed) + Cardinality(Subjects)
  BY <1>2, <1>3, <1>6, <1>8, <1>9, <1>10
<1>12. ~Starting => OtherPrograms = registry
  BY DEF OtherPrograms
<1>13. QED
  BY <1>2, <1>9, <1>11, <1>12

\* A process that ends leaves its generation behind, and has failed if it was starting.
LEMMA OneGenerationMore ==
  ASSUME PinsInv, registry' = registry, ~Starting',
         failed' = IF Starting THEN failed + 1 ELSE failed
  PROVE  RegistryBounded'
<1>1. OtherPrograms' = registry
  BY DEF OtherPrograms
<1>2. failed \in Nat /\ Cardinality(Subjects) \in Nat
  BY SubjectsFinite, FS_CardinalityType, GenAssumption DEF PinsInv, TypeOK
<1>3. Cardinality(registry) <= 4 * (1 + failed') + Cardinality(Subjects)
  BY <1>2, AllPrograms
<1>4. QED
  BY <1>1, <1>3 DEF RegistryBounded

\* A complete start leaves its own generation and one program per subject at most.
LEMMA CompleteIsSmall ==
  ASSUME PinsInv, agent.pc = "stale", agent.stale = {}, registry' = registry, ~Starting',
         failed' = 0
  PROVE  RegistryBounded'
<1> DEFINE S == {link[s] : s \in Subjects}
<1>1. registry \subseteq OwnGeneration \cup S
  <2>1. registry \subseteq OwnGeneration \cup InUse
    BY DEF PinsInv, Found
  <2>2. ASSUME NEW p \in InUse
        PROVE  p \in OwnGeneration \cup S
    BY DEF PinsInv, GuardKept, InUse, Pinned, Links, OwnGeneration, Kinds
  <2>3. QED
    BY <2>1, <2>2
<1>2. IsFiniteSet(S) /\ Cardinality(S) \in Nat /\ Cardinality(S) <= Cardinality(Subjects)
  BY SubjectsCount
<1>3. /\ IsFiniteSet(OwnGeneration) /\ Cardinality(OwnGeneration) \in Nat
      /\ Cardinality(OwnGeneration) <= 4
  BY OwnCount, GenAssumption DEF PinsInv, TypeOK
<1> HIDE DEF S
<1>4. /\ IsFiniteSet(OwnGeneration \cup S) /\ Cardinality(OwnGeneration \cup S) \in Nat
      /\ Cardinality(OwnGeneration \cup S)
           = Cardinality(OwnGeneration) + Cardinality(S) - Cardinality(OwnGeneration \cap S)
      /\ Cardinality(OwnGeneration \cap S) \in Nat
  BY <1>2, <1>3, FS_Union, FS_Subset, FS_CardinalityType
<1>5. /\ Cardinality(registry) \in Nat
      /\ Cardinality(registry) <= Cardinality(OwnGeneration \cup S)
  BY <1>1, <1>4, FS_Subset, FS_CardinalityType
<1>6. OtherPrograms' = registry
  BY DEF OtherPrograms
<1>7. Cardinality(Subjects) \in Nat
  BY SubjectsFinite, FS_CardinalityType
<1>8. Cardinality(registry) <= 4 * (1 + failed') + Cardinality(Subjects)
  BY <1>2, <1>3, <1>4, <1>5, <1>7
<1>9. QED
  BY <1>6, <1>8 DEF RegistryBounded

-----------------------------------------------------------------------------
(* Every step preserves the invariant: one lemma per action.               *)

\* A living agent has a generation, whose programs are programs.
LEMMA OwnPrograms ==
  ASSUME PinsInv, agent.pc # "down", NEW k \in Kinds
  PROVE  <<agent.gen, k>> \in Programs
BY GenAssumption DEF PinsInv, TypeOK, FailedStarts, Programs

\* A first start finds nothing, and begins with an empty registry.
LEMMA StartFreshPreserves ==
  ASSUME PinsInv, StartFresh
  PROVE  PinsInv'
<1>1. /\ agent'.pc = "maps" /\ agent'.gen = agent.gen + 1 /\ agent'.todo = {}
      /\ agent'.cur = None /\ agent'.recovered = {} /\ agent'.stale = {}
  BY DEF StartFresh, Down, PinsInv, AgentRecords
<1>2. agent' \in AgentRecords
  BY <1>1, GenAssumption DEF StartFresh, Down, Unlocked, Empty, PinsInv, TypeOK,
     AgentRecords, AgentPCs
<1>3. TypeOK'
  BY <1>1, <1>2 DEF StartFresh, Down, Unlocked, Empty, PinsInv, TypeOK, AgentRecords
<1>4. /\ GenerationsKnown' /\ PinsRegistered' /\ GuardKept'
      /\ CaptureBeforeGuard' /\ Publication' /\ LinksMoved' /\ Found'
  BY <1>1, <1>2 DEF StartFresh, Down, Unlocked, Empty, PinsInv, GenerationsKnown,
     PinsRegistered, GuardKept, CaptureBeforeGuard, Publication, LinksMoved, Found,
     Pinned, GuardLinks, OwnGeneration, InUse
<1>5. FailedStarts'
  BY <1>1, <1>2 DEF StartFresh, Down, Unlocked, Empty, PinsInv, TypeOK, FailedStarts,
     Starting
<1>6. MapsFirst'
  BY <1>1, <1>2 DEF StartFresh, Down, Unlocked, Empty, PinsInv, MapsFirst, Pinned,
     MapNames
<1>7. OtherPrograms' \subseteq OtherPrograms
  BY <1>1 DEF StartFresh, Down, Unlocked, Empty, OtherPrograms, Starting,
     OwnGeneration
<1>8. RegistryBounded'
  BY <1>7, FewerPrograms DEF StartFresh, PinsInv
<1>9. QED
  BY <1>2, <1>3, <1>4, <1>5, <1>6, <1>8 DEF PinsInv

\* Maps are published before there is any program.
LEMMA PublishMapPreserves ==
  ASSUME PinsInv, NEW m \in MapNames, PublishMap(m)
  PROVE  PinsInv'
<1>1. /\ agent'.gen = agent.gen /\ agent'.cur = agent.cur
      /\ agent'.recovered = agent.recovered /\ agent'.stale = agent.stale
      /\ IF mapPins' = MapNames THEN agent'.pc = "publish" /\ agent'.todo = Kinds
                                ELSE agent' = agent
  BY DEF PublishMap, PinsInv, AgentRecords
<1>2. agent' \in AgentRecords
  BY <1>1 DEF PublishMap, PinsInv, TypeOK, AgentRecords, AgentPCs
<1>3. TypeOK'
  BY <1>1, <1>2 DEF PublishMap, PinsInv, TypeOK, AgentRecords
<1>4. /\ FailedStarts' /\ GenerationsKnown' /\ PinsRegistered' /\ MapsFirst'
      /\ GuardKept' /\ CaptureBeforeGuard' /\ Publication' /\ LinksMoved'
      /\ Found'
  BY <1>1, <1>2 DEF PublishMap, PinsInv, FailedStarts, GenerationsKnown,
     PinsRegistered, MapsFirst, GuardKept, CaptureBeforeGuard, Publication,
     LinksMoved, Found, Starting, Pinned, GuardLinks, OwnGeneration, InUse
<1>5. OtherPrograms' \subseteq OtherPrograms
  BY <1>1 DEF PublishMap, OtherPrograms, Starting, OwnGeneration
<1>6. RegistryBounded'
  BY <1>5, FewerPrograms DEF PublishMap, PinsInv
<1>7. QED
  BY <1>2, <1>3, <1>4, <1>6 DEF PinsInv

\* A restart takes a generation that no record has.
LEMMA StartRecoversPreserves ==
  ASSUME PinsInv, StartRecovers
  PROVE  PinsInv'
<1>1. /\ agent'.pc = "publish" /\ agent'.gen = agent.gen + 1
      /\ agent'.todo = Kinds /\ agent'.cur = None
      /\ agent'.recovered = registry \cap progPins
      /\ agent'.stale = registry \ progPins
  BY DEF StartRecovers, PinsInv, AgentRecords
<1>2. agent' \in AgentRecords
  BY <1>1, GenAssumption DEF StartRecovers, Unlocked, Recoverable, MapsRecoverable,
     kernel, PinsInv, TypeOK, AgentRecords, AgentPCs
<1>3. TypeOK'
  BY <1>1, <1>2 DEF StartRecovers, Unlocked, Recoverable, MapsRecoverable, kernel,
     PinsInv, TypeOK, AgentRecords
<1>4. /\ PinsRegistered' /\ MapsFirst' /\ GuardKept' /\ CaptureBeforeGuard'
      /\ Publication' /\ LinksMoved' /\ Found'
  BY <1>1, <1>2 DEF StartRecovers, Unlocked, Recoverable, MapsRecoverable, kernel,
     PinsInv, PinsRegistered, MapsFirst, GuardKept, CaptureBeforeGuard, Publication,
     LinksMoved, Found, Pinned, GuardLinks, OwnGeneration, InUse
<1>5. FailedStarts'
  BY <1>1, <1>2 DEF StartRecovers, Unlocked, Recoverable, MapsRecoverable, kernel,
     PinsInv, TypeOK, FailedStarts, Starting
<1>6. GenerationsKnown'
  BY <1>1, <1>2 DEF StartRecovers, Unlocked, Recoverable, MapsRecoverable, kernel,
     PinsInv, GenerationsKnown, TypeOK, Programs
<1>7. OtherPrograms' \subseteq OtherPrograms
  BY <1>1 DEF StartRecovers, Unlocked, Recoverable, MapsRecoverable, kernel,
     OtherPrograms, Starting, OwnGeneration
<1>8. RegistryBounded'
  BY <1>7, FewerPrograms DEF StartRecovers, kernel, PinsInv
<1>9. QED
  BY <1>2, <1>3, <1>4, <1>5, <1>6, <1>8 DEF PinsInv

\* A record comes before its pin, and is of the own generation.
LEMMA RegisterPreserves ==
  ASSUME PinsInv, NEW k \in Kinds, Register(k)
  PROVE  PinsInv'
<1>1. /\ agent'.pc = "pin" /\ agent'.gen = agent.gen /\ agent'.todo = agent.todo
      /\ agent'.cur = <<agent.gen, k>> /\ agent'.recovered = agent.recovered
      /\ agent'.stale = agent.stale
  BY DEF Register, PinsInv, AgentRecords
<1>2. <<agent.gen, k>> \in Programs
  BY OwnPrograms DEF Register, Kinds
<1>3. agent' \in AgentRecords
  BY <1>1, <1>2 DEF Register, PinsInv, TypeOK, AgentRecords, AgentPCs
<1>4. TypeOK'
  BY <1>1, <1>2, <1>3 DEF Register, PinsInv, TypeOK, AgentRecords
<1>5. /\ FailedStarts' /\ PinsRegistered' /\ MapsFirst' /\ GuardKept'
      /\ CaptureBeforeGuard' /\ Publication' /\ LinksMoved' /\ Found'
  BY <1>1, <1>3 DEF Register, PinsInv, FailedStarts, PinsRegistered, MapsFirst,
     GuardKept, CaptureBeforeGuard, Publication, LinksMoved, Found, Starting,
     Pinned, GuardLinks, OwnGeneration, InUse
<1>6. GenerationsKnown'
  BY <1>1, <1>3 DEF Register, PinsInv, TypeOK, GenerationsKnown
<1>7. OtherPrograms' \subseteq OtherPrograms
  BY <1>1 DEF Register, OtherPrograms, Starting, OwnGeneration
<1>8. RegistryBounded'
  BY <1>7, FewerPrograms DEF Register, PinsInv
<1>9. QED
  BY <1>3, <1>4, <1>5, <1>6, <1>8 DEF PinsInv

\* The pinned program is registered; after the last one every link is to do.
LEMMA PinProgramPreserves ==
  ASSUME PinsInv, PinProgram
  PROVE  PinsInv'
<1>1. /\ agent'.gen = agent.gen /\ agent'.cur = None
      /\ agent'.recovered = agent.recovered /\ agent'.stale = agent.stale
      /\ IF agent.todo \ {agent.cur[2]} = {}
           THEN agent'.pc = "update" /\ agent'.todo = Subjects \cap Pinned
           ELSE agent'.pc = "publish" /\ agent'.todo = agent.todo \ {agent.cur[2]}
  BY DEF PinProgram, PinsInv, AgentRecords
<1>2. agent' \in AgentRecords
  BY <1>1 DEF PinProgram, PinsInv, TypeOK, AgentRecords, AgentPCs, Kinds, Links,
     GuardLinks
<1>3. TypeOK'
  <2>1. agent.cur \in Programs
    BY DEF PinProgram, PinsInv, TypeOK, Publication
  <2>2. QED
    BY <1>1, <1>2, <2>1 DEF PinProgram, PinsInv, TypeOK, AgentRecords
<1>4. /\ FailedStarts' /\ GenerationsKnown' /\ MapsFirst' /\ GuardKept'
      /\ CaptureBeforeGuard' /\ Publication'
  BY <1>1, <1>2 DEF PinProgram, PinsInv, FailedStarts, GenerationsKnown, MapsFirst,
     GuardKept, CaptureBeforeGuard, Publication, Starting, Pinned, GuardLinks,
     OwnGeneration
<1>5. PinsRegistered'
  BY <1>1, <1>2 DEF PinProgram, PinsInv, PinsRegistered, Publication
<1>6. LinksMoved'
  BY <1>1, <1>2 DEF PinProgram, PinsInv, LinksMoved, Pinned, Links
<1>7. Found'
  BY <1>1, <1>2 DEF PinProgram, PinsInv, Found, OwnGeneration, TypeOK, Publication,
     GenerationsKnown, Programs
<1>8. OtherPrograms' \subseteq OtherPrograms
  BY <1>1 DEF PinProgram, OtherPrograms, Starting, OwnGeneration
<1>9. RegistryBounded'
  BY <1>8, FewerPrograms DEF PinProgram, PinsInv
<1>10. QED
  BY <1>2, <1>3, <1>4, <1>5, <1>6, <1>7, <1>9 DEF PinsInv

\* A link of a live cgroup moves to a program that is pinned.
LEMMA UpdateLinkPreserves ==
  ASSUME PinsInv, NEW s \in Subjects, UpdateLink(s)
  PROVE  PinsInv'
<1>1. /\ agent'.pc = agent.pc /\ agent'.gen = agent.gen
      /\ agent'.todo = agent.todo \ {s} /\ agent'.cur = agent.cur
      /\ agent'.recovered = agent.recovered /\ agent'.stale = agent.stale
  BY DEF UpdateLink, PinsInv, AgentRecords
<1>2. <<agent.gen, "subject">> \in Programs
  BY OwnPrograms DEF UpdateLink, Kinds
<1>3. agent' \in AgentRecords
  BY <1>1, <1>2 DEF UpdateLink, PinsInv, TypeOK, AgentRecords, AgentPCs
<1>4. TypeOK'
  BY <1>1, <1>2, <1>3 DEF UpdateLink, PinsInv, TypeOK, AgentRecords
<1>5. /\ FailedStarts' /\ GenerationsKnown' /\ MapsFirst' /\ Publication'
      /\ Found'
  BY <1>1, <1>3 DEF UpdateLink, PinsInv, FailedStarts, GenerationsKnown, MapsFirst,
     Publication, Found, Starting, Pinned, OwnGeneration, InUse
<1>6. PinsRegistered'
  BY <1>1, <1>3 DEF UpdateLink, PinsInv, PinsRegistered, TypeOK, Publication,
     OwnGeneration, Kinds, Links
<1>7. GuardKept'
  BY <1>1, <1>3, NamesAssumption DEF UpdateLink, PinsInv, TypeOK, GuardKept, Pinned,
     GuardLinks, Links, Kinds
<1>8. CaptureBeforeGuard'
  BY <1>1, <1>3, NamesAssumption DEF UpdateLink, PinsInv, TypeOK, CaptureBeforeGuard,
     Pinned, Links, GuardLinks, Kinds
<1>9. LinksMoved'
  BY <1>1, <1>3, NamesAssumption DEF UpdateLink, PinsInv, TypeOK, LinksMoved, Links,
     GuardLinks, Kinds
<1>10. OtherPrograms' \subseteq OtherPrograms
  BY <1>1 DEF UpdateLink, OtherPrograms, Starting, OwnGeneration
<1>11. RegistryBounded'
  BY <1>10, FewerPrograms DEF UpdateLink, PinsInv
<1>12. QED
  BY <1>3, <1>4, <1>5, <1>6, <1>7, <1>8, <1>9, <1>11 DEF PinsInv

\* Without a guard there are no guard links to move.
LEMMA BeginGuardPreserves ==
  ASSUME PinsInv, BeginGuard
  PROVE  PinsInv'
<1>1. /\ agent'.gen = agent.gen /\ agent'.cur = agent.cur
      /\ agent'.recovered = agent.recovered /\ agent'.stale = agent.stale
      /\ \/ /\ guard = "none" /\ guard' = guard
            /\ agent'.pc = "retire" /\ agent'.todo = {}
         \/ /\ guard' = IF guard = "none" THEN "partial" ELSE guard
            /\ agent'.pc = "guard" /\ agent'.todo = GuardLinks
  BY DEF BeginGuard, PinsInv, AgentRecords, GuardLinks
<1>2. agent' \in AgentRecords
  <2>1. agent' = [agent EXCEPT !.pc = "retire"]
        \/ agent' = [agent EXCEPT !.pc = "guard", !.todo = GuardLinks]
    BY DEF BeginGuard
  <2>2. GuardLinks \in SUBSET (Kinds \cup Links) /\ {"retire", "guard"} \subseteq AgentPCs
    BY DEF Kinds, AgentPCs
  <2>3. QED
    BY <2>1, <2>2, ZenonT(30) DEF PinsInv, AgentRecords
<1>3. TypeOK'
  BY <1>1, <1>2 DEF BeginGuard, PinsInv, TypeOK, AgentRecords
<1>4. /\ FailedStarts' /\ GenerationsKnown' /\ PinsRegistered' /\ MapsFirst'
      /\ CaptureBeforeGuard' /\ Publication' /\ LinksMoved' /\ Found'
  BY <1>1, <1>2 DEF BeginGuard, PinsInv, FailedStarts, GenerationsKnown,
     PinsRegistered, MapsFirst, CaptureBeforeGuard, Publication, LinksMoved, Found,
     Starting, Pinned, OwnGeneration, InUse
<1>5. GuardKept'
  BY <1>1, <1>2, NamesAssumption DEF BeginGuard, PinsInv, TypeOK, GuardKept, Pinned,
     GuardLinks, Links, Kinds
<1>6. OtherPrograms' \subseteq OtherPrograms
  BY <1>1 DEF BeginGuard, OtherPrograms, Starting, OwnGeneration
<1>7. RegistryBounded'
  BY <1>6, FewerPrograms DEF BeginGuard, PinsInv
<1>8. QED
  BY <1>2, <1>3, <1>4, <1>5, <1>7 DEF PinsInv

\* The guard's links follow the order, to programs that are pinned.
LEMMA InstallGuardLinkPreserves ==
  ASSUME PinsInv, NEW i \in DOMAIN GuardOrder, InstallGuardLink(i)
  PROVE  PinsInv'
<1>1. /\ agent'.pc = agent.pc /\ agent'.gen = agent.gen
      /\ agent'.todo = agent.todo \ {GuardOrder[i]} /\ agent'.cur = agent.cur
      /\ agent'.recovered = agent.recovered /\ agent'.stale = agent.stale
  BY DEF InstallGuardLink, PinsInv, AgentRecords
<1>2. <<agent.gen, GuardOrder[i]>> \in Programs
  BY OwnPrograms DEF InstallGuardLink, GuardOrder, Kinds, GuardLinks
<1>3. agent' \in AgentRecords
  BY <1>1, <1>2 DEF InstallGuardLink, GuardOrder, PinsInv, TypeOK, AgentRecords,
     AgentPCs
<1>4. TypeOK'
  BY <1>1, <1>2, <1>3 DEF InstallGuardLink, GuardOrder, PinsInv, TypeOK, AgentRecords
<1>5. /\ FailedStarts' /\ GenerationsKnown' /\ MapsFirst' /\ Publication'
      /\ LinksMoved' /\ Found'
  BY <1>1, <1>3 DEF InstallGuardLink, GuardOrder, PinsInv, FailedStarts,
     GenerationsKnown, MapsFirst, Publication, LinksMoved, Found, Starting, Pinned,
     OwnGeneration, InUse
<1>6. PinsRegistered'
  BY <1>1, <1>3 DEF InstallGuardLink, GuardOrder, PinsInv, PinsRegistered, TypeOK,
     Publication, OwnGeneration, Kinds, Links, GuardLinks
<1>7. GuardKept'
  BY <1>1, <1>3, NamesAssumption DEF InstallGuardLink, GuardOrder, PinsInv, TypeOK,
     GuardKept, Pinned, GuardLinks, Links, Kinds
<1>8. CaptureBeforeGuard'
  BY <1>1, <1>3, NamesAssumption DEF InstallGuardLink, GuardOrder, PinsInv,
     CaptureBeforeGuard, Pinned, TypeOK, GuardKept, Links, GuardLinks
<1>9. OtherPrograms' \subseteq OtherPrograms
  BY <1>1 DEF InstallGuardLink, GuardOrder, OtherPrograms, Starting, OwnGeneration
<1>10. RegistryBounded'
  BY <1>9, FewerPrograms DEF InstallGuardLink, PinsInv
<1>11. QED
  BY <1>3, <1>4, <1>5, <1>6, <1>7, <1>8, <1>10 DEF PinsInv

\* Every guard link has been installed.
LEMMA GuardCompletePreserves ==
  ASSUME PinsInv, GuardComplete
  PROVE  PinsInv'
<1>1. /\ agent'.pc = "retire" /\ agent'.gen = agent.gen
      /\ agent'.todo = agent.todo /\ agent'.cur = agent.cur
      /\ agent'.recovered = agent.recovered /\ agent'.stale = agent.stale
  BY DEF GuardComplete, PinsInv, AgentRecords
<1>2. agent' \in AgentRecords
  BY <1>1 DEF GuardComplete, PinsInv, TypeOK, AgentRecords, AgentPCs
<1>3. TypeOK'
  BY <1>1, <1>2 DEF GuardComplete, PinsInv, TypeOK, AgentRecords
<1>4. /\ FailedStarts' /\ GenerationsKnown' /\ PinsRegistered' /\ MapsFirst'
      /\ CaptureBeforeGuard' /\ Publication' /\ LinksMoved' /\ Found'
  BY <1>1, <1>2 DEF GuardComplete, PinsInv, FailedStarts, GenerationsKnown,
     PinsRegistered, MapsFirst, CaptureBeforeGuard, Publication, LinksMoved, Found,
     Starting, Pinned, OwnGeneration, InUse
<1>5. GuardKept'
  BY <1>1, <1>2, NamesAssumption, GenAssumption DEF GuardComplete, PinsInv, GuardKept,
     Pinned, GuardLinks, TypeOK, Links
<1>6. OtherPrograms' \subseteq OtherPrograms
  BY <1>1 DEF GuardComplete, OtherPrograms, Starting, OwnGeneration
<1>7. RegistryBounded'
  BY <1>6, FewerPrograms DEF GuardComplete, PinsInv
<1>8. QED
  BY <1>2, <1>3, <1>4, <1>5, <1>7 DEF PinsInv

\* A program that no link runs, and that is older, loses its pin.
LEMMA RetireUnpinPreserves ==
  ASSUME PinsInv, NEW p \in Programs, RetireUnpin(p)
  PROVE  PinsInv'
<1>1. /\ agent'.pc = "unlist" /\ agent'.gen = agent.gen
      /\ agent'.todo = agent.todo /\ agent'.cur = p
      /\ agent'.recovered = agent.recovered \ {p} /\ agent'.stale = agent.stale
  BY DEF RetireUnpin, PinsInv, AgentRecords
<1>2. agent' \in AgentRecords
  BY <1>1 DEF RetireUnpin, Retirable, PinsInv, TypeOK, AgentRecords, AgentPCs
<1>3. TypeOK'
  BY <1>1, <1>2 DEF RetireUnpin, Retirable, PinsInv, TypeOK, AgentRecords
<1>4. /\ FailedStarts' /\ GenerationsKnown' /\ MapsFirst' /\ GuardKept'
      /\ CaptureBeforeGuard' /\ LinksMoved'
  BY <1>1, <1>2 DEF RetireUnpin, Retirable, PinsInv, FailedStarts, GenerationsKnown,
     MapsFirst, GuardKept, CaptureBeforeGuard, LinksMoved, Starting, Pinned,
     GuardLinks
<1>5. PinsRegistered'
  BY <1>1, <1>2 DEF RetireUnpin, Retirable, PinsInv, PinsRegistered, InUse, Pinned
<1>6. Publication'
  BY <1>1, <1>2 DEF RetireUnpin, Retirable, PinsInv, Publication, OwnGeneration,
     TypeOK, GenerationsKnown, Programs
<1>7. Found'
  BY <1>1, <1>2 DEF RetireUnpin, Retirable, PinsInv, Found, OwnGeneration, InUse,
     Pinned, GenerationsKnown
<1>8. OtherPrograms' \subseteq OtherPrograms
  BY <1>1 DEF RetireUnpin, Retirable, OtherPrograms, Starting, OwnGeneration
<1>9. RegistryBounded'
  BY <1>8, FewerPrograms DEF RetireUnpin, PinsInv
<1>10. QED
  BY <1>2, <1>3, <1>4, <1>5, <1>6, <1>7, <1>9 DEF PinsInv

\* Its record goes after the pin.
LEMMA RetireUnlistPreserves ==
  ASSUME PinsInv, RetireUnlist
  PROVE  PinsInv'
<1>1. /\ agent'.pc = "retire" /\ agent'.gen = agent.gen
      /\ agent'.todo = agent.todo /\ agent'.cur = None
      /\ agent'.recovered = agent.recovered /\ agent'.stale = agent.stale
  BY DEF RetireUnlist, PinsInv, AgentRecords
<1>2. agent' \in AgentRecords
  BY <1>1 DEF RetireUnlist, PinsInv, TypeOK, AgentRecords, AgentPCs
<1>3. TypeOK'
  BY <1>1, <1>2 DEF RetireUnlist, PinsInv, TypeOK, AgentRecords
<1>4. /\ FailedStarts' /\ GenerationsKnown' /\ MapsFirst' /\ GuardKept'
      /\ CaptureBeforeGuard' /\ Publication' /\ LinksMoved' /\ Found'
  BY <1>1, <1>2 DEF RetireUnlist, PinsInv, FailedStarts, GenerationsKnown, MapsFirst,
     GuardKept, CaptureBeforeGuard, Publication, LinksMoved, Found, Starting,
     Pinned, GuardLinks, OwnGeneration, InUse
<1>5. PinsRegistered'
  BY <1>1, <1>2 DEF RetireUnlist, PinsInv, PinsRegistered, Found
<1>6. OtherPrograms' \subseteq OtherPrograms
  BY <1>1 DEF RetireUnlist, OtherPrograms, Starting, OwnGeneration
<1>7. RegistryBounded'
  BY <1>6, FewerPrograms DEF RetireUnlist, PinsInv
<1>8. QED
  BY <1>2, <1>3, <1>4, <1>5, <1>7 DEF PinsInv

\* What is left of the recovered programs is in use.
LEMMA RetireStalePreserves ==
  ASSUME PinsInv, RetireStale
  PROVE  PinsInv'
<1>1. /\ agent'.pc = "stale" /\ agent'.gen = agent.gen
      /\ agent'.todo = agent.todo /\ agent'.cur = agent.cur
      /\ agent'.recovered = {} /\ agent'.stale = agent.stale
  BY DEF RetireStale, PinsInv, AgentRecords
<1>2. agent' \in AgentRecords
  BY <1>1 DEF RetireStale, kernel, Retirable, PinsInv, TypeOK, AgentRecords, AgentPCs
<1>3. TypeOK'
  BY <1>1, <1>2 DEF RetireStale, kernel, Retirable, PinsInv, TypeOK, AgentRecords
<1>4. /\ FailedStarts' /\ GenerationsKnown' /\ PinsRegistered' /\ MapsFirst'
      /\ GuardKept' /\ CaptureBeforeGuard' /\ Publication' /\ LinksMoved'
      /\ Found'
  BY <1>1, <1>2 DEF RetireStale, kernel, Retirable, PinsInv, FailedStarts,
     GenerationsKnown, PinsRegistered, MapsFirst, GuardKept, CaptureBeforeGuard,
     Publication, LinksMoved, Found, Starting, Pinned, GuardLinks, OwnGeneration,
     InUse
<1>5. OtherPrograms' \subseteq OtherPrograms
  BY <1>1 DEF RetireStale, kernel, Retirable, OtherPrograms, Starting, OwnGeneration
<1>6. RegistryBounded'
  BY <1>5, FewerPrograms DEF RetireStale, kernel, PinsInv
<1>7. QED
  BY <1>2, <1>3, <1>4, <1>6 DEF PinsInv

\* A stale record has no pin.
LEMMA UnlistStalePreserves ==
  ASSUME PinsInv, NEW p \in Programs, UnlistStale(p)
  PROVE  PinsInv'
<1>1. /\ agent'.pc = agent.pc /\ agent'.gen = agent.gen
      /\ agent'.todo = agent.todo /\ agent'.cur = agent.cur
      /\ agent'.recovered = agent.recovered /\ agent'.stale = agent.stale \ {p}
  BY DEF UnlistStale, PinsInv, AgentRecords
<1>2. agent' \in AgentRecords
  BY <1>1 DEF UnlistStale, PinsInv, TypeOK, AgentRecords, AgentPCs
<1>3. TypeOK'
  BY <1>1, <1>2 DEF UnlistStale, PinsInv, TypeOK, AgentRecords
<1>4. /\ FailedStarts' /\ GenerationsKnown' /\ MapsFirst' /\ GuardKept'
      /\ CaptureBeforeGuard' /\ Publication' /\ LinksMoved' /\ Found'
  BY <1>1, <1>2 DEF UnlistStale, PinsInv, FailedStarts, GenerationsKnown, MapsFirst,
     GuardKept, CaptureBeforeGuard, Publication, LinksMoved, Found, Starting,
     Pinned, GuardLinks, OwnGeneration, InUse
<1>5. PinsRegistered'
  BY <1>1, <1>2 DEF UnlistStale, PinsInv, PinsRegistered, Found
<1>6. OtherPrograms' \subseteq OtherPrograms
  BY <1>1 DEF UnlistStale, OtherPrograms, Starting, OwnGeneration
<1>7. RegistryBounded'
  BY <1>6, FewerPrograms DEF UnlistStale, PinsInv
<1>8. QED
  BY <1>2, <1>3, <1>4, <1>5, <1>7 DEF PinsInv

\* Only the own generation and programs in use are left.
LEMMA StartDonePreserves ==
  ASSUME PinsInv, StartDone
  PROVE  PinsInv'
<1>1. /\ agent'.pc = "running" /\ agent'.gen = agent.gen
      /\ agent'.todo = agent.todo /\ agent'.cur = agent.cur
      /\ agent'.recovered = agent.recovered /\ agent'.stale = agent.stale
  BY DEF StartDone, PinsInv, AgentRecords
<1>2. agent' \in AgentRecords
  BY <1>1 DEF StartDone, kernel, PinsInv, TypeOK, AgentRecords, AgentPCs
<1>3. TypeOK'
  BY <1>1, <1>2, GenAssumption DEF StartDone, kernel, PinsInv, TypeOK, AgentRecords
<1>4. /\ GenerationsKnown' /\ PinsRegistered' /\ MapsFirst' /\ GuardKept'
      /\ CaptureBeforeGuard' /\ Publication' /\ LinksMoved'
  BY <1>1, <1>2 DEF StartDone, kernel, PinsInv, GenerationsKnown, PinsRegistered,
     MapsFirst, GuardKept, CaptureBeforeGuard, Publication, LinksMoved, Pinned,
     GuardLinks, OwnGeneration
<1>5. FailedStarts'
  BY <1>1, <1>2 DEF StartDone, kernel, PinsInv, TypeOK, FailedStarts, Starting
<1>6. Found'
  BY <1>1, <1>2 DEF StartDone, kernel, PinsInv, Found, OwnGeneration, InUse, Pinned
<1>7. RegistryBounded'
  BY CompleteIsSmall DEF StartDone, kernel, PinsInv, OtherPrograms, RegistryBounded,
     Starting
<1>8. QED
  BY <1>2, <1>3, <1>4, <1>5, <1>6, <1>7 DEF PinsInv

\* A new link runs the own generation, which is pinned.
LEMMA AttachSubjectPreserves ==
  ASSUME PinsInv, NEW s \in Subjects, AttachSubject(s)
  PROVE  PinsInv'
<1>1. agent' = agent
  BY DEF AttachSubject
<1>2. <<agent.gen, "subject">> \in Programs
  BY OwnPrograms DEF AttachSubject, Kinds
<1>3. agent' \in AgentRecords
  BY <1>1 DEF PinsInv
<1>4. TypeOK'
  BY <1>1, <1>2, <1>3 DEF AttachSubject, PinsInv, TypeOK, AgentRecords
<1>5. /\ FailedStarts' /\ GenerationsKnown' /\ MapsFirst' /\ Publication'
      /\ LinksMoved' /\ Found'
  BY <1>1, <1>3 DEF AttachSubject, PinsInv, FailedStarts, GenerationsKnown, MapsFirst,
     Publication, LinksMoved, Found, Starting, Pinned, OwnGeneration, InUse
<1>6. PinsRegistered'
  BY <1>1, <1>3 DEF AttachSubject, PinsInv, PinsRegistered, TypeOK, Publication,
     OwnGeneration, Kinds, Links
<1>7. GuardKept'
  BY <1>1, <1>3, NamesAssumption DEF AttachSubject, PinsInv, TypeOK, GuardKept, Pinned,
     GuardLinks, Links, Kinds
<1>8. CaptureBeforeGuard'
  BY <1>1, <1>3, NamesAssumption DEF AttachSubject, PinsInv, TypeOK,
     CaptureBeforeGuard, Pinned, Links, GuardLinks, Kinds
<1>9. OtherPrograms' \subseteq OtherPrograms
  BY <1>1 DEF AttachSubject, OtherPrograms, Starting, OwnGeneration
<1>10. RegistryBounded'
  BY <1>9, FewerPrograms DEF AttachSubject, PinsInv
<1>11. QED
  BY <1>3, <1>4, <1>5, <1>6, <1>7, <1>8, <1>10 DEF PinsInv

\* A link that goes takes nothing with it.
LEMMA DetachSubjectPreserves ==
  ASSUME PinsInv, NEW s \in Subjects, DetachSubject(s)
  PROVE  PinsInv'
<1>1. agent' = agent
  BY DEF DetachSubject
<1>2. agent' \in AgentRecords
  BY <1>1 DEF PinsInv
<1>3. TypeOK'
  BY <1>1, <1>2 DEF DetachSubject, PinsInv, TypeOK, AgentRecords
<1>4. /\ FailedStarts' /\ GenerationsKnown' /\ PinsRegistered' /\ MapsFirst'
      /\ Publication' /\ LinksMoved' /\ Found'
  BY <1>1, <1>2 DEF DetachSubject, PinsInv, FailedStarts, GenerationsKnown,
     PinsRegistered, MapsFirst, Publication, LinksMoved, Found, Starting, Pinned,
     OwnGeneration, InUse
<1>5. GuardKept'
  BY <1>1, <1>2, NamesAssumption DEF DetachSubject, PinsInv, TypeOK, GuardKept, Pinned,
     GuardLinks, Links, Kinds
<1>6. CaptureBeforeGuard'
  BY <1>1, <1>2, NamesAssumption DEF DetachSubject, PinsInv, TypeOK,
     CaptureBeforeGuard, Pinned, Links, GuardLinks, Kinds
<1>7. OtherPrograms' \subseteq OtherPrograms
  BY <1>1 DEF DetachSubject, OtherPrograms, Starting, OwnGeneration
<1>8. RegistryBounded'
  BY <1>7, FewerPrograms DEF DetachSubject, PinsInv
<1>9. QED
  BY <1>2, <1>3, <1>4, <1>5, <1>6, <1>8 DEF PinsInv

\* The link of a dead cgroup stays.
LEMMA CgroupDiesPreserves ==
  ASSUME PinsInv, NEW s \in Subjects, CgroupDies(s)
  PROVE  PinsInv'
<1>1. agent' = agent
  BY DEF CgroupDies
<1>2. agent' \in AgentRecords
  BY <1>1 DEF PinsInv
<1>3. TypeOK'
  BY <1>1, <1>2 DEF CgroupDies, PinsInv, TypeOK, AgentRecords
<1>4. /\ FailedStarts' /\ GenerationsKnown' /\ PinsRegistered' /\ MapsFirst'
      /\ GuardKept' /\ CaptureBeforeGuard' /\ Publication' /\ LinksMoved'
      /\ Found'
  BY <1>1, <1>2 DEF CgroupDies, PinsInv, FailedStarts, GenerationsKnown,
     PinsRegistered, MapsFirst, GuardKept, CaptureBeforeGuard, Publication,
     LinksMoved, Found, Starting, Pinned, GuardLinks, OwnGeneration, InUse
<1>5. OtherPrograms' \subseteq OtherPrograms
  BY <1>1 DEF CgroupDies, OtherPrograms, Starting, OwnGeneration
<1>6. RegistryBounded'
  BY <1>5, FewerPrograms DEF CgroupDies, PinsInv
<1>7. QED
  BY <1>2, <1>3, <1>4, <1>6 DEF PinsInv

\* A new cgroup has no link.
LEMMA CgroupCreatedPreserves ==
  ASSUME PinsInv, NEW s \in Subjects, CgroupCreated(s)
  PROVE  PinsInv'
<1>1. agent' = agent
  BY DEF CgroupCreated
<1>2. agent' \in AgentRecords
  BY <1>1 DEF PinsInv
<1>3. TypeOK'
  BY <1>1, <1>2 DEF CgroupCreated, PinsInv, TypeOK, AgentRecords
<1>4. /\ FailedStarts' /\ GenerationsKnown' /\ PinsRegistered' /\ MapsFirst'
      /\ GuardKept' /\ CaptureBeforeGuard' /\ Publication' /\ LinksMoved'
      /\ Found'
  BY <1>1, <1>2 DEF CgroupCreated, PinsInv, FailedStarts, GenerationsKnown,
     PinsRegistered, MapsFirst, GuardKept, CaptureBeforeGuard, Publication,
     LinksMoved, Found, Starting, Pinned, GuardLinks, OwnGeneration, InUse
<1>5. OtherPrograms' \subseteq OtherPrograms
  BY <1>1 DEF CgroupCreated, OtherPrograms, Starting, OwnGeneration
<1>6. RegistryBounded'
  BY <1>5, FewerPrograms DEF CgroupCreated, PinsInv
<1>7. QED
  BY <1>2, <1>3, <1>4, <1>6 DEF PinsInv

\* Whatever the process was doing, what is pinned is accounted for; its
\* generation stays in the registry.
LEMMA AgentEndsPreserves ==
  ASSUME PinsInv, AgentEnds
  PROVE  PinsInv'
<1>1. /\ agent'.pc = "down" /\ agent'.gen = agent.gen /\ agent'.todo = {}
      /\ agent'.cur = None /\ agent'.recovered = {} /\ agent'.stale = {}
  BY DEF AgentEnds, Down, PinsInv, AgentRecords
<1>2. agent' \in AgentRecords
  BY <1>1 DEF AgentEnds, Down, kernel, PinsInv, TypeOK, AgentRecords, AgentPCs
<1>3. TypeOK'
  BY <1>1, <1>2, GenAssumption DEF AgentEnds, Down, kernel, PinsInv, TypeOK,
     AgentRecords, FailedStarts, Starting
<1>4. /\ GenerationsKnown' /\ PinsRegistered' /\ MapsFirst' /\ GuardKept'
      /\ CaptureBeforeGuard' /\ Publication' /\ LinksMoved' /\ Found'
  BY <1>1, <1>2 DEF AgentEnds, Down, kernel, PinsInv, GenerationsKnown, PinsRegistered,
     MapsFirst, GuardKept, CaptureBeforeGuard, Publication, LinksMoved, Found,
     Pinned, GuardLinks, OwnGeneration, InUse
<1>5. FailedStarts'
  BY <1>1, <1>2 DEF AgentEnds, Down, kernel, PinsInv, TypeOK, FailedStarts, Starting
<1>6. RegistryBounded'
  BY OneGenerationMore DEF AgentEnds, kernel, PinsInv, Down, OtherPrograms,
     RegistryBounded, Starting
<1>7. QED
  BY <1>2, <1>3, <1>4, <1>5, <1>6 DEF PinsInv

\* A removal begins while no agent lives.
LEMMA CleanupBeginsPreserves ==
  ASSUME PinsInv, CleanupBegins
  PROVE  PinsInv'
<1>1. agent' = agent
  BY DEF CleanupBegins
<1>2. agent' \in AgentRecords
  BY <1>1 DEF PinsInv
<1>3. TypeOK'
  BY <1>1, <1>2 DEF CleanupBegins, Unlocked, Empty, PinsInv, TypeOK, AgentRecords
<1>4. /\ FailedStarts' /\ GenerationsKnown' /\ PinsRegistered' /\ MapsFirst'
      /\ GuardKept' /\ CaptureBeforeGuard' /\ Publication' /\ LinksMoved'
      /\ Found'
  BY <1>1, <1>2 DEF CleanupBegins, Unlocked, Empty, Removable, Readable, PinsInv,
     FailedStarts, GenerationsKnown, PinsRegistered, MapsFirst, GuardKept,
     CaptureBeforeGuard, Publication, LinksMoved, Found, Starting, Pinned,
     GuardLinks, OwnGeneration, InUse
<1>5. OtherPrograms' \subseteq OtherPrograms
  BY <1>1 DEF CleanupBegins, Unlocked, Empty, Removable, Readable, OtherPrograms,
     Starting, OwnGeneration
<1>6. RegistryBounded'
  BY <1>5, FewerPrograms DEF CleanupBegins, PinsInv
<1>7. QED
  BY <1>2, <1>3, <1>4, <1>6 DEF PinsInv

\* Directional guards go before the capture.
LEMMA RemoveLinkPinPreserves ==
  ASSUME PinsInv, NEW l \in Links, RemoveLinkPin(l)
  PROVE  PinsInv'
<1>1. agent' = agent
  BY DEF RemoveLinkPin
<1>2. agent' \in AgentRecords
  BY <1>1 DEF PinsInv
<1>3. TypeOK'
  BY <1>1, <1>2 DEF RemoveLinkPin, PinsInv, TypeOK, AgentRecords
<1>4. /\ FailedStarts' /\ GenerationsKnown' /\ PinsRegistered' /\ MapsFirst'
      /\ CaptureBeforeGuard' /\ Publication' /\ LinksMoved'
  BY <1>1, <1>2 DEF RemoveLinkPin, PinsInv, FailedStarts, GenerationsKnown,
     PinsRegistered, MapsFirst, CaptureBeforeGuard, Publication, LinksMoved,
     Starting, Pinned, OwnGeneration
<1>5. GuardKept'
  BY <1>1, <1>2 DEF RemoveLinkPin, PinsInv, GuardKept, Pinned, GuardLinks, MapsFirst,
     TypeOK, Links
<1>6. Found'
  BY <1>1, <1>2 DEF RemoveLinkPin, PinsInv, Found, OwnGeneration, InUse, Pinned,
     MapsFirst
<1>7. OtherPrograms' \subseteq OtherPrograms
  BY <1>1 DEF RemoveLinkPin, OtherPrograms, Starting, OwnGeneration
<1>8. RegistryBounded'
  BY <1>7, FewerPrograms DEF RemoveLinkPin, PinsInv
<1>9. QED
  BY <1>2, <1>3, <1>4, <1>5, <1>6, <1>8 DEF PinsInv

\* Programs go when no link is left.
LEMMA RemoveProgramPinPreserves ==
  ASSUME PinsInv, NEW p \in Programs, RemoveProgramPin(p)
  PROVE  PinsInv'
<1>1. agent' = agent
  BY DEF RemoveProgramPin
<1>2. agent' \in AgentRecords
  BY <1>1 DEF PinsInv
<1>3. TypeOK'
  BY <1>1, <1>2 DEF RemoveProgramPin, PinsInv, TypeOK, AgentRecords
<1>4. /\ FailedStarts' /\ GenerationsKnown' /\ MapsFirst' /\ GuardKept'
      /\ CaptureBeforeGuard' /\ LinksMoved'
  BY <1>1, <1>2 DEF RemoveProgramPin, PinsInv, FailedStarts, GenerationsKnown,
     MapsFirst, GuardKept, CaptureBeforeGuard, LinksMoved, Starting, Pinned,
     GuardLinks
<1>5. PinsRegistered'
  BY <1>1, <1>2 DEF RemoveProgramPin, PinsInv, PinsRegistered, Pinned
<1>6. Publication'
  BY <1>1, <1>2 DEF RemoveProgramPin, PinsInv, Publication, OwnGeneration, MapsFirst
<1>7. Found'
  BY <1>1, <1>2 DEF RemoveProgramPin, PinsInv, Found, OwnGeneration, InUse, Pinned,
     MapsFirst
<1>8. OtherPrograms' \subseteq OtherPrograms
  BY <1>1 DEF RemoveProgramPin, OtherPrograms, Starting, OwnGeneration
<1>9. RegistryBounded'
  BY <1>8, FewerPrograms DEF RemoveProgramPin, PinsInv
<1>10. QED
  BY <1>2, <1>3, <1>4, <1>5, <1>6, <1>7, <1>9 DEF PinsInv

\* Maps go when no program is left, the journal last.
LEMMA RemoveMapPinPreserves ==
  ASSUME PinsInv, NEW m \in MapNames, RemoveMapPin(m)
  PROVE  PinsInv'
<1>1. agent' = agent
  BY DEF RemoveMapPin
<1>2. agent' \in AgentRecords
  BY <1>1 DEF PinsInv
<1>3. TypeOK'
  BY <1>1, <1>2 DEF RemoveMapPin, PinsInv, TypeOK, AgentRecords
<1>4. /\ FailedStarts' /\ GenerationsKnown' /\ PinsRegistered' /\ MapsFirst'
      /\ GuardKept' /\ CaptureBeforeGuard' /\ Publication' /\ LinksMoved'
      /\ Found'
  BY <1>1, <1>2 DEF RemoveMapPin, PinsInv, FailedStarts, GenerationsKnown,
     PinsRegistered, MapsFirst, GuardKept, CaptureBeforeGuard, Publication,
     LinksMoved, Found, Starting, Pinned, GuardLinks, OwnGeneration, InUse
<1>5. OtherPrograms' \subseteq OtherPrograms
  BY <1>1 DEF RemoveMapPin, OtherPrograms, Starting, OwnGeneration
<1>6. RegistryBounded'
  BY <1>5, FewerPrograms DEF RemoveMapPin, PinsInv
<1>7. QED
  BY <1>2, <1>3, <1>4, <1>6 DEF PinsInv

\* An interrupted removal is still a removal.
LEMMA CleanupEndsPreserves ==
  ASSUME PinsInv, CleanupEnds
  PROVE  PinsInv'
<1>1. agent' = agent
  BY DEF CleanupEnds, kernel
<1>2. agent' \in AgentRecords
  BY <1>1 DEF PinsInv
<1>3. TypeOK'
  BY <1>1, <1>2 DEF CleanupEnds, kernel, PinsInv, TypeOK, AgentRecords
<1>4. /\ FailedStarts' /\ GenerationsKnown' /\ PinsRegistered' /\ MapsFirst'
      /\ GuardKept' /\ CaptureBeforeGuard' /\ Publication' /\ LinksMoved'
      /\ Found'
  BY <1>1, <1>2 DEF CleanupEnds, kernel, PinsInv, FailedStarts, GenerationsKnown,
     PinsRegistered, MapsFirst, GuardKept, CaptureBeforeGuard, Publication,
     LinksMoved, Found, Starting, Pinned, GuardLinks, OwnGeneration, InUse
<1>5. OtherPrograms' \subseteq OtherPrograms
  BY <1>1 DEF CleanupEnds, kernel, OtherPrograms, Starting, OwnGeneration
<1>6. RegistryBounded'
  BY <1>5, FewerPrograms DEF CleanupEnds, kernel, PinsInv
<1>7. QED
  BY <1>2, <1>3, <1>4, <1>6 DEF PinsInv

-----------------------------------------------------------------------------
(* The theorems.                                                           *)

\* Nothing is pinned at first.
LEMMA PinsInitEstablishes == Init => PinsInv
<1> SUFFICES ASSUME Init PROVE PinsInv
  OBVIOUS
<1>1. agent \in AgentRecords
  BY GenAssumption DEF Init, Down, AgentRecords, AgentPCs
<1>2. TypeOK
  BY <1>1, GenAssumption DEF Init, Down, TypeOK, AgentRecords
<1>3. /\ FailedStarts /\ GenerationsKnown /\ PinsRegistered /\ MapsFirst /\ GuardKept
      /\ CaptureBeforeGuard /\ Publication /\ LinksMoved /\ Found
  BY DEF Init, Down, Starting, FailedStarts, GenerationsKnown, PinsRegistered, MapsFirst,
     GuardKept, CaptureBeforeGuard, Publication, LinksMoved, Found, Pinned, Links
<1>4. OtherPrograms = {}
  BY DEF Init, OtherPrograms
<1>5. RegistryBounded
  BY <1>4, FS_EmptySet, SubjectsFinite, FS_CardinalityType DEF Init, RegistryBounded
<1>6. QED
  BY <1>1, <1>2, <1>3, <1>5 DEF PinsInv

\* Every step preserves the invariant.
LEMMA PinsStepPreserves == PinsInv /\ [Next]_vars => PinsInv'
<1> SUFFICES ASSUME PinsInv, [Next]_vars PROVE PinsInv'
  OBVIOUS
<1>1. CASE Start
  BY <1>1, StartFreshPreserves, StartRecoversPreserves, PublishMapPreserves,
     RegisterPreserves, PinProgramPreserves, UpdateLinkPreserves, BeginGuardPreserves,
     InstallGuardLinkPreserves, GuardCompletePreserves, RetireUnpinPreserves,
     UnlistStalePreserves, RetireUnlistPreserves, RetireStalePreserves,
     StartDonePreserves DEF Start
<1>2. CASE \E s \in Subjects :
             AttachSubject(s) \/ DetachSubject(s) \/ CgroupDies(s) \/ CgroupCreated(s)
  BY <1>2, AttachSubjectPreserves, DetachSubjectPreserves, CgroupDiesPreserves,
     CgroupCreatedPreserves
<1>3. CASE AgentEnds
  BY <1>3, AgentEndsPreserves
<1>4. CASE CleanupBegins \/ RemovePin \/ CleanupEnds
  BY <1>4, CleanupBeginsPreserves, RemoveLinkPinPreserves, RemoveProgramPinPreserves,
     RemoveMapPinPreserves, CleanupEndsPreserves DEF RemovePin
<1>5. CASE UNCHANGED vars
  <2>1. /\ mapPins' = mapPins /\ removing' = removing /\ registry' = registry
        /\ progPins' = progPins /\ link' = link /\ alive' = alive /\ guard' = guard
        /\ agent' = agent /\ failed' = failed /\ cleanup' = cleanup
    BY <1>5 DEF vars, kernel
  <2>2. QED
    BY <2>1 DEF PinsInv, TypeOK, FailedStarts, GenerationsKnown, PinsRegistered, MapsFirst,
       GuardKept, CaptureBeforeGuard, Publication, LinksMoved, Found, RegistryBounded,
       OtherPrograms, Starting, Pinned, InUse, OwnGeneration
<1>6. QED
  BY <1>1, <1>2, <1>3, <1>4, <1>5 DEF Next

\* The invariant behind the theorems about the pins.
THEOREM PinsInvariant == Spec => []PinsInv
BY PinsInitEstablishes, PinsStepPreserves, PTL DEF Spec

\* Whatever write a start or a removal was killed at, the next start and the
\* next cleanup accept what they find, the registry has grown only by the
\* generations of failed starts, and no directional guard is without the socket
\* capture; for any subjects and any number of generations.
THEOREM PinsAreAccountable == Spec => []PinsAccountable
<1>1. PinsInv => TypeOK /\ CaptureBeforeGuard
  BY DEF PinsInv
<1>2. PinsInv => StartSucceeds
  BY DEF PinsInv, PinsRegistered, MapsFirst, GuardKept, StartSucceeds, Unlocked, Recoverable,
     MapsRecoverable, ProgramsRecoverable, LinksRecoverable, GuardRecoverable, Pinned, Links
<1>3. PinsInv => CleanupRetryable
  BY DEF PinsInv, PinsRegistered, MapsFirst, GuardKept, CleanupRetryable, Unlocked, Empty,
     Removable, Readable, ProgramsRemovable, LinksRemovable, InUse, Pinned, MapNames
<1>4. PinsInv => RegistryGrowsByFailedStarts
  BY AllPrograms, KindsCount DEF RegistryGrowsByFailedStarts
<1>5. PinsInv => PinsAccountable
  BY <1>1, <1>2, <1>3, <1>4 DEF PinsAccountable
<1>6. QED
  BY <1>5, PinsInvariant, PTL

\* A start that completes leaves one generation, and programs that links of dead
\* cgroups still run; a removal that has begun adds no pin.
THEOREM PinStepsAreSound == Spec => PinStepsSound
<1>1. ASSUME PinsInv, Next, agent.pc # "running", agent'.pc = "running"
      PROVE  /\ registry' = progPins'
             /\ registry' \subseteq OwnGeneration' \cup InUse'
             /\ OwnGeneration' \subseteq registry'
             /\ \A s \in Subjects : link'[s] # None /\ alive'[s] => link'[s][1] = agent'.gen
  <2>1. StartDone
    <3>1. ~StartFresh /\ ~StartRecovers /\ ~AgentEnds
      BY <1>1 DEF StartFresh, StartRecovers, AgentEnds, Down
    <3>2. /\ \A m \in MapNames : ~PublishMap(m)
          /\ \A k \in Kinds : ~Register(k)
          /\ ~PinProgram
      BY <1>1 DEF PublishMap, Register, PinProgram, PinsInv, AgentRecords
    <3>3. /\ \A s \in Subjects : ~UpdateLink(s)
          /\ ~BeginGuard /\ ~GuardComplete
          /\ \A i \in DOMAIN GuardOrder : ~InstallGuardLink(i)
      BY <1>1 DEF UpdateLink, BeginGuard, GuardComplete, InstallGuardLink, PinsInv, AgentRecords
    <3>4. /\ \A p \in Programs : ~RetireUnpin(p) /\ ~UnlistStale(p)
          /\ ~RetireUnlist /\ ~RetireStale
      BY <1>1 DEF RetireUnpin, UnlistStale, RetireUnlist, RetireStale, PinsInv, AgentRecords
    <3>5. /\ \A s \in Subjects : ~AttachSubject(s) /\ ~DetachSubject(s) /\ ~CgroupDies(s)
                                /\ ~CgroupCreated(s)
          /\ ~CleanupBegins /\ ~RemovePin /\ ~CleanupEnds
      BY <1>1 DEF AttachSubject, DetachSubject, CgroupDies, CgroupCreated, CleanupBegins,
         RemovePin, RemoveLinkPin, RemoveProgramPin, RemoveMapPin, CleanupEnds
    <3>6. QED
      BY <1>1, <3>1, <3>2, <3>3, <3>4, <3>5 DEF Next, Start
  <2>2. /\ agent'.gen = agent.gen /\ registry' = registry /\ progPins' = progPins
        /\ link' = link /\ alive' = alive
        /\ agent.pc = "stale" /\ agent.stale = {}
    BY <1>1, <2>1 DEF StartDone, kernel, PinsInv, AgentRecords
  <2>3. /\ registry \subseteq OwnGeneration \cup InUse
        /\ OwnGeneration \subseteq progPins /\ progPins \subseteq registry
        /\ InUse \subseteq progPins
    BY <1>1, <2>2 DEF PinsInv, Found, Publication, PinsRegistered, InUse, Pinned
  <2>4. \A s \in Subjects : link[s] # None /\ alive[s] => link[s][1] = agent.gen
    BY <1>1, <2>2 DEF PinsInv, LinksMoved
  <2>5. OwnGeneration' = OwnGeneration /\ InUse' = InUse
    BY <2>2 DEF OwnGeneration, InUse, Pinned
  <2>6. QED
    BY <2>2, <2>3, <2>4, <2>5
<1>2. ASSUME PinsInv, Next, removing
      PROVE  /\ mapPins' \subseteq mapPins \/ Empty
             /\ progPins' \subseteq progPins
             /\ Pinned' \subseteq Pinned
  <2>1. agent.pc = "down"
    BY <1>2 DEF PinsInv, MapsFirst
  <2>2. \/ StartFresh
        \/ \E s \in Subjects : CgroupDies(s) \/ CgroupCreated(s)
        \/ CleanupBegins \/ RemovePin \/ CleanupEnds
    BY <1>2, <2>1 DEF Next, Start, StartRecovers, Recoverable, MapsRecoverable,
       PublishMap, Register, PinProgram, UpdateLink, BeginGuard, InstallGuardLink,
       GuardComplete, RetireUnpin, UnlistStale, RetireUnlist, RetireStale, StartDone,
       AttachSubject, DetachSubject, AgentEnds
  <2>3. mapPins' \subseteq mapPins /\ progPins' \subseteq progPins
    BY <2>2 DEF StartFresh, CgroupDies, CgroupCreated, CleanupBegins, RemovePin,
       RemoveLinkPin, RemoveProgramPin, RemoveMapPin, CleanupEnds, kernel
  <2>4. link' = link \/ \E l \in Links : link' = [link EXCEPT ![l] = None]
    BY <2>2 DEF StartFresh, CgroupDies, CgroupCreated, CleanupBegins, RemovePin,
       RemoveLinkPin, RemoveProgramPin, RemoveMapPin, CleanupEnds, kernel
  <2>5. Pinned' \subseteq Pinned
    BY <1>2, <2>4 DEF Pinned, PinsInv, TypeOK
  <2>6. QED
    BY <2>3, <2>5
<1>3. PinsInv /\ [Next]_vars =>
        [agent.pc # "running" /\ agent'.pc = "running" =>
            /\ registry' = progPins'
            /\ registry' \subseteq OwnGeneration' \cup InUse'
            /\ OwnGeneration' \subseteq registry'
            /\ \A s \in Subjects : link'[s] # None /\ alive'[s] => link'[s][1] = agent'.gen]_vars
  BY <1>1
<1>4. PinsInv /\ [Next]_vars =>
        [removing => /\ mapPins' \subseteq mapPins \/ Empty
                     /\ progPins' \subseteq progPins
                     /\ Pinned' \subseteq Pinned]_vars
  BY <1>2
<1>5. Spec => StartLeavesOneGeneration
  BY <1>3, PinsInvariant, PTL DEF Spec, StartLeavesOneGeneration
<1>6. Spec => RemovalOnlyRemoves
  BY <1>4, PinsInvariant, PTL DEF Spec, RemovalOnlyRemoves
<1>7. QED
  BY <1>5, <1>6 DEF PinStepsSound

-----------------------------------------------------------------------------
(***************************************************************************)
(* Proofs about PinnedReader, for any sets of Start and Stop calls: no map *)
(* handle is closed under a goroutine that may still use it, and a Start   *)
(* without an error was stopped.                                           *)
(***************************************************************************)

\* Start has taken the reader and has not given it back.
Active(s) == start[s].pc \in {"select", "joining", "stopping", "ended"}

\* The mutex of mapOwningReader lets one Start in at a time, and none once a
\* Stop has been there.
OneStart ==
    /\ \A s \in Starts : Active(s) => owner.running /\ owner.done = s
    /\ maps # "owned" => owner.closed
    /\ \A t \in Stops : stop[t].pc # "idle" => owner.closed

\* A Stop waits for the Start it found, and the handles are closed after that.
StopsWait ==
    /\ \A t \in Stops, s \in Starts : Active(s) =>
        /\ stop[t].pc # "idle" => stop[t].done = s
        /\ stop[t].pc \notin {"closing", "returned"}
    /\ maps = "closed" => \A s \in Starts : ~Active(s)

\* The goroutines of a Start live while it waits for them.
Goroutines ==
    \A s \in Starts :
        /\ start[s].pc = "idle" => reader[s].pc = "off" /\ status[s].pc = "off"
        /\ start[s].pc = "select" => reader[s].pc # "off" /\ status[s].pc # "off"
        /\ {reader[s].pc, status[s].pc} \cap {"new", "busy"} # {}
             => start[s].pc \in {"select", "joining", "stopping"}
        /\ start[s].pc \in {"joining", "stopping"} => start[s].canceled
        /\ start[s].canceled => start[s].pc \notin {"idle", "select"}
        /\ start[s].result # "none" => start[s].pc \in {"ended", "returned"}

\* Only a Stop, or the Start itself once it is canceled, closes the ring buffer
\* of a goroutine that reads.
RingOwned ==
    /\ \A s \in Starts : ring = s => reader[s].pc = "busy"
    /\ \A s \in Starts : reader[s].pc = "busy" /\ ring # s => owner.closed \/ start[s].canceled

\* What ended a goroutine that nobody canceled: a failure, the context given to
\* Start or, for the reader, a Stop.
ReaderCause(s) ==
    /\ reader[s].pc = "done"
    /\ \/ reader[s].result = "error" \/ start[s].parent
       \/ reader[s].result = "nil" /\ owner.closed

StatusCause(s) == status[s].pc = "done" /\ (status[s].result = "error" \/ start[s].parent)

Causes ==
    \A s \in Starts :
        /\ reader[s].pc = "done" /\ ~start[s].canceled => ReaderCause(s)
        /\ status[s].pc = "done" /\ ~start[s].canceled => StatusCause(s)
        /\ start[s].canceled => ReaderCause(s) \/ StatusCause(s)

ReaderInv ==
    /\ ReaderTypeOK
    /\ OneStart
    /\ StopsWait
    /\ Goroutines
    /\ RingOwned
    /\ Causes
    /\ SilentEndMeansStopped

-----------------------------------------------------------------------------
(* Every step preserves the invariant: one lemma per action.               *)

\* A canceled context is a cause to end.
LEMMA CancelParentPreserves ==
  ASSUME ReaderInv, NEW s \in Starts, CancelParent(s)
  PROVE  ReaderInv'
<1> USE DEF CancelParent
<1>1. ReaderTypeOK'
  BY ZenonT(30) DEF ReaderInv, ReaderTypeOK
<1>2. /\ OneStart' /\ StopsWait' /\ Goroutines' /\ RingOwned' /\ Causes'
      /\ SilentEndMeansStopped'
  BY DEF ReaderInv, OneStart, StopsWait, Goroutines, RingOwned, Causes, SilentEndMeansStopped,
     Active, ReaderCause, StatusCause
<1> QED
  BY <1>1, <1>2 DEF ReaderInv

\* A refused Start has no goroutines.
LEMMA StartRefusedPreserves ==
  ASSUME ReaderInv, NEW s \in Starts, StartRefused(s)
  PROVE  ReaderInv'
<1>1. /\ OneStart' /\ StopsWait' /\ Goroutines' /\ RingOwned' /\ Causes'
      /\ SilentEndMeansStopped'
  BY DEF ReaderInv, ReaderTypeOK, OneStart, StopsWait, Goroutines, RingOwned, Causes,
     SilentEndMeansStopped, Active, ReaderCause, StatusCause, StartRefused
<1>2. ReaderTypeOK'
  <2> DEFINE r == IF start[s].parent THEN "canceled"
                 ELSE IF owner.closed THEN "error" ELSE "nil"
  <2>1. r \in Results
    BY DEF Results
  <2>2. start' = [start EXCEPT ![s] = [@ EXCEPT !.pc = "returned", !.result = r]]
    BY DEF StartRefused
  <2> HIDE DEF r
  <2>3. start' \in [Starts -> [pc : {"idle", "select", "joining", "stopping", "ended", "returned"},
                              parent : BOOLEAN, canceled : BOOLEAN, result : Results]]
    BY <2>1, <2>2, ZenonT(30) DEF ReaderInv, ReaderTypeOK
  <2> QED
    BY <2>3 DEF ReaderInv, ReaderTypeOK, StartRefused
<1> QED
  BY <1>1, <1>2 DEF ReaderInv

\* A Start takes the reader from nobody and before any Stop.
LEMMA StartRunsPreserves ==
  ASSUME ReaderInv, NEW s \in Starts, StartRuns(s)
  PROVE  ReaderInv'
<1> USE DEF StartRuns
<1>1. Goroutines'
  BY DEF ReaderInv, ReaderTypeOK, Goroutines
<1>2. ReaderTypeOK'
  <2>1. owner' \in [running : BOOLEAN, done : Starts \cup {NoStart}, closed : BOOLEAN]
    BY ZenonT(30) DEF ReaderInv, ReaderTypeOK
  <2>2. /\ reader' \in [Starts -> Goroutine]
        /\ status' \in [Starts -> Goroutine]
    BY SMTT(30) DEF ReaderInv, ReaderTypeOK, Goroutine
  <2> QED
    BY <2>1, <2>2 DEF ReaderInv, ReaderTypeOK
<1>3. StopsWait'
  BY DEF ReaderInv, ReaderTypeOK, OneStart, StopsWait, Active
<1>4. RingOwned'
  BY NoStartAssumption DEF ReaderInv, ReaderTypeOK, OneStart, Goroutines, RingOwned
<1>5. Causes'
  BY DEF ReaderInv, ReaderTypeOK, Goroutines, Causes, ReaderCause, StatusCause
<1>6. OneStart' /\ SilentEndMeansStopped'
  BY DEF ReaderInv, OneStart, SilentEndMeansStopped, Active
<1> QED
  BY <1>1, <1>2, <1>3, <1>4, <1>5, <1>6 DEF ReaderInv

\* The reader has ended by itself.
LEMMA ReaderFirstPreserves ==
  ASSUME ReaderInv, NEW s \in Starts, ReaderFirst(s)
  PROVE  ReaderInv'
<1> USE DEF ReaderFirst
<1>1. /\ OneStart' /\ StopsWait' /\ Goroutines' /\ RingOwned' /\ Causes'
      /\ SilentEndMeansStopped'
  BY DEF ReaderInv, ReaderTypeOK, OneStart, StopsWait, Goroutines, RingOwned, Causes,
     SilentEndMeansStopped, Active, ReaderCause, StatusCause
<1>2. ReaderTypeOK'
  BY ZenonT(30) DEF ReaderInv, ReaderTypeOK, Results
<1> QED
  BY <1>1, <1>2 DEF ReaderInv

\* The poll has ended by itself.
LEMMA StatusFirstPreserves ==
  ASSUME ReaderInv, NEW s \in Starts, StatusFirst(s)
  PROVE  ReaderInv'
<1> USE DEF StatusFirst
<1>1. /\ OneStart' /\ StopsWait' /\ Goroutines' /\ RingOwned' /\ Causes'
      /\ SilentEndMeansStopped'
  BY DEF ReaderInv, ReaderTypeOK, OneStart, StopsWait, Goroutines, RingOwned, Causes,
     SilentEndMeansStopped, Active, ReaderCause, StatusCause
<1>2. ReaderTypeOK'
  BY ZenonT(30) DEF ReaderInv, ReaderTypeOK, Results
<1> QED
  BY <1>1, <1>2 DEF ReaderInv

\* The reader is told to end by a Start that is canceled.
LEMMA StatusFirstStopsPreserves ==
  ASSUME ReaderInv, NEW s \in Starts, StatusFirstStops(s)
  PROVE  ReaderInv'
<1> USE DEF StatusFirstStops
<1>1. RingOwned'
  <2>1. \A q \in Starts : reader[q].pc = "busy" => q = s
    BY DEF ReaderInv, OneStart, Goroutines, Active
  <2>2. start[s].canceled /\ start'[s].canceled
    BY DEF ReaderInv, ReaderTypeOK, Goroutines
  <2> QED
    BY <2>1, <2>2, NoStartAssumption DEF ReaderInv, RingOwned
<1>2. ReaderTypeOK' /\ OneStart' /\ StopsWait' /\ Goroutines' /\ Causes' /\ SilentEndMeansStopped'
  BY DEF ReaderInv, ReaderTypeOK, OneStart, StopsWait, Goroutines, Causes, SilentEndMeansStopped,
     Active, ReaderCause, StatusCause
<1> QED
  BY <1>1, <1>2 DEF ReaderInv

\* A Start without an error was canceled because its reader was stopped.
LEMMA StartEndsPreserves ==
  ASSUME ReaderInv, NEW s \in Starts, StartEnds(s)
  PROVE  ReaderInv'
<1>1. /\ OneStart' /\ StopsWait' /\ Goroutines' /\ RingOwned' /\ Causes'
      /\ SilentEndMeansStopped'
  BY DEF ReaderInv, ReaderTypeOK, OneStart, StopsWait, Goroutines, RingOwned, Causes,
     SilentEndMeansStopped, Active, ReaderCause, StatusCause, Joined, StartEnds
<1>2. ReaderTypeOK'
  <2> DEFINE r == Joined(s)
  <2>1. r \in Results
    BY DEF Results, Joined
  <2>2. start' = [start EXCEPT ![s] = [@ EXCEPT !.pc = "ended", !.result = r]]
    BY DEF StartEnds
  <2> HIDE DEF r
  <2>3. start' \in [Starts -> [pc : {"idle", "select", "joining", "stopping", "ended", "returned"},
                              parent : BOOLEAN, canceled : BOOLEAN, result : Results]]
    BY <2>1, <2>2, ZenonT(30) DEF ReaderInv, ReaderTypeOK
  <2> QED
    BY <2>3 DEF ReaderInv, ReaderTypeOK, StartEnds
<1> QED
  BY <1>1, <1>2 DEF ReaderInv

\* A Start gives the reader back without goroutines.
LEMMA StartReturnsPreserves ==
  ASSUME ReaderInv, NEW s \in Starts, StartReturns(s)
  PROVE  ReaderInv'
<1> USE DEF StartReturns
<1>1. OneStart'
  BY DEF ReaderInv, ReaderTypeOK, OneStart, Active
<1>2. ReaderTypeOK'
  BY ZenonT(30) DEF ReaderInv, ReaderTypeOK
<1>3. StopsWait' /\ Goroutines' /\ RingOwned' /\ Causes' /\ SilentEndMeansStopped'
  BY DEF ReaderInv, StopsWait, Goroutines, RingOwned, Causes, SilentEndMeansStopped, Active,
     ReaderCause, StatusCause
<1> QED
  BY <1>1, <1>2, <1>3 DEF ReaderInv

\* The ring buffer is opened.
LEMMA ReaderOpensPreserves ==
  ASSUME ReaderInv, NEW s \in Starts, ReaderOpens(s)
  PROVE  ReaderInv'
<1> USE DEF ReadCanceled, ReaderOpens
<1>1. ReaderTypeOK'
  BY DEF ReaderInv, ReaderTypeOK, StatusCause, Goroutine
<1>2. RingOwned'
  BY NoStartAssumption DEF ReaderInv, ReaderTypeOK, RingOwned
<1>3. OneStart' /\ StopsWait' /\ Goroutines' /\ Causes' /\ SilentEndMeansStopped'
  BY DEF ReaderInv, OneStart, StopsWait, Goroutines, Causes, SilentEndMeansStopped, Active,
     ReaderCause, StatusCause
<1> QED
  BY <1>1, <1>2, <1>3 DEF ReaderInv

\* No ring buffer of another Start is in the way.
LEMMA ReaderDeclinesPreserves ==
  ASSUME ReaderInv, NEW s \in Starts, ReaderDeclines(s)
  PROVE  ReaderInv'
<1> USE DEF ReadCanceled, Ended, ReaderDeclines
<1>1. ReaderTypeOK'
  BY DEF ReaderInv, ReaderTypeOK, Results, Goroutine
<1>2. Causes'
  <2>1. ring \in Starts => Active(ring) /\ reader[ring].pc = "busy"
    BY DEF ReaderInv, Goroutines, RingOwned, Active
  <2>2. Active(s)
    BY DEF ReaderInv, Goroutines, Active
  <2>3. ring = NoStart
    BY <2>1, <2>2 DEF ReaderInv, ReaderTypeOK, OneStart
  <2> QED
    BY <2>3 DEF ReaderInv, ReaderTypeOK, Goroutine, Causes, ReaderCause, StatusCause
<1>3. SilentEndMeansStopped'
  <2>1. start[s].result = "none"
    BY DEF ReaderInv, Goroutines
  <2> QED
    BY <2>1 DEF ReaderInv, ReaderTypeOK, SilentEndMeansStopped
<1>4. OneStart' /\ StopsWait' /\ Goroutines' /\ RingOwned'
  BY DEF ReaderInv, OneStart, StopsWait, Goroutines, RingOwned, Active
<1> QED
  BY <1>1, <1>2, <1>3, <1>4 DEF ReaderInv

\* A read ends silently only when its ring buffer was closed.
LEMMA ReaderEndsPreserves ==
  ASSUME ReaderInv, NEW s \in Starts, ReaderEnds(s)
  PROVE  ReaderInv'
<1> USE DEF ReadCanceled, Ended, ReaderEnds
<1>1. ReaderTypeOK'
  BY DEF ReaderInv, ReaderTypeOK, Results, Goroutine
<1>2. RingOwned'
  BY NoStartAssumption DEF ReaderInv, ReaderTypeOK, RingOwned
<1>3. Causes'
  BY NoStartAssumption DEF ReaderInv, ReaderTypeOK, OneStart, Goroutines, RingOwned, Causes,
     ReaderCause, StatusCause
<1>4. SilentEndMeansStopped'
  <2>1. start[s].result = "none"
    BY DEF ReaderInv, Goroutines
  <2> QED
    BY <2>1 DEF ReaderInv, ReaderTypeOK, SilentEndMeansStopped
<1>5. OneStart' /\ StopsWait' /\ Goroutines'
  BY DEF ReaderInv, OneStart, StopsWait, Goroutines, Active
<1> QED
  BY <1>1, <1>2, <1>3, <1>4, <1>5 DEF ReaderInv

\* The poll begins.
LEMMA StatusPollsPreserves ==
  ASSUME ReaderInv, NEW s \in Starts, StatusPolls(s)
  PROVE  ReaderInv'
<1> USE DEF StatusPolls
<1>1. ReaderTypeOK'
  BY ZenonT(30) DEF ReaderInv, ReaderTypeOK, Goroutine
<1>2. /\ OneStart' /\ StopsWait' /\ Goroutines' /\ RingOwned' /\ Causes'
      /\ SilentEndMeansStopped'
  BY DEF ReaderInv, OneStart, StopsWait, Goroutines, RingOwned, Causes, SilentEndMeansStopped,
     Active, ReaderCause, StatusCause
<1> QED
  BY <1>1, <1>2 DEF ReaderInv

\* A poll that is canceled ends.
LEMMA StatusEndsPreserves ==
  ASSUME ReaderInv, NEW s \in Starts, StatusEnds(s)
  PROVE  ReaderInv'
<1> USE DEF ReadCanceled, Ended, StatusEnds
<1>1. ReaderTypeOK'
  BY DEF ReaderInv, ReaderTypeOK, Results, Goroutine
<1>2. /\ OneStart' /\ StopsWait' /\ Goroutines' /\ RingOwned' /\ Causes'
      /\ SilentEndMeansStopped'
  BY DEF ReaderInv, OneStart, StopsWait, Goroutines, RingOwned, Causes, SilentEndMeansStopped,
     Active, ReaderCause, StatusCause
<1> QED
  BY <1>1, <1>2 DEF ReaderInv

\* A poll fails.
LEMMA StatusFailsPreserves ==
  ASSUME ReaderInv, NEW s \in Starts, StatusFails(s)
  PROVE  ReaderInv'
<1> USE DEF Ended, StatusFails
<1>1. ReaderTypeOK'
  BY DEF ReaderInv, ReaderTypeOK, Results, Goroutine
<1>2. /\ OneStart' /\ StopsWait' /\ Goroutines' /\ RingOwned' /\ Causes'
      /\ SilentEndMeansStopped'
  BY DEF ReaderInv, OneStart, StopsWait, Goroutines, RingOwned, Causes, SilentEndMeansStopped,
     Active, ReaderCause, StatusCause
<1> QED
  BY <1>1, <1>2 DEF ReaderInv

\* Stop finds the Start that runs, and no other comes after it.
LEMMA StopTakesPreserves ==
  ASSUME ReaderInv, NEW t \in Stops, StopTakes(t)
  PROVE  ReaderInv'
<1> USE DEF StopTakes
<1>1. ReaderTypeOK'
  BY ZenonT(30) DEF ReaderInv, ReaderTypeOK
<1>2. StopsWait'
  BY DEF ReaderInv, ReaderTypeOK, OneStart, StopsWait, Active
<1>3. OneStart' /\ Goroutines' /\ RingOwned' /\ Causes' /\ SilentEndMeansStopped'
  BY DEF ReaderInv, OneStart, Goroutines, RingOwned, Causes, SilentEndMeansStopped, Active,
     ReaderCause, StatusCause
<1> QED
  BY <1>1, <1>2, <1>3 DEF ReaderInv

\* The ring buffer is closed by a Stop.
LEMMA StopInnerPreserves ==
  ASSUME ReaderInv, NEW t \in Stops, StopInner(t)
  PROVE  ReaderInv'
<1> USE DEF StopInner
<1>1. RingOwned'
  BY NoStartAssumption DEF ReaderInv, ReaderTypeOK, OneStart, Goroutines, RingOwned
<1>2. ReaderTypeOK' /\ OneStart' /\ StopsWait' /\ Goroutines' /\ Causes' /\ SilentEndMeansStopped'
  BY DEF ReaderInv, ReaderTypeOK, OneStart, StopsWait, Goroutines, Causes, SilentEndMeansStopped,
     Active, ReaderCause, StatusCause
<1> QED
  BY <1>1, <1>2 DEF ReaderInv

\* The Start that was found has returned.
LEMMA StopWaitedPreserves ==
  ASSUME ReaderInv, NEW t \in Stops, StopWaited(t)
  PROVE  ReaderInv'
<1> USE DEF StopWaited
<1>1. StopsWait'
  BY NoStartAssumption DEF ReaderInv, ReaderTypeOK, OneStart, StopsWait, Active
<1>2. ReaderTypeOK' /\ OneStart' /\ Goroutines' /\ RingOwned' /\ Causes' /\ SilentEndMeansStopped'
  BY DEF ReaderInv, ReaderTypeOK, OneStart, Goroutines, RingOwned, Causes, SilentEndMeansStopped,
     Active, ReaderCause, StatusCause
<1> QED
  BY <1>1, <1>2 DEF ReaderInv

\* The handles are closed when no Start runs.
LEMMA StopReturnsPreserves ==
  ASSUME ReaderInv, NEW t \in Stops, StopReturns(t)
  PROVE  ReaderInv'
BY DEF ReaderInv, ReaderTypeOK, OneStart, StopsWait, Goroutines, RingOwned, Causes,
   SilentEndMeansStopped, Active, ReaderCause, StatusCause, StopReturns

-----------------------------------------------------------------------------
\* Before any call nothing runs and the handles are the reader's.
LEMMA ReaderInitEstablishes == ReaderInit => ReaderInv
<1> SUFFICES ASSUME ReaderInit
             PROVE  ReaderInv
  OBVIOUS
<1> USE DEF ReaderInit, Off
<1>1. ReaderTypeOK
  <2>1. /\ owner \in [running : BOOLEAN, done : Starts \cup {NoStart}, closed : BOOLEAN]
        /\ reader \in [Starts -> Goroutine] /\ status \in [Starts -> Goroutine]
    BY DEF Goroutine, Results
  <2>2. start \in [Starts -> [pc : {"idle", "select", "joining", "stopping", "ended", "returned"},
                              parent : BOOLEAN, canceled : BOOLEAN, result : Results]]
    BY DEF Results
  <2> QED
    BY <2>1, <2>2 DEF ReaderTypeOK
<1>2. OneStart /\ StopsWait /\ Goroutines
  BY DEF OneStart, StopsWait, Goroutines, Active
<1>3. RingOwned /\ Causes /\ SilentEndMeansStopped
  BY NoStartAssumption DEF RingOwned, Causes, SilentEndMeansStopped
<1> QED
  BY <1>1, <1>2, <1>3 DEF ReaderInv

\* Stuttering keeps what the invariant is about.
LEMMA ReaderStutterPreserves ==
  ASSUME ReaderInv, UNCHANGED readerVars
  PROVE  ReaderInv'
BY DEF ReaderInv, ReaderTypeOK, OneStart, StopsWait, Goroutines, RingOwned, Causes,
   SilentEndMeansStopped, Active, ReaderCause, StatusCause, readerVars

\* Every step of Start, its goroutines and Stop preserves the invariant.
LEMMA ReaderStepPreserves == ReaderInv /\ [ReaderNext]_readerVars => ReaderInv'
<1> SUFFICES ASSUME ReaderInv, [ReaderNext]_readerVars
             PROVE  ReaderInv'
  OBVIOUS
<1>1. CASE \E s \in Starts : CancelParent(s) \/ StartRefused(s) \/ StartRuns(s) \/ StartGoes(s)
  BY <1>1, CancelParentPreserves, StartRefusedPreserves, StartRunsPreserves,
     ReaderFirstPreserves, StatusFirstPreserves, StatusFirstStopsPreserves,
     StartEndsPreserves, StartReturnsPreserves DEF StartGoes
<1>2. CASE \E s \in Starts : ReaderOpens(s) \/ ReaderDeclines(s) \/ ReaderEnds(s)
  BY <1>2, ReaderOpensPreserves, ReaderDeclinesPreserves, ReaderEndsPreserves
<1>3. CASE \E s \in Starts : StatusPolls(s) \/ StatusEnds(s) \/ StatusFails(s)
  BY <1>3, StatusPollsPreserves, StatusEndsPreserves, StatusFailsPreserves
<1>4. CASE \E t \in Stops : StopTakes(t) \/ StopGoes(t)
  BY <1>4, StopTakesPreserves, StopInnerPreserves, StopWaitedPreserves,
     StopReturnsPreserves DEF StopGoes
<1>5. CASE UNCHANGED readerVars
  BY <1>5, ReaderStutterPreserves
<1> QED
  BY <1>1, <1>2, <1>3, <1>4, <1>5 DEF ReaderNext

\* The inductive invariant of the pinned reader.
THEOREM ReaderInvariant == ReaderSpec => []ReaderInv
<1>1. ReaderInit => ReaderInv
  BY ReaderInitEstablishes
<1>2. ReaderInv /\ [ReaderNext]_readerVars => ReaderInv'
  BY ReaderStepPreserves
<1> QED
  BY <1>1, <1>2, PTL DEF ReaderSpec

\* No map handle is closed while a goroutine of some Start may still use it, and
\* a Start that took the reader ends without an error only because a Stop closed
\* its ring buffer; for any number of calls of Start and Stop, in any order
\* (mapOwningReader.Start, mapOwningReader.Stop, joinPinnedFlowReaderErrors).
THEOREM ReaderIsSafe == ReaderSpec => []ReaderSafe
<1>1. ReaderInv => NoUseAfterClose
  BY DEF ReaderInv, StopsWait, Goroutines, Active, NoUseAfterClose
<1>2. ReaderInv => ReaderSafe
  BY <1>1 DEF ReaderInv, ReaderSafe
<1> QED
  BY <1>2, ReaderInvariant, PTL
=============================================================================
