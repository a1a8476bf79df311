------------------------- MODULE PolicySlotsProofs --------------------------
(***************************************************************************)
(* Proofs about PolicySlots, for every set of packets, CPUs and entries    *)
(* and every bound on the epoch.                                           *)
(***************************************************************************)
EXTENDS PolicySlots, FiniteSetTheorems, TLAPS

Busy == {"reread", "check", "lookup", "undo"}

\* Whether p is registered, and where, decides the reader sets.
LEMMA SameReaders ==
  ASSUME \A q \in Packets : (pktPc'[q] \in Busy) = (pktPc[q] \in Busy),
         \A q \in Packets : pktPc[q] \in Busy => slot'[q] = slot[q],
         cpu' = cpu
  PROVE  \A c \in CPUs, s \in Slots : Registered(c, s)' = Registered(c, s)
BY DEF Registered, Busy

\* The readers of a slot on a CPU are finitely many, so they can be counted.
LEMMA ReadersFinite ==
  ASSUME NEW c, NEW s
  PROVE  IsFiniteSet(Registered(c, s)) /\ Cardinality(Registered(c, s)) \in Nat
BY PacketsFinite, FS_Subset, FS_CardinalityType DEF Registered

\* Registering adds one reader to one cell.
LEMMA CountUp ==
  ASSUME TypeOK, CountersExact, NEW p \in Packets, Register(p)
  PROVE  CountersExact'
<1>1. PICK C \in CPUs, S \in Slots : C = cpu[p] /\ S = slot[p]
  BY DEF TypeOK
<1>2. Registered(C, S)' = Registered(C, S) \cup {p} /\ p \notin Registered(C, S)
  BY <1>1 DEF TypeOK, Register, Goto, Registered
<1>3. \A c \in CPUs, s \in Slots : (c # C \/ s # S) => Registered(c, s)' = Registered(c, s)
  BY <1>1 DEF TypeOK, Register, Goto, Registered
<1>4. Cardinality(Registered(C, S)') = Cardinality(Registered(C, S)) + 1
  BY <1>2, ReadersFinite, FS_AddElement
<1>5. inFlight'[C][S] = inFlight[C][S] + 1
  BY <1>1 DEF TypeOK, Register, Enter
<1>6. \A c \in CPUs, s \in Slots : (c # C \/ s # S) => inFlight'[c][s] = inFlight[c][s]
  BY <1>1 DEF TypeOK, Register, Enter
<1> QED
  <2> SUFFICES ASSUME NEW c \in CPUs, NEW s \in Slots
               PROVE  inFlight'[c][s] = Cardinality(Registered(c, s)')
    BY DEF CountersExact
  <2> inFlight[c][s] = Cardinality(Registered(c, s))
    BY DEF CountersExact
  <2>1. CASE c = C /\ s = S
    BY <2>1, <1>4, <1>5
  <2>2. CASE c # C \/ s # S
    BY <2>2, <1>3, <1>6
  <2> QED
    BY <2>1, <2>2

\* Leaving takes one reader from one cell, which was not zero.
LEMMA CountDown ==
  ASSUME TypeOK, CountersExact, NEW p \in Packets,
         pktPc[p] \in {"undo", "lookup"}, Exit(p), cpu' = cpu,
         pktPc' = [pktPc EXCEPT ![p] = "idle"] \/ pktPc' = [pktPc EXCEPT ![p] = "read"],
         \A q \in Packets \ {p} : slot'[q] = slot[q]
  PROVE  CountersExact' /\ inFlight' \in [CPUs -> [Slots -> Nat]]
<1>1. PICK C \in CPUs, S \in Slots : C = cpu[p] /\ S = slot[p]
  BY DEF TypeOK
<1>2. Registered(C, S)' = Registered(C, S) \ {p} /\ p \in Registered(C, S)
  BY <1>1 DEF TypeOK, Registered
<1>3. \A c \in CPUs, s \in Slots : (c # C \/ s # S) => Registered(c, s)' = Registered(c, s)
  BY <1>1 DEF TypeOK, Registered
<1>4. Cardinality(Registered(C, S)') = Cardinality(Registered(C, S)) - 1
  BY <1>2, ReadersFinite, FS_RemoveElement
<1>5. Cardinality(Registered(C, S)') \in Nat
  BY <1>2, ReadersFinite, FS_RemoveElement, FS_CardinalityType
<1>6. inFlight'[C][S] = inFlight[C][S] - 1
  BY <1>1 DEF TypeOK, Exit
<1>7. \A c \in CPUs, s \in Slots : (c # C \/ s # S) => inFlight'[c][s] = inFlight[c][s]
  BY <1>1 DEF TypeOK, Exit
<1>8. CountersExact'
  <2> SUFFICES ASSUME NEW c \in CPUs, NEW s \in Slots
               PROVE  inFlight'[c][s] = Cardinality(Registered(c, s)')
    BY DEF CountersExact
  <2> inFlight[c][s] = Cardinality(Registered(c, s))
    BY DEF CountersExact
  <2>1. CASE c = C /\ s = S
    BY <2>1, <1>4, <1>6
  <2>2. CASE c # C \/ s # S
    BY <2>2, <1>3, <1>7
  <2> QED
    BY <2>1, <2>2
<1>9. inFlight[C][S] - 1 \in Nat
  BY <1>1, <1>4, <1>5 DEF CountersExact
<1> QED
  BY <1>1, <1>8, <1>9 DEF TypeOK, Exit
-----------------------------------------------------------------------------
\* The inductive invariant holds before the first agent starts.
LEMMA InitEstablishes == Init => IInv
<1> SUFFICES ASSUME Init PROVE IInv
  OBVIOUS
<1>1. TypeOK
  <2>1. /\ 0 \in Epochs /\ 0 \in Slots /\ 0 \in Nat /\ 0 \in 0..(Attempts - 1)
        /\ NoSlot \in Slots \cup {NoSlot}
    BY MaxEpochNat DEF Epochs, Slots, Attempts
  <2> QED
    BY <2>1 DEF Init, TypeOK
<1>2. CountersExact
  <2> SUFFICES ASSUME NEW c \in CPUs, NEW s \in Slots
               PROVE  inFlight[c][s] = Cardinality(Registered(c, s))
    BY DEF CountersExact
  <2>1. Registered(c, s) = {}
    BY DEF Init, Registered
  <2> QED
    BY <2>1, FS_EmptySet DEF Init
<1>3. MemoryMatchesKernel /\ ActivePolicyIntact
  BY <1>1, MaxEpochNat DEF Init, MemoryMatchesKernel, ActivePolicyIntact, ActiveEpoch, Slots, Epochs
<1>4. AgentInv
  BY <1>1, MaxEpochNat DEF Init, AgentInv, ActiveEpoch, Slots, Other, Candidate
<1>5. HeldSlotsProtected /\ LookupsChecked /\ EpochsNotBeforeBirth
  BY <1>1, MaxEpochNat DEF Init, HeldSlotsProtected, Holds, LookupsChecked, EpochsNotBeforeBirth,
     ActiveEpoch, Slots
<1> QED
  BY <1>1, <1>2, <1>3, <1>4, <1>5 DEF IInv

\* A packet program writes neither the policy maps nor the agent's memory.
LEMMA PacketFrame ==
  ASSUME IInv, UNCHANGED kernelVars, UNCHANGED agentVars
  PROVE  MemoryMatchesKernel' /\ ActivePolicyIntact' /\ AgentInv'
BY DEF IInv, kernelVars, agentVars, MemoryMatchesKernel, ActivePolicyIntact, AgentInv, ActiveEpoch

\* The counters stay exact in a step that registers and releases no one.
LEMMA CountersKept ==
  ASSUME CountersExact, UNCHANGED <<inFlight, cpu>>,
         \A q \in Packets : (pktPc'[q] \in Busy) = (pktPc[q] \in Busy),
         \A q \in Packets : pktPc[q] \in Busy => slot'[q] = slot[q]
  PROVE  CountersExact'
<1> SUFFICES ASSUME NEW c \in CPUs, NEW s \in Slots
             PROVE  inFlight'[c][s] = Cardinality(Registered(c, s)')
  BY DEF CountersExact
<1>1. Registered(c, s)' = Registered(c, s)
  BY SameReaders
<1> QED
  BY <1>1 DEF CountersExact

\* No step of a packet program (enforce_packet, guard_packet) breaks the
\* invariant.
LEMMA PacketPreserves ==
  ASSUME IInv, NEW p \in Packets, PacketStart(p) \/ PacketStep(p)
  PROVE  IInv'
<1> USE DEF kernelVars, agentVars, Goto, Busy
<1>0. TypeOK /\ CountersExact /\ HeldSlotsProtected /\ LookupsChecked /\ EpochsNotBeforeBirth
  BY DEF IInv
<1>1. CASE PacketStart(p)
  <2>1. TypeOK'
    BY <1>0, <1>1 DEF PacketStart, TypeOK, ActiveEpoch, Slots
  <2>2. CountersExact'
    BY <1>0, <1>1, CountersKept DEF PacketStart, TypeOK
  <2>3. HeldSlotsProtected' /\ LookupsChecked'
    BY <1>0, <1>1 DEF PacketStart, TypeOK, HeldSlotsProtected, Holds, AgentKeepsOff, LookupsChecked, ActiveEpoch
  <2>4. EpochsNotBeforeBirth'
    BY <1>0, <1>1, MaxEpochNat DEF PacketStart, TypeOK, EpochsNotBeforeBirth, ActiveEpoch, Slots, Epochs
  <2> QED
    BY <1>1, <2>1, <2>2, <2>3, <2>4, PacketFrame DEF IInv, PacketStart
<1>2. CASE ReadConfig(p)
  <2>1. TypeOK'
    BY <1>0, <1>2 DEF ReadConfig, TypeOK
  <2>2. CountersExact'
    BY <1>0, <1>2, CountersKept DEF ReadConfig, TypeOK
  <2>3. HeldSlotsProtected' /\ LookupsChecked'
    BY <1>0, <1>2 DEF ReadConfig, TypeOK, HeldSlotsProtected, Holds, AgentKeepsOff, LookupsChecked, ActiveEpoch
  <2>4. EpochsNotBeforeBirth'
    BY <1>0, <1>2 DEF ReadConfig, TypeOK, EpochsNotBeforeBirth, ActiveEpoch
  <2> QED
    BY <1>2, <2>1, <2>2, <2>3, <2>4, PacketFrame DEF IInv, ReadConfig
<1>3. CASE LoadConfig(p)
  <2>1. TypeOK'
    BY <1>0, <1>3 DEF LoadConfig, TypeOK
  <2>2. CountersExact'
    BY <1>0, <1>3, CountersKept DEF LoadConfig, TypeOK
  <2>3. HeldSlotsProtected' /\ LookupsChecked'
    BY <1>0, <1>3 DEF LoadConfig, TypeOK, HeldSlotsProtected, Holds, AgentKeepsOff, LookupsChecked, ActiveEpoch
  <2>4. EpochsNotBeforeBirth'
    BY <1>0, <1>3 DEF LoadConfig, TypeOK, EpochsNotBeforeBirth, ActiveEpoch
  <2> QED
    BY <1>3, <2>1, <2>2, <2>3, <2>4, PacketFrame DEF IInv, LoadConfig
<1>4. CASE Register(p)
  <2>1. TypeOK'
    BY <1>0, <1>4 DEF Register, Enter, TypeOK
  <2>2. CountersExact'
    BY <1>0, <1>4, CountUp
  <2>3. HeldSlotsProtected' /\ LookupsChecked'
    BY <1>0, <1>4 DEF Register, TypeOK, HeldSlotsProtected, Holds, AgentKeepsOff, LookupsChecked, ActiveEpoch
  <2>4. EpochsNotBeforeBirth'
    BY <1>0, <1>4 DEF Register, TypeOK, EpochsNotBeforeBirth, ActiveEpoch
  <2> QED
    BY <1>4, <2>1, <2>2, <2>3, <2>4, PacketFrame DEF IInv, Register
\* A packet whose second read of the pointer agrees holds the active slot.
<1>5. CASE RereadConfig(p)
  <2>1. TypeOK'
    BY <1>0, <1>5 DEF RereadConfig, TypeOK
  <2>2. CountersExact'
    BY <1>0, <1>5, CountersKept DEF RereadConfig, TypeOK
  <2>3. HeldSlotsProtected' /\ LookupsChecked'
    BY <1>0, <1>5 DEF RereadConfig, TypeOK, HeldSlotsProtected, Holds, AgentKeepsOff, LookupsChecked, ActiveEpoch
  <2>4. EpochsNotBeforeBirth'
    BY <1>0, <1>5 DEF RereadConfig, TypeOK, EpochsNotBeforeBirth, ActiveEpoch
  <2> QED
    BY <1>5, <2>1, <2>2, <2>3, <2>4, PacketFrame DEF IInv, RereadConfig
<1>6. CASE CheckConfig(p)
  <2>1. TypeOK'
    BY <1>0, <1>6 DEF CheckConfig, TypeOK
  <2>2. CountersExact'
    BY <1>0, <1>6, CountersKept DEF CheckConfig, TypeOK
  <2>3. HeldSlotsProtected' /\ LookupsChecked'
    BY <1>0, <1>6 DEF CheckConfig, SameConfig, TypeOK, HeldSlotsProtected, Holds, AgentKeepsOff,
       LookupsChecked, ActiveEpoch
  <2>4. EpochsNotBeforeBirth'
    BY <1>0, <1>6 DEF CheckConfig, TypeOK, EpochsNotBeforeBirth, ActiveEpoch
  <2> QED
    BY <1>6, <2>1, <2>2, <2>3, <2>4, PacketFrame DEF IInv, CheckConfig
<1>7. CASE UndoAndRetry(p)
  <2>1. CountersExact' /\ inFlight' \in [CPUs -> [Slots -> Nat]]
    BY <1>0, <1>7, CountDown DEF UndoAndRetry
  <2>2. TypeOK'
    <3>1. attempt[p] + 1 \in 0..(Attempts - 1)
      BY SMTT(30), <1>0, <1>7 DEF UndoAndRetry, TypeOK, Attempts
    <3> QED
      BY <1>0, <1>7, <2>1, <3>1 DEF UndoAndRetry, TypeOK
  <2>3. HeldSlotsProtected' /\ LookupsChecked'
    BY <1>0, <1>7 DEF UndoAndRetry, TypeOK, HeldSlotsProtected, Holds, AgentKeepsOff, LookupsChecked, ActiveEpoch
  <2>4. EpochsNotBeforeBirth'
    BY <1>0, <1>7 DEF UndoAndRetry, TypeOK, EpochsNotBeforeBirth, ActiveEpoch
  <2> QED
    BY <1>7, <2>1, <2>2, <2>3, <2>4, PacketFrame DEF IInv, UndoAndRetry
<1>8. CASE UndoAndBlock(p) \/ Decide(p)
  <2>0. /\ pktPc' = [pktPc EXCEPT ![p] = "idle"] /\ Forget(p) /\ cpu' = cpu
        /\ UNCHANGED <<kernelVars, agentVars>>
    BY <1>8 DEF UndoAndBlock, Decide
  <2>1. CountersExact' /\ inFlight' \in [CPUs -> [Slots -> Nat]]
    <3>1. \A q \in Packets \ {p} : slot'[q] = slot[q]
      BY <1>0, <2>0 DEF Forget, TypeOK
    <3> QED
      BY <1>0, <1>8, <3>1, CountDown DEF UndoAndBlock, Decide
  <2>2. TypeOK'
    <3>1. 0 \in Epochs /\ 0 \in Slots /\ 0 \in 0..(Attempts - 1)
      BY MaxEpochNat DEF Epochs, Slots, Attempts
    <3> QED
      BY <1>0, <2>0, <2>1, <3>1 DEF Forget, TypeOK
  <2>3. HeldSlotsProtected' /\ LookupsChecked'
    BY <1>0, <2>0 DEF Forget, TypeOK, HeldSlotsProtected, Holds, AgentKeepsOff,
       LookupsChecked, ActiveEpoch
  <2>4. EpochsNotBeforeBirth'
    <3>1. 0 <= ActiveEpoch
      BY <1>0, MaxEpochNat DEF TypeOK, ActiveEpoch, Epochs, Slots
    <3> QED
      BY <1>0, <2>0, <3>1 DEF Forget, TypeOK, EpochsNotBeforeBirth, ActiveEpoch
  <2> QED
    BY <1>8, <2>1, <2>2, <2>3, <2>4, PacketFrame DEF IInv, UndoAndBlock, Decide
<1> QED
  BY <1>1, <1>2, <1>3, <1>4, <1>5, <1>6, <1>7, <1>8 DEF PacketStep
-----------------------------------------------------------------------------
(* The agent.                                                              *)

\* A registered packet keeps its cell above zero.
LEMMA ReaderCounted ==
  ASSUME TypeOK, CountersExact, NEW p \in Packets, pktPc[p] \in Busy
  PROVE  inFlight[cpu[p]][slot[p]] # 0
<1>1. PICK C \in CPUs, S \in Slots : C = cpu[p] /\ S = slot[p]
  BY DEF TypeOK
<1>2. p \in Registered(C, S)
  BY <1>1 DEF Registered, Busy
<1>3. Cardinality(Registered(C, S)) # 0
  BY <1>2, ReadersFinite, FS_EmptySet
<1> QED
  BY <1>1, <1>3 DEF CountersExact

\* Once the agent has left "wait" for "clear" the slot it works on has no
\* holder left, and until it commits again it gets none.
LEMMA NoHolderInReach ==
  ASSUME IInv, agentPc \in {"compare", "clear"} \cup Candidate \/ (agentPc = "idle" /\ pending = NoSlot)
               \/ (agentPc = "wait" /\ scanned = CPUs)
  PROVE  \A p \in Packets : Holds(p) => slot[p] = activeConfig
BY DEF IInv, TypeOK, HeldSlotsProtected, AgentKeepsOff, Candidate

\* The agent registers no packet.
LEMMA AgentFrame ==
  ASSUME IInv, UNCHANGED packetVars
  PROVE  CountersExact'
BY CountersKept DEF IInv, packetVars

\* What a step that leaves the policy maps alone cannot disturb.
LEMMA AgentFrameMaps ==
  ASSUME IInv, UNCHANGED packetVars, UNCHANGED kernelVars
  PROVE  ActivePolicyIntact' /\ LookupsChecked' /\ EpochsNotBeforeBirth'
BY DEF IInv, packetVars, kernelVars, ActivePolicyIntact, LookupsChecked, EpochsNotBeforeBirth, ActiveEpoch

\* There are two slots, and the inactive one is the other one.
LEMMA OtherSlot ==
  ASSUME NEW s \in Slots
  PROVE  Other(s) \in Slots /\ Other(s) # s /\ Other(Other(s)) = s /\ Other(s) # NoSlot
BY DEF Slots, Other, NoSlot

\* A step that leaves the maps and the committed state in memory alone and
\* keeps retired holders out of the agent's reach.
LEMMA QuietStep ==
  ASSUME IInv, UNCHANGED <<packetVars, kernelVars, memoryVars>>, agentPc # "down",
         agentPc' # "down",
         TypeOK', AgentInv', pending' \in {NoSlot, Other(activeConfig)},
         \A p \in Packets : AgentKeepsOff(p) /\ Holds(p) /\ slot[p] # activeConfig => AgentKeepsOff(p)'
  PROVE  IInv'
<1>1. CountersExact' /\ ActivePolicyIntact' /\ LookupsChecked' /\ EpochsNotBeforeBirth'
  BY AgentFrame, AgentFrameMaps
<1>2. MemoryMatchesKernel'
  BY DEF IInv, kernelVars, memoryVars, MemoryMatchesKernel, ActiveEpoch
<1>3. HeldSlotsProtected'
  BY DEF IInv, packetVars, kernelVars, HeldSlotsProtected, Holds, ActiveEpoch
<1> QED
  BY <1>1, <1>2, <1>3 DEF IInv

\* Entering Apply keeps the invariant: a pending slot is reclaimed first.
LEMMA ApplyStartPreserves ==
  ASSUME IInv, NEW policy \in SUBSET Entries, ApplyStart(policy)
  PROVE  IInv'
<1>1. TypeOK'
  BY DEF IInv, ApplyStart, Begin, TypeOK, kernelVars, packetVars, memoryVars
<1>2. AgentInv'
  BY <1>1 DEF IInv, ApplyStart, Begin, AgentInv, Candidate, ActiveEpoch, kernelVars, packetVars, memoryVars
<1>3. \A p \in Packets : AgentKeepsOff(p) => AgentKeepsOff(p)'
  BY DEF ApplyStart, Begin, AgentKeepsOff
<1> QED
  BY <1>1, <1>2, <1>3, QuietStep DEF IInv, MemoryMatchesKernel, ApplyStart, Begin

\* A recovered engine satisfies the invariant, because recovery always leaves
\* the inactive slot pending.
LEMMA RecoverPreserves ==
  ASSUME IInv, Recover
  PROVE  IInv'
<1>1. TypeOK'
  BY OtherSlot DEF IInv, Recover, TypeOK, ActiveEpoch, kernelVars, packetVars
<1>2. AgentInv'
  BY DEF IInv, Recover, AgentInv, Candidate, ActiveEpoch, kernelVars, packetVars
<1>3. MemoryMatchesKernel'
  BY DEF IInv, Recover, MemoryMatchesKernel, ActiveEpoch, kernelVars
<1>4. HeldSlotsProtected'
  <2>1. pending' # NoSlot
    BY OtherSlot DEF IInv, TypeOK, Recover
  <2> QED
    BY <2>1 DEF IInv, Recover, HeldSlotsProtected, Holds, AgentKeepsOff, ActiveEpoch, kernelVars, packetVars
<1> QED
  BY <1>1, <1>2, <1>3, <1>4, AgentFrame, AgentFrameMaps DEF IInv, Recover

\* The death of the agent at any point keeps the invariant.
LEMMA CrashPreserves ==
  ASSUME IInv, Crash
  PROVE  IInv'
<1>1. TypeOK'
  <2>1. 0 \in Slots /\ 0 \in Epochs
    BY MaxEpochNat DEF Slots, Epochs
  <2> QED
    BY <2>1 DEF IInv, Crash, TypeOK, kernelVars, packetVars
<1>2. AgentInv' /\ MemoryMatchesKernel'
  BY DEF IInv, Crash, AgentInv, MemoryMatchesKernel, Candidate, ActiveEpoch, kernelVars
<1>3. HeldSlotsProtected'
  BY DEF IInv, Crash, HeldSlotsProtected, Holds, AgentKeepsOff, ActiveEpoch, kernelVars, packetVars
<1> QED
  BY <1>1, <1>2, <1>3, AgentFrame, AgentFrameMaps DEF IInv, Crash

\* Every step of engineCore.Apply keeps the invariant.
LEMMA AgentStepPreserves ==
  ASSUME IInv, AgentStep
  PROVE  IInv'
<1> DEFINE s == Other(memSlot)
<1> USE DEF kernelVars, packetVars, memoryVars, agentVars, Return, Begin
<1>0. TypeOK /\ AgentInv /\ MemoryMatchesKernel /\ ActivePolicyIntact /\ HeldSlotsProtected
      /\ LookupsChecked /\ EpochsNotBeforeBirth
  BY DEF IInv
<1>a. s \in Slots /\ s # memSlot /\ s # NoSlot /\ Other(s) = memSlot
  BY <1>0, OtherSlot DEF TypeOK
\* Steps that write nothing but the agent's place in Apply.
<1>1. CASE ApplyNoop \/ ApplyRefused \/ ApplyChanged
  <2>1. TypeOK'
    BY <1>0, <1>1 DEF ApplyNoop, ApplyRefused, ApplyChanged, TypeOK
  <2>2. AgentInv'
    BY <1>0, <1>1 DEF ApplyNoop, ApplyRefused, ApplyChanged, AgentInv, Candidate, ActiveEpoch
  <2>3. \A p \in Packets : ~AgentKeepsOff(p)
    BY <1>1 DEF ApplyNoop, ApplyRefused, ApplyChanged, AgentKeepsOff
  <2> QED
    BY <1>0, <1>1, <2>1, <2>2, <2>3, QuietStep
       DEF ApplyNoop, ApplyRefused, ApplyChanged, MemoryMatchesKernel
\* A cell read as zero has no reader, so no holder's CPU is ever scanned.
<1>2. ASSUME NEW c \in CPUs, ScanCell(c) PROVE IInv'
  <2>1. TypeOK'
    BY <1>0, <1>2 DEF ScanCell, TypeOK
  <2>2. AgentInv'
    BY <1>0, <1>2 DEF ScanCell, AgentInv, Candidate, ActiveEpoch
  <2>3. ASSUME NEW p \in Packets, AgentKeepsOff(p), Holds(p), slot[p] # activeConfig
        PROVE  AgentKeepsOff(p)'
    <3>1. slot[p] = s
      BY <1>0, <1>2, <2>3 DEF ScanCell, TypeOK, MemoryMatchesKernel, Slots, Other
    <3>2. inFlight[cpu[p]][s] # 0
      BY <2>3, <3>1, ReaderCounted DEF IInv, Holds, Busy
    <3> QED
      BY <1>2, <2>3, <3>2 DEF ScanCell, AgentKeepsOff
  <2> QED
    BY <1>0, <1>2, <2>1, <2>2, <2>3, QuietStep DEF ScanCell, MemoryMatchesKernel
<1>3. CASE Quiesced
  <2>1. TypeOK'
    BY <1>0, <1>3 DEF Quiesced, TypeOK
  <2>2. AgentInv'
    BY <1>0, <1>3 DEF Quiesced, AgentInv, Candidate, ActiveEpoch
  <2>3. \A p \in Packets : ~AgentKeepsOff(p)
    BY <1>0, <1>3 DEF Quiesced, AgentKeepsOff, TypeOK
  <2> QED
    BY <1>0, <1>3, <2>1, <2>2, <2>3, QuietStep DEF Quiesced, MemoryMatchesKernel
<1>4. CASE WaitFails \/ ClearFails
  <2>1. TypeOK'
    BY <1>0, <1>4, <1>a DEF WaitFails, ClearFails, KeepPending, TypeOK
  <2>2. AgentInv'
    BY <1>0, <1>4 DEF WaitFails, ClearFails, AgentInv, Candidate, ActiveEpoch
  <2>3. \A p \in Packets : AgentKeepsOff(p)'
    BY <1>0, <1>4, <1>a DEF WaitFails, ClearFails, KeepPending, AgentKeepsOff, AgentInv
  <2> QED
    BY <1>0, <1>4, <2>1, <2>2, <2>3, QuietStep DEF WaitFails, ClearFails, KeepPending, MemoryMatchesKernel
<1>5. CASE ClearDone
  <2>1. TypeOK'
    BY <1>0, <1>5 DEF ClearDone, TypeOK
  <2>2. AgentInv'
    BY <1>0, <1>5 DEF ClearDone, AgentInv, Candidate, ActiveEpoch
  <2>3. \A p \in Packets : ~AgentKeepsOff(p)
    BY <1>5 DEF ClearDone, AgentKeepsOff
  <2> QED
    BY <1>0, <1>5, <2>1, <2>2, <2>3, QuietStep DEF ClearDone, MemoryMatchesKernel
<1>6. CASE PopulateDone \/ AttachDone \/ CandidateFails
  <2>1. TypeOK'
    BY <1>0, <1>6 DEF PopulateDone, AttachDone, CandidateFails, TypeOK
  <2>2. AgentInv'
    BY <1>0, <1>6 DEF PopulateDone, AttachDone, CandidateFails, AgentInv, Candidate, ActiveEpoch
  <2>3. \A p \in Packets : ~AgentKeepsOff(p)
    BY <1>6 DEF PopulateDone, AttachDone, CandidateFails, AgentKeepsOff
  <2> QED
    BY <1>0, <1>6, <2>1, <2>2, <2>3, QuietStep
       DEF PopulateDone, AttachDone, CandidateFails, MemoryMatchesKernel
\* The slot whose entries come and go is not the active one, and unheld.
<1>7. ASSUME NEW e \in Entries, ClearEntry(e) \/ PopulateEntry(e) PROVE IInv'
  <2>0. /\ agentPc \in {"clear", "populate"} /\ memSlot = activeConfig
        /\ slotData' \in [Slots -> SUBSET Entries] /\ slotData'[memSlot] = slotData[memSlot]
        /\ UNCHANGED <<activeConfig, configuration, committed, packetVars, agentVars>>
    <3>1. PICK D \in SUBSET Entries : slotData' = [slotData EXCEPT ![s] = D]
      BY <1>0, <1>7, <1>a DEF ClearEntry, PopulateEntry, TypeOK
    <3>2. /\ agentPc \in {"clear", "populate"}
          /\ UNCHANGED <<activeConfig, configuration, committed, packetVars, agentVars>>
      BY <1>7 DEF ClearEntry, PopulateEntry
    <3> QED
      BY <1>0, <1>a, <3>1, <3>2 DEF MemoryMatchesKernel, TypeOK
  <2>1. TypeOK'
    BY <1>0, <2>0 DEF TypeOK
  <2>2. AgentInv' /\ MemoryMatchesKernel' /\ ActivePolicyIntact'
    BY <1>0, <2>0 DEF AgentInv, MemoryMatchesKernel, ActivePolicyIntact, Candidate, ActiveEpoch
  <2>3. HeldSlotsProtected'
    BY <2>0, NoHolderInReach DEF HeldSlotsProtected, Holds, Candidate
  <2>4. LookupsChecked' /\ EpochsNotBeforeBirth'
    BY <1>0, <2>0 DEF LookupsChecked, EpochsNotBeforeBirth, ActiveEpoch
  <2> QED
    BY <2>0, <2>1, <2>2, <2>3, <2>4, AgentFrame DEF IInv
<1>8. CASE FlipWrite
  <2>0. /\ agentPc = "write" /\ memSlot = activeConfig /\ memEpoch = configuration[memSlot]
        /\ memEpoch + 1 \in Epochs /\ memEpoch \in Nat
        /\ configuration' \in [Slots -> Epochs] /\ configuration'[memSlot] = configuration[memSlot]
        /\ configuration'[s] = memEpoch + 1
    BY <1>0, <1>8, <1>a, MaxEpochNat
       DEF FlipWrite, MemoryMatchesKernel, TypeOK, AgentInv, Candidate, ActiveEpoch, Epochs
  <2>1. TypeOK'
    BY <1>0, <1>8, <2>0 DEF FlipWrite, TypeOK
  <2>2. AgentInv' /\ MemoryMatchesKernel' /\ ActivePolicyIntact'
    BY <1>0, <1>8, <1>a, <2>0
       DEF FlipWrite, AgentInv, MemoryMatchesKernel, ActivePolicyIntact, Candidate, ActiveEpoch
  <2>3. HeldSlotsProtected'
    BY <1>8, <2>0, NoHolderInReach DEF FlipWrite, HeldSlotsProtected, Holds, Candidate
  <2>4. LookupsChecked'
    BY <1>0, <1>8, <2>0, NoHolderInReach DEF FlipWrite, LookupsChecked, Holds, Candidate
  <2>5. EpochsNotBeforeBirth'
    <3>1. \A t \in Slots : t = memSlot \/ t = s
      BY <1>0, <1>a DEF TypeOK, Slots
    <3>2. \A p \in Packets : birth[p] \in Nat /\ ptr[p] \in Slots
      BY <1>0, MaxEpochNat DEF TypeOK, Epochs
    <3> QED
      BY <1>0, <1>8, <2>0, <3>1, <3>2 DEF FlipWrite, EpochsNotBeforeBirth, ActiveEpoch
  <2> QED
    BY <1>8, <2>1, <2>2, <2>3, <2>4, <2>5, AgentFrame DEF IInv, FlipWrite
\* The commit: every holder of the active slot becomes one of the retired slot.
<1>9. CASE FlipPublish
  <2>0. /\ agentPc = "publish" /\ memSlot = activeConfig /\ memEpoch = configuration[memSlot]
        /\ memEpoch + 1 \in Epochs /\ memEpoch \in Nat /\ configuration[s] = memEpoch + 1
        /\ slotData[s] = desired /\ pending = NoSlot
    BY <1>0, <1>9, MaxEpochNat
       DEF FlipPublish, MemoryMatchesKernel, TypeOK, AgentInv, Candidate, ActiveEpoch, Epochs
  <2>1. /\ committed' \in [Epochs -> SUBSET Entries]
        /\ committed'[memEpoch + 1] = desired /\ committed'[memEpoch] = committed[memEpoch]
    BY <1>0, <1>9, <2>0 DEF FlipPublish, TypeOK
  <2>2. TypeOK'
    <3>1. /\ UNCHANGED <<configuration, slotData, packetVars, pending, desired>>
          /\ activeConfig' = s /\ memSlot' = s /\ memEpoch' = memEpoch + 1
          /\ applied' = desired /\ hasApplied' = TRUE
          /\ agentPc' = "wait" /\ why' = "retire" /\ scanned' = {}
      BY <1>9 DEF FlipPublish
    <3> QED
      BY <1>0, <1>a, <2>0, <2>1, <3>1 DEF TypeOK
  <2>3. AgentInv' /\ MemoryMatchesKernel'
    <3>1. AgentInv'
      BY <1>0, <1>9, <1>a, <2>0 DEF FlipPublish, AgentInv, Candidate, ActiveEpoch
    <3>2. MemoryMatchesKernel'
      <4>1. activeConfig' = s /\ ActiveEpoch' = memEpoch + 1 /\ ActiveEpoch' # 0
        BY <1>9, <2>0 DEF FlipPublish, ActiveEpoch
      <4>2. hasApplied' = (ActiveEpoch' # 0)
        BY <1>9, <4>1 DEF FlipPublish
      <4> QED
        BY <1>9, <2>0, <4>1, <4>2 DEF FlipPublish, MemoryMatchesKernel
    <3> QED
      BY <3>1, <3>2
  <2>4. ActivePolicyIntact'
    BY <1>9, <2>0, <2>1 DEF FlipPublish, ActivePolicyIntact, ActiveEpoch
  <2>5. HeldSlotsProtected'
    <3> SUFFICES ASSUME NEW p \in Packets, Holds(p)
                 PROVE  /\ ActiveEpoch' = configuration[slot[p]] + 1
                        /\ slotData[slot[p]] = committed'[configuration[slot[p]]]
                        /\ AgentKeepsOff(p)'
      BY <1>9 DEF FlipPublish, HeldSlotsProtected, Holds
    <3>1. slot[p] = memSlot
      BY <2>0, NoHolderInReach DEF Candidate
    <3> QED
      BY <1>0, <1>9, <2>0, <2>1, <3>1 DEF FlipPublish, ActivePolicyIntact, ActiveEpoch, AgentKeepsOff
  <2>6. LookupsChecked'
    BY <1>0, <1>9 DEF FlipPublish, LookupsChecked
  <2>7. EpochsNotBeforeBirth'
    <3>1. \A p \in Packets : birth[p] \in Nat
      BY <1>0, MaxEpochNat DEF TypeOK, Epochs
    <3> QED
      BY <1>0, <1>9, <2>0, <3>1 DEF FlipPublish, EpochsNotBeforeBirth, ActiveEpoch
  <2> QED
    BY <1>9, <2>2, <2>3, <2>4, <2>5, <2>6, <2>7, AgentFrame DEF IInv, FlipPublish
<1> QED
  BY <1>1, <1>2, <1>3, <1>4, <1>5, <1>6, <1>7, <1>8, <1>9 DEF AgentStep

\* The invariant is inductive.
LEMMA NextPreserves == IInv /\ [Next]_vars => IInv'
<1> SUFFICES ASSUME IInv, [Next]_vars PROVE IInv'
  OBVIOUS
<1>1. CASE Next
  BY <1>1, PacketPreserves, ApplyStartPreserves, AgentStepPreserves, RecoverPreserves, CrashPreserves
     DEF Next
<1>2. CASE UNCHANGED vars
  <2>1. AgentInv' /\ MemoryMatchesKernel' /\ ActivePolicyIntact'
    BY <1>2, PacketFrame DEF vars
  <2>2. CountersExact' /\ LookupsChecked' /\ EpochsNotBeforeBirth'
    BY <1>2, AgentFrame, AgentFrameMaps DEF vars
  <2>3. TypeOK' /\ HeldSlotsProtected'
    BY <1>2 DEF vars, kernelVars, packetVars, agentVars, IInv, TypeOK, HeldSlotsProtected, Holds,
       AgentKeepsOff, ActiveEpoch
  <2> QED
    BY <2>1, <2>2, <2>3 DEF IInv
<1> QED
  BY <1>1, <1>2

\* The inductive invariant holds in every state of the two-slot store: whatever
\* packets, Apply calls, failures and crashes interleave.
THEOREM Invariant == Spec => []IInv
BY InitEstablishes, NextPreserves, PTL DEF Spec
-----------------------------------------------------------------------------
(* The properties the runs check.                                          *)

\* Every variable keeps its type; no in_flight cell ever goes below zero and no
\* packet registers more than three times.
THEOREM TypeCorrect == Spec => []TypeOK
<1>1. IInv => TypeOK
  BY DEF IInv
<1> QED
  BY <1>1, Invariant, PTL

\* Each in_flight cell counts exactly the packets registered on it, so the zero
\* that WaitQuiescent reads proves that the slot has no reader on that CPU.
THEOREM CountersAreExact == Spec => []CountersExact
<1>1. IInv => CountersExact
  BY DEF IInv
<1> QED
  BY <1>1, Invariant, PTL

\* The active slot always holds the whole policy set committed last, through
\* every failed Apply, crash and recovery.
THEOREM ActivePolicyStaysIntact == Spec => []ActivePolicyIntact
<1>1. IInv => ActivePolicyIntact
  BY DEF IInv
<1> QED
  BY <1>1, Invariant, PTL

\* The memory of a running engine agrees with the pinned maps, so Apply never
\* compares a candidate with something the kernel does not enforce.
THEOREM EngineMatchesKernel == Spec => []MemoryMatchesKernel
<1>1. IInv => MemoryMatchesKernel
  BY DEF IInv
<1> QED
  BY <1>1, Invariant, PTL

\* In a state of the invariant a packet that passed its check reads a whole
\* committed policy set.
LEMMA HeldSlotIsCommitted == IInv => PacketReadsCommittedPolicy
<1> SUFFICES ASSUME IInv, NEW p \in Packets, pktPc[p] = "lookup"
             PROVE  slotData[slot[p]] = committed[epoch[p]]
  BY DEF PacketReadsCommittedPolicy
<1>1. Holds(p) /\ epoch[p] = configuration[slot[p]]
  BY DEF IInv, LookupsChecked, Holds
<1>2. CASE slot[p] = activeConfig
  BY <1>1, <1>2 DEF IInv, ActivePolicyIntact, ActiveEpoch
<1>3. CASE slot[p] # activeConfig
  BY <1>1, <1>3 DEF IInv, HeldSlotsProtected
<1> QED
  BY <1>2, <1>3

\* A packet whose second read of the configuration agreed with its first looks
\* its entries up in exactly the policy set of its epoch, for any number of
\* packets and CPUs: ClearSlot and PopulateSlot never write under a reader.
THEOREM PacketsReadCommittedPolicies == Spec => []PacketReadsCommittedPolicy
BY HeldSlotIsCommitted, Invariant, PTL

\* A step of the agent either leaves the published configuration alone or is
\* the pointer swap of Flip, which moves to the other slot and the next epoch.
LEMMA CommitStep ==
  ASSUME IInv, [Next]_vars
  PROVE  \/ UNCHANGED <<activeConfig, ActiveEpoch, committed>>
         \/ FlipPublish /\ activeConfig' = Other(activeConfig) /\ ActiveEpoch' = ActiveEpoch + 1
<1> USE DEF kernelVars, agentVars, ActiveEpoch
<1>1. CASE FlipWrite
  <2>1. memSlot = activeConfig /\ memSlot \in Slots /\ configuration \in [Slots -> Epochs]
    BY <1>1 DEF FlipWrite, IInv, MemoryMatchesKernel, TypeOK
  <2> QED
    BY <1>1, <2>1, OtherSlot DEF FlipWrite
<1>2. CASE FlipPublish
  BY <1>2 DEF FlipPublish, IInv, MemoryMatchesKernel, AgentInv
<1>3. CASE \E p \in Packets : PacketStart(p) \/ PacketStep(p)
  BY <1>3 DEF PacketStart, PacketStep, ReadConfig, LoadConfig, Register, RereadConfig, CheckConfig,
     UndoAndRetry, UndoAndBlock, Decide
<1>4. CASE Next /\ ~FlipWrite /\ ~FlipPublish /\ ~(\E p \in Packets : PacketStart(p) \/ PacketStep(p))
  BY <1>4 DEF Next, AgentStep, Recover, Crash, ApplyStart, ApplyNoop, ApplyRefused, ApplyChanged, ScanCell,
     Quiesced, WaitFails, ClearEntry, ClearFails, ClearDone, PopulateEntry, PopulateDone, AttachDone,
     CandidateFails
<1> QED
  BY <1>1, <1>2, <1>3, <1>4 DEF vars

\* The published slot and epoch change only by the pointer swap of Flip, to the
\* other slot with the next epoch: no failure, rollback, crash or recovery
\* republishes an old policy.
THEOREM CommitsAdvanceEpoch == Spec => CommitAdvancesEpoch
<1>1. IInv /\ [Next]_vars =>
        [ <<activeConfig, ActiveEpoch>>' # <<activeConfig, ActiveEpoch>>
            => activeConfig' = Other(activeConfig) /\ ActiveEpoch' = ActiveEpoch + 1 ]_vars
  BY CommitStep
<1> QED
  BY <1>1, Invariant, PTL DEF Spec, CommitAdvancesEpoch
-----------------------------------------------------------------------------
(* Refinement.                                                             *)

\* The initial states map to initial states of the abstract register.
LEMMA InitMaps == Init => Register_!Init
BY DEF Init, Register_!Init, ActiveEpoch, Stage, View, Slots, Epochs

\* A packet that looks entries up does so at an epoch of its lifetime.
LookupsInLifetime == \A p \in Packets : pktPc[p] = "lookup" => epoch[p] \in birth[p]..ActiveEpoch

\* A packet in "lookup" uses an epoch that was current since it started.
LEMMA LookupEpoch == IInv => LookupsInLifetime
<1> SUFFICES ASSUME IInv, NEW p \in Packets, pktPc[p] = "lookup"
             PROVE  epoch[p] \in birth[p]..ActiveEpoch
  BY DEF LookupsInLifetime
<1>1. Holds(p) /\ epoch[p] = configuration[slot[p]] /\ birth[p] <= epoch[p]
  BY DEF IInv, LookupsChecked, Holds, EpochsNotBeforeBirth
<1>2. slot[p] = activeConfig \/ ActiveEpoch = configuration[slot[p]] + 1
  BY <1>1 DEF IInv, HeldSlotsProtected
<1>3. epoch[p] \in Nat /\ birth[p] \in Nat /\ ActiveEpoch \in Nat
  BY MaxEpochNat DEF IInv, TypeOK, Epochs, ActiveEpoch
<1> QED
  BY <1>1, <1>2, <1>3 DEF ActiveEpoch

\* The primed forms, for a step's second state.
LEMMA AfterStep == IInv' => PacketReadsCommittedPolicy' /\ LookupsInLifetime'
BY HeldSlotIsCommitted, LookupEpoch, PTL

\* A commit writes no epoch that a packet may be using.
LEMMA UsedEpochsKept ==
  ASSUME IInv, [Next]_vars, NEW p \in Packets, pktPc[p] = "lookup"
  PROVE  committed'[epoch[p]] = committed[epoch[p]]
<1>1. CASE FlipPublish
  <2>1. epoch[p] \in birth[p]..ActiveEpoch
    BY LookupEpoch DEF LookupsInLifetime
  <2>2. ActiveEpoch \in Nat /\ birth[p] \in Nat /\ memEpoch = ActiveEpoch /\ epoch[p] \in Epochs
    BY <1>1, MaxEpochNat DEF FlipPublish, IInv, MemoryMatchesKernel, TypeOK, ActiveEpoch, Epochs
  <2>3. epoch[p] # memEpoch + 1
    BY <2>1, <2>2
  <2> QED
    BY <1>1, <2>2, <2>3 DEF FlipPublish, IInv, TypeOK
<1> QED
  BY <1>1, CommitStep

\* What a packet in "lookup" sees is untouched by every step of the agent.
LEMMA AgentKeepsViews ==
  ASSUME IInv, IInv', [Next]_vars, UNCHANGED packetVars
  PROVE  UNCHANGED <<Stage, birth, View>>
<1>1. ASSUME NEW p \in Packets, pktPc[p] = "lookup"
      PROVE  slotData'[slot[p]] = slotData[slot[p]]
  <2>1. slotData[slot[p]] = committed[epoch[p]]
    BY <1>1, HeldSlotIsCommitted DEF PacketReadsCommittedPolicy
  <2>2. slotData'[slot[p]] = committed'[epoch[p]]
    BY <1>1, AfterStep DEF PacketReadsCommittedPolicy, packetVars
  <2> QED
    BY <1>1, <2>1, <2>2, UsedEpochsKept
<1> QED
  BY <1>1 DEF packetVars, Stage, View

\* A step of the agent is a commit of the abstract register or invisible.
LEMMA AgentStepMaps ==
  ASSUME IInv, IInv', [Next]_vars, UNCHANGED packetVars
  PROVE  [Register_!Next]_(Register_!rvars)
<1>1. UNCHANGED <<Stage, birth, View>>
  BY AgentKeepsViews
<1>2. CASE FlipPublish
  <2>1. /\ ActiveEpoch' = ActiveEpoch + 1 /\ memEpoch = ActiveEpoch /\ ActiveEpoch < MaxEpoch
        /\ desired \in SUBSET Entries
    BY <1>2 DEF FlipPublish, IInv, TypeOK, MemoryMatchesKernel, AgentInv, Candidate, ActiveEpoch
  <2>2. Register_!Commit(desired)
    BY <1>1, <1>2, <2>1 DEF FlipPublish, Register_!Commit
  <2> QED
    BY <2>1, <2>2 DEF Register_!Next
<1> QED
  BY <1>1, <1>2, CommitStep DEF Register_!rvars

\* A step of a packet program is an arrival, a judgement or a departure of the
\* abstract register, or invisible.
LEMMA PacketStepMaps ==
  ASSUME IInv, IInv', NEW p \in Packets, PacketStart(p) \/ PacketStep(p)
  PROVE  [Register_!Next]_(Register_!rvars)
<1> USE DEF Goto, kernelVars, ActiveEpoch, Stage, View
<1>0. TypeOK /\ TypeOK'
  BY DEF IInv
<1>1. CASE PacketStart(p)
  <2>1. Register_!Arrive(p)
    BY <1>0, <1>1 DEF PacketStart, TypeOK, Register_!Arrive
  <2> QED
    BY <2>1 DEF Register_!Next
<1>2. CASE ReadConfig(p) \/ LoadConfig(p) \/ Register(p) \/ RereadConfig(p) \/ UndoAndRetry(p)
           \/ (CheckConfig(p) /\ ~SameConfig(p))
  <2>1. UNCHANGED <<Stage, View, birth, kernelVars>>
    BY <1>0, <1>2 DEF ReadConfig, LoadConfig, Register, RereadConfig, UndoAndRetry, CheckConfig, TypeOK
  <2> QED
    BY <2>1 DEF Register_!rvars
<1>3. CASE CheckConfig(p) /\ SameConfig(p)
  <2>1. slotData[slot[p]] = committed[epoch[p]] /\ epoch[p] \in birth[p]..ActiveEpoch
    BY <1>0, <1>3, AfterStep DEF CheckConfig, PacketReadsCommittedPolicy, LookupsInLifetime, TypeOK
  <2>2. pktPc[p] = "check" /\ pktPc' = [pktPc EXCEPT ![p] = "lookup"]
        /\ UNCHANGED <<kernelVars, slot, birth>>
    BY <1>3 DEF CheckConfig
  <2>3. Stage[p] = "arrived" /\ Stage' = [Stage EXCEPT ![p] = "judged"]
    BY <1>0, <2>2 DEF TypeOK
  <2>4. View' = [View EXCEPT ![p] = committed[epoch[p]]]
    BY <1>0, <2>1, <2>2 DEF TypeOK
  <2>5. Register_!Judge(p)
    BY <2>1, <2>2, <2>3, <2>4 DEF Register_!Judge
  <2> QED
    BY <2>5 DEF Register_!Next
<1>4. CASE UndoAndBlock(p) \/ Decide(p)
  <2>1. pktPc[p] \in {"undo", "lookup"} /\ pktPc' = [pktPc EXCEPT ![p] = "idle"]
        /\ slot' = [slot EXCEPT ![p] = 0] /\ birth' = [birth EXCEPT ![p] = 0] /\ UNCHANGED kernelVars
    BY <1>4 DEF UndoAndBlock, Decide, Forget
  <2>2. Stage[p] \in {"arrived", "judged"} /\ Stage' = [Stage EXCEPT ![p] = "away"]
    BY <1>0, <2>1 DEF TypeOK
  <2>3. View' = [View EXCEPT ![p] = {}]
    BY <1>0, <2>1 DEF TypeOK
  <2>4. Register_!Depart(p)
    BY <2>1, <2>2, <2>3 DEF Register_!Depart
  <2> QED
    BY <2>4 DEF Register_!Next
<1> QED
  BY <1>1, <1>2, <1>3, <1>4 DEF PacketStep

\* The agent's step leaves the packets' variables alone.
LEMMA AgentLeavesPackets ==
  ASSUME [Next]_vars
  PROVE  UNCHANGED packetVars \/ \E p \in Packets : PacketStart(p) \/ PacketStep(p)
BY DEF vars, Next, AgentStep, Recover, Crash, ApplyStart, ApplyNoop, ApplyRefused, ApplyChanged, ScanCell,
   Quiesced, WaitFails, ClearEntry, ClearFails, ClearDone, PopulateEntry, PopulateDone, AttachDone,
   FlipWrite, FlipPublish, CandidateFails

\* The slots, the reader counters and the agent with its failures implement
\* one register of whole policies.
THEOREM Refinement == Spec => ImplementsPolicyRegister
<1>1. IInv /\ IInv' /\ [Next]_vars => [Register_!Next]_(Register_!rvars)
  BY AgentLeavesPackets, AgentStepMaps, PacketStepMaps
<1> QED
  BY <1>1, InitMaps, Invariant, PTL DEF Spec, ImplementsPolicyRegister, Register_!Spec
=============================================================================
