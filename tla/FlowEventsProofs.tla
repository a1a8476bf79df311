-------------------------- MODULE FlowEventsProofs --------------------------
(***************************************************************************)
(* Proofs about the two ends of a flow event, for any number of CPUs,      *)
(* packets, callers, subscribers and runs: DecisionCounts, which counts    *)
(* decisions, emits events and publishes the counters, and FlowMonitor,    *)
(* which hands the events to subscribers.                                  *)
(***************************************************************************)
EXTENDS DecisionCounts, FlowMonitor, FiniteSetTheorems, SequenceTheorems, TLAPS

(***************************************************************************)
(* DecisionCounts: the inductive invariant.                                *)
(***************************************************************************)
Frames == [step : {"count", "store", "emit"}, now : Nat, counter : Counters, loaded : Nat]
RefreshPCs == {"idle", "epoch", "decisions", "drops", "publish"}
Snapshots == [epoch : Nat, counts : [Counters -> Nat]]

KernelTyped ==
    /\ running \in [CPUs -> Seq(Frames)]
    /\ counts \in [CPUs -> [Counters -> Nat]]
    /\ limiter \in [CPUs -> [start : Nat, emitted : 0 .. FlowLimit]]
    /\ made \in [CPUs -> Nat] /\ nested \in [CPUs -> Nat]
    /\ delivered \in [CPUs -> Seq(Nat)]
    /\ clock \in Nat /\ epoch \in Nat

MetricsTyped ==
    /\ refresh \in [Goroutines -> [pc : RefreshPCs, snap : Snapshots]]
    /\ gauge \in Nat

\* The programs of a CPU that have decided and not yet counted it.
Pending(c) == {j \in DOMAIN running[c] : /\ running[c][j].counter = "decisions"
                                         /\ running[c][j].step # "emit"}

\* The decisions of a CPU that must be in its counter: those of programs that
\* interrupted no other, the one under way aside.
Due(c) == made[c] - nested[c] - (IF 1 \in Pending(c) THEN 1 ELSE 0)

\* The counter, and what a program has loaded from it, lie between the
\* decisions that are due and the decisions that were stored at all.
CountBounded(c) ==
    /\ Due(c) <= counts[c]["decisions"]
    /\ counts[c]["decisions"] + Cardinality(Pending(c)) <= made[c]
    /\ \A j \in Pending(c) : running[c][j].step = "store" =>
          /\ Due(c) <= running[c][j].loaded
          /\ running[c][j].loaded + Cardinality(Pending(c)) <= made[c]

\* The times and the counters of the programs under way.
FramesOrdered(c) ==
    /\ Len(running[c]) <= MaxNesting
    /\ limiter[c].start <= clock
    /\ \A j \in DOMAIN running[c] :
          /\ running[c][j].now <= clock
          /\ running[c][j].step = "emit" => running[c][j].counter = "decisions"

\* Without an interruption there is one program at a time, nothing is lost
\* between its load and its store, and its time is not before the window.
Uninterrupted(c) ==
    nested[c] = 0 =>
      /\ Len(running[c]) <= 1
      /\ made[c] = Len(delivered[c]) + counts[c]["limited"] + counts[c]["full"] + Len(running[c])
      /\ \A j \in DOMAIN running[c] :
            /\ limiter[c].start <= running[c][j].now
            /\ running[c][j].step = "store" =>
                 running[c][j].loaded = counts[c][running[c][j].counter]

\* The events of a CPU between two times.
Between(c, t, u) == {i \in DOMAIN delivered[c] : t <= delivered[c][i] /\ delivered[c][i] < u}

\* Without an interruption the events of the window are those the limiter has
\* counted, and of the time before it no Second has more than one window's.
Windows(c) ==
    nested[c] = 0 =>
      /\ \A i \in DOMAIN delivered[c] : delivered[c][i] < limiter[c].start + Second
      /\ Cardinality(Between(c, limiter[c].start, limiter[c].start + Second)) <= limiter[c].emitted
      /\ \A t \in Nat : t + Second > limiter[c].start =>
            Cardinality(Between(c, t, limiter[c].start)) <= FlowLimit
      /\ \A t \in Nat : Cardinality(Between(c, t, t + Second)) <= 2 * FlowLimit

CpuInv(c) == CountBounded(c) /\ FramesOrdered(c) /\ Uninterrupted(c) /\ Windows(c)

\* Only the holder of the lock refreshes, and only while there is an engine.
Serialised ==
    /\ \A g \in Goroutines : refresh[g].pc # "idle" => holder = g /\ agent.provider
    /\ agent.provider => agent.up

\* The epoch of a snapshot lies between the one shown and the one committed.
EpochsOrdered ==
    /\ gauge <= epoch
    /\ \A g \in Goroutines : refresh[g].pc \in {"decisions", "drops", "publish"} =>
          gauge <= refresh[g].snap.epoch /\ refresh[g].snap.epoch <= epoch

\* Counter k was read by the snapshot under way.
WasRead(g, k) == refresh[g].pc = "publish" \/ (refresh[g].pc = "drops" /\ k = "decisions")

\* Without an interruption what a process publishes is what it last read, and
\* what it reads lies between that and the counters.
PublicationOrdered ==
    (\A c \in CPUs : nested[c] = 0) => \A k \in Counters :
      /\ published[k] <= Sum(k)
      /\ agent.provider => published[k] = last[k]
      /\ \A g \in Goroutines : WasRead(g, k) =>
            last[k] <= refresh[g].snap.counts[k] /\ refresh[g].snap.counts[k] <= Sum(k)

CountsInv ==
    /\ CountsTypeOK /\ KernelTyped /\ MetricsTyped
    /\ \A c \in CPUs : CpuInv(c)
    /\ Serialised /\ EpochsOrdered /\ PublicationOrdered

(***************************************************************************)
(* The stack of packet programs of a CPU.                                  *)
(***************************************************************************)
OtherStacks(c) == \A d \in CPUs \ {c} : running'[d] = running[d]

Pushed(c, frame) ==
    /\ Len(running'[c]) = Len(running[c]) + 1
    /\ \A j \in 1 .. Len(running[c]) : running'[c][j] = running[c][j]
    /\ running'[c][Len(running[c]) + 1] = frame

Replaced(c, frame) ==
    /\ Len(running'[c]) = Len(running[c])
    /\ \A j \in 1 .. Len(running[c]) - 1 : running'[c][j] = running[c][j]
    /\ running'[c][Len(running[c])] = frame

Popped(c) ==
    /\ Len(running'[c]) = Len(running[c]) - 1
    /\ \A j \in 1 .. Len(running[c]) - 1 : running'[c][j] = running[c][j]

\* Appending a program to a stack pushes it.
LEMMA PushEffect ==
  ASSUME KernelTyped, NEW c \in CPUs, NEW f \in Frames,
         running' = [running EXCEPT ![c] = Append(@, f)]
  PROVE  running' \in [CPUs -> Seq(Frames)] /\ OtherStacks(c) /\ Pushed(c, f)
<1>1. running[c] \in Seq(Frames) /\ running'[c] = Append(running[c], f)
  BY DEF KernelTyped
<1>2. Append(running[c], f) \in Seq(Frames) /\ Pushed(c, f)
  BY <1>1 DEF Pushed
<1> QED BY <1>1, <1>2 DEF KernelTyped, OtherStacks

\* A running program is on top of its stack.
LEMMA TopFacts ==
  ASSUME KernelTyped, NEW c \in CPUs, running[c] # << >>
  PROVE  /\ Len(running[c]) \in Nat /\ Len(running[c]) >= 1
         /\ Len(running[c]) \in DOMAIN running[c]
         /\ DOMAIN running[c] = 1 .. Len(running[c])
         /\ Top(c) = running[c][Len(running[c])] /\ Top(c) \in Frames
<1>1. running[c] \in Seq(Frames)
  BY DEF KernelTyped
<1>2. Len(running[c]) \in Nat /\ Len(running[c]) # 0 /\ DOMAIN running[c] = 1 .. Len(running[c])
  BY <1>1
<1>3. Len(running[c]) \in 1 .. Len(running[c])
  BY <1>2
<1>4. running[c][Len(running[c])] \in Frames
  BY <1>1, <1>3
<1> QED BY <1>2, <1>3, <1>4 DEF Top

\* Replacing the frame on top.
LEMMA ReplaceEffect ==
  ASSUME KernelTyped, NEW c \in CPUs, running[c] # << >>, NEW f \in Frames, StepTo(c, f)
  PROVE  running' \in [CPUs -> Seq(Frames)] /\ OtherStacks(c) /\ Replaced(c, f)
<1>1. running[c] \in Seq(Frames) /\ running'[c] = [running[c] EXCEPT ![Len(running[c])] = f]
  BY DEF KernelTyped, StepTo
<1>2. running'[c] \in Seq(Frames) /\ Replaced(c, f)
  BY <1>1, TopFacts DEF Replaced
<1> QED BY <1>1, <1>2 DEF KernelTyped, OtherStacks, StepTo

\* A program that ends leaves the rest of its stack.
LEMMA PopEffect ==
  ASSUME KernelTyped, NEW c \in CPUs, running[c] # << >>, Pop(c)
  PROVE  running' \in [CPUs -> Seq(Frames)] /\ OtherStacks(c) /\ Popped(c)
<1>1. running[c] \in Seq(Frames) /\ running'[c] = SubSeq(running[c], 1, Len(running[c]) - 1)
  BY DEF KernelTyped, Pop
<1>2. running'[c] \in Seq(Frames) /\ Popped(c)
  <2>1. Len(running[c]) - 1 \in Nat
    BY TopFacts
  <2> QED BY <1>1, <2>1, TopFacts DEF Popped
<1> QED BY <1>1, <1>2 DEF KernelTyped, OtherStacks, Pop

\* The decisions pending on a CPU are finitely many.
LEMMA PendingFinite ==
  ASSUME KernelTyped, NEW c \in CPUs
  PROVE  IsFiniteSet(Pending(c)) /\ Cardinality(Pending(c)) \in Nat
<1>1. DOMAIN running[c] = 1 .. Len(running[c]) /\ Len(running[c]) \in Nat
  BY DEF KernelTyped
<1>2. IsFiniteSet(1 .. Len(running[c]))
  BY <1>1, FS_Interval
<1>3. IsFiniteSet(Pending(c))
  BY <1>1, <1>2, FS_Subset DEF Pending
<1> QED BY <1>3, FS_CardinalityType

\* The events of a CPU are finitely many.
LEMMA BetweenFinite ==
  ASSUME KernelTyped, NEW c \in CPUs, NEW t, NEW u
  PROVE  IsFiniteSet(Between(c, t, u)) /\ Cardinality(Between(c, t, u)) \in Nat
<1>1. DOMAIN delivered[c] = 1 .. Len(delivered[c]) /\ Len(delivered[c]) \in Nat
  BY DEF KernelTyped
<1>2. IsFiniteSet(1 .. Len(delivered[c]))
  BY <1>1, FS_Interval
<1>3. IsFiniteSet(Between(c, t, u))
  BY <1>1, <1>2, FS_Subset DEF Between
<1> QED BY <1>3, FS_CardinalityType

\* The increments of counter k, one element each.
Increments(f, k) == UNION {{c} \X (1 .. f[c][k]) : c \in CPUs}

\* The increments of a counter are finitely many.
LEMMA SumFinite ==
  ASSUME NEW f \in [CPUs -> [Counters -> Nat]], NEW k \in Counters
  PROVE  IsFiniteSet(Increments(f, k)) /\ Cardinality(Increments(f, k)) \in Nat
<1> DEFINE S == {{c} \X (1 .. f[c][k]) : c \in CPUs}
           g == [c \in CPUs |-> {c} \X (1 .. f[c][k])]
<1>1. \A T \in S : IsFiniteSet(T)
  <2> SUFFICES ASSUME NEW c \in CPUs PROVE IsFiniteSet({c} \X (1 .. f[c][k]))
    OBVIOUS
  <2>1. IsFiniteSet({c})
    BY FS_Singleton
  <2>2. IsFiniteSet(1 .. f[c][k])
    BY FS_Interval
  <2> QED BY <2>1, <2>2, FS_Product
<1>2. g \in [CPUs -> S] /\ \A T \in S : \E c \in CPUs : g[c] = T
  OBVIOUS
<1> HIDE DEF g, S
<1>3. g \in Surjection(CPUs, S)
  BY <1>2 DEF Surjection
<1>4. IsFiniteSet(S)
  BY <1>3, CountsAssumption, FS_Surjection
<1>5. IsFiniteSet(UNION S)
  BY <1>1, <1>4, FS_UNION
<1>6. Increments(f, k) = UNION S
  BY DEF Increments, S
<1> QED BY <1>5, <1>6, FS_CardinalityType

\* The sum of a counter that no CPU sets back does not go back.
LEMMA SumMonotone ==
  ASSUME KernelTyped, KernelTyped', NEW k \in Counters,
         \A c \in CPUs : counts[c][k] <= counts'[c][k]
  PROVE  Sum(k) \in Nat /\ Sum(k)' \in Nat /\ Sum(k) <= Sum(k)'
<1>1. /\ Sum(k) = Cardinality(Increments(counts, k))
      /\ Sum(k)' = Cardinality(Increments(counts', k))
  BY DEF Sum, Increments
<1>2. /\ IsFiniteSet(Increments(counts', k)) /\ Cardinality(Increments(counts', k)) \in Nat
      /\ Cardinality(Increments(counts, k)) \in Nat
  BY SumFinite DEF KernelTyped
<1>3. \A c \in CPUs : 1 .. counts[c][k] \subseteq 1 .. counts'[c][k]
  BY DEF KernelTyped
<1>4. Increments(counts, k) \subseteq Increments(counts', k)
  BY <1>3 DEF Increments
<1>5. Cardinality(Increments(counts, k)) <= Cardinality(Increments(counts', k))
  BY <1>2, <1>4, FS_Subset
<1> QED BY <1>1, <1>2, <1>5

(***************************************************************************)
(* What a step of the kernel does to the CPU it runs on.                   *)
(***************************************************************************)
\* The numbers of a CPU.
LEMMA CpuTyped ==
  ASSUME KernelTyped, NEW c \in CPUs
  PROVE  /\ Len(running[c]) \in Nat /\ DOMAIN running[c] = 1 .. Len(running[c])
         /\ \A j \in 1 .. Len(running[c]) : running[c][j] \in Frames
         /\ made[c] \in Nat /\ nested[c] \in Nat
         /\ \A k \in Counters : counts[c][k] \in Nat
         /\ limiter[c].start \in Nat /\ limiter[c].emitted \in 0 .. FlowLimit
         /\ delivered[c] \in Seq(Nat) /\ Len(delivered[c]) \in Nat
         /\ DOMAIN delivered[c] = 1 .. Len(delivered[c])
         /\ \A i \in DOMAIN delivered[c] : delivered[c][i] \in Nat
         /\ clock \in Nat
<1>1. running[c] \in Seq(Frames) /\ delivered[c] \in Seq(Nat)
  BY DEF KernelTyped
<1> QED BY <1>1 DEF KernelTyped

\* Everything of CPU d is as it was, and time does not go back.
SameCPU(d) ==
    /\ running'[d] = running[d] /\ counts'[d] = counts[d] /\ limiter'[d] = limiter[d]
    /\ made'[d] = made[d] /\ nested'[d] = nested[d] /\ delivered'[d] = delivered[d]
    /\ clock' \in Nat /\ clock <= clock'

\* A step of another CPU.
LEMMA SameCPUPreserves ==
  ASSUME KernelTyped, NEW d \in CPUs, CpuInv(d), SameCPU(d)
  PROVE  CpuInv(d)'
<1>1. Pending(d)' = Pending(d) /\ Due(d)' = Due(d) /\ \A t, u : Between(d, t, u)' = Between(d, t, u)
  BY DEF SameCPU, Pending, Due, Between
<1>2. CountBounded(d)'
  BY <1>1 DEF SameCPU, CpuInv, CountBounded
<1>3. FramesOrdered(d)'
  <2>1. \A j \in DOMAIN running[d] : running[d][j].now \in Nat
    BY CpuTyped DEF Frames
  <2> QED BY <2>1 DEF SameCPU, CpuInv, FramesOrdered, KernelTyped
<1>4. Uninterrupted(d)'
  BY DEF SameCPU, CpuInv, Uninterrupted
<1>5. Windows(d)'
  BY <1>1 DEF SameCPU, CpuInv, Windows
<1> QED BY <1>2, <1>3, <1>4, <1>5 DEF CpuInv

\* A program decides.
Decided(c) ==
    /\ Len(running[c]) < MaxNesting
    /\ \E f \in Frames : /\ f.step = "count" /\ f.counter = "decisions" /\ f.now = clock
                         /\ Pushed(c, f)
    /\ made'[c] = made[c] + 1
    /\ nested'[c] = IF Len(running[c]) = 0 THEN nested[c] ELSE nested[c] + 1
    /\ counts'[c] = counts[c] /\ limiter'[c] = limiter[c] /\ delivered'[c] = delivered[c]
    /\ clock' = clock

\* A packet program decides: its decision is due unless it interrupted another.
LEMMA DecidedPreserves ==
  ASSUME KernelTyped, KernelTyped', NEW c \in CPUs, CpuInv(c), Decided(c)
  PROVE  CpuInv(c)'
<1> DEFINE n == Len(running[c])
<1>1. PICK f \in Frames : /\ f.step = "count" /\ f.counter = "decisions" /\ f.now = clock
                          /\ Pushed(c, f)
  BY DEF Decided
<1>2. /\ DOMAIN running[c] = 1 .. n /\ n \in Nat
      /\ DOMAIN running'[c] = 1 .. n + 1 /\ Len(running'[c]) = n + 1
      /\ \A j \in 1 .. n : running'[c][j] = running[c][j]
      /\ running'[c][n + 1] = f
  <2>1. running'[c] \in Seq(Frames)
    BY DEF KernelTyped
  <2> QED BY <2>1, <1>1, CpuTyped DEF Pushed
<1>3. Pending(c)' = Pending(c) \cup {n + 1} /\ n + 1 \notin Pending(c)
  BY <1>1, <1>2 DEF Pending
<1>4. Cardinality(Pending(c)') = Cardinality(Pending(c)) + 1 /\ Cardinality(Pending(c)) \in Nat
  BY <1>3, PendingFinite, FS_AddElement
<1>5. Due(c)' = Due(c)
  <2>1. made[c] \in Nat /\ nested[c] \in Nat
    BY CpuTyped
  <2>2. CASE n = 0
    <3>1. 1 \in Pending(c)' /\ 1 \notin Pending(c)
      BY <2>2, <1>2, <1>3 DEF Pending
    <3> QED BY <2>1, <2>2, <3>1 DEF Due, Decided
  <2>3. CASE n # 0
    <3>1. 1 \in Pending(c)' <=> 1 \in Pending(c)
      BY <2>3, <1>2, <1>3
    <3> QED BY <2>1, <2>3, <3>1 DEF Due, Decided
  <2> QED BY <2>2, <2>3
<1>6. CountBounded(c)'
  <2>1. \A j \in Pending(c)' : running'[c][j].step = "store" =>
           j \in Pending(c) /\ running'[c][j] = running[c][j]
    BY <1>1, <1>2, <1>3 DEF Pending
  <2>2. \A j \in Pending(c) : running[c][j].loaded \in Nat
    BY <1>2, CpuTyped DEF Pending, Frames
  <2>3. counts[c]["decisions"] \in Nat /\ made[c] \in Nat
    BY CpuTyped DEF Counters
  <2>4. counts'[c] = counts[c] /\ made'[c] = made[c] + 1
    BY DEF Decided
  <2>5. \A j \in Pending(c) : running[c][j].step = "store" =>
          /\ Due(c) <= running[c][j].loaded
          /\ running[c][j].loaded + Cardinality(Pending(c)) + 1 <= made[c] + 1
    BY <1>4, <2>2, <2>3 DEF CpuInv, CountBounded
  <2>6. /\ Due(c) <= counts[c]["decisions"]
        /\ counts[c]["decisions"] + Cardinality(Pending(c)) + 1 <= made[c] + 1
    BY <1>4, <2>3 DEF CpuInv, CountBounded
  <2>7. \A j \in Pending(c)' : running'[c][j].step = "store" =>
          /\ Due(c)' <= running'[c][j].loaded
          /\ running'[c][j].loaded + Cardinality(Pending(c)') <= made'[c]
    <3> SUFFICES ASSUME NEW j \in Pending(c)', running'[c][j].step = "store"
                 PROVE  /\ Due(c)' <= running'[c][j].loaded
                        /\ running'[c][j].loaded + Cardinality(Pending(c)') <= made'[c]
      OBVIOUS
    <3>1. j \in Pending(c) /\ running'[c][j] = running[c][j] /\ running[c][j].step = "store"
      BY <2>1
    <3> QED BY <3>1, <1>4, <1>5, <2>2, <2>4, <2>5
  <2>8. Due(c)' <= counts'[c]["decisions"]
        /\ counts'[c]["decisions"] + Cardinality(Pending(c)') <= made'[c]
    BY <1>4, <1>5, <2>3, <2>4, <2>6
  <2> QED BY <2>7, <2>8 DEF CountBounded
<1>7. FramesOrdered(c)'
  <2>1. Len(running'[c]) <= MaxNesting
    BY <1>2, CountsAssumption DEF Decided
  <2>2. clock \in Nat /\ clock' = clock /\ limiter'[c] = limiter[c]
    BY CpuTyped DEF Decided
  <2>3. \A j \in DOMAIN running'[c] :
          \/ j \in DOMAIN running[c] /\ running'[c][j] = running[c][j]
          \/ running'[c][j] = f
    BY <1>2
  <2> QED BY <1>1, <2>1, <2>2, <2>3 DEF CpuInv, FramesOrdered
<1>8. Uninterrupted(c)'
  <2>1. nested'[c] = 0 => n = 0 /\ nested[c] = 0
    BY <1>2, CpuTyped DEF Decided
  <2>2. limiter[c].start <= clock
    BY DEF CpuInv, FramesOrdered
  <2> SUFFICES ASSUME nested'[c] = 0
               PROVE  Uninterrupted(c)'
    BY DEF Uninterrupted
  <2>3. made'[c] = Len(delivered'[c]) + counts'[c]["limited"] + counts'[c]["full"] + Len(running'[c])
    <3>1. made[c] = Len(delivered[c]) + counts[c]["limited"] + counts[c]["full"] + 0
      BY <2>1 DEF CpuInv, Uninterrupted
    <3> QED BY <3>1, <1>2, <2>1, CpuTyped DEF Decided, Counters
  <2>4. DOMAIN running'[c] = {1} /\ running'[c][1] = f
    BY <1>2, <2>1
  <2> QED BY <1>1, <1>2, <2>1, <2>2, <2>3, <2>4 DEF Decided, Uninterrupted
<1>9. Windows(c)'
  <2>1. \A t, u : Between(c, t, u)' = Between(c, t, u)
    BY DEF Decided, Between
  <2>2. nested'[c] = 0 => nested[c] = 0
    BY CpuTyped DEF Decided
  <2> QED BY <2>1, <2>2 DEF Decided, CpuInv, Windows
<1> QED BY <1>6, <1>7, <1>8, <1>9 DEF CpuInv

\* A sequence of at least and at most one element.
LEMMA LenOne ==
  ASSUME NEW s, Len(s) \in Nat, Len(s) >= 1, Len(s) <= 1
  PROVE  Len(s) = 1
OBVIOUS

\* A program is on top of the stack and its frame is replaced.
LEMMA ReplacedFacts ==
  ASSUME KernelTyped, KernelTyped', NEW c \in CPUs, running[c] # << >>, NEW f,
         Replaced(c, f)
  PROVE  LET n == Len(running[c]) IN
         /\ n \in Nat /\ n >= 1 /\ Len(running'[c]) = n
         /\ DOMAIN running[c] = 1 .. n /\ DOMAIN running'[c] = 1 .. n
         /\ \A j \in 1 .. n : j # n => running'[c][j] = running[c][j]
         /\ running[c][n] = Top(c) /\ running'[c][n] = f
<1>1. running'[c] \in Seq(Frames)
  BY DEF KernelTyped
<1> QED BY <1>1, TopFacts DEF Replaced

\* A program ends.
LEMMA PoppedFacts ==
  ASSUME KernelTyped, KernelTyped', NEW c \in CPUs, running[c] # << >>, Popped(c)
  PROVE  LET n == Len(running[c]) IN
         /\ n \in Nat /\ n >= 1 /\ Len(running'[c]) = n - 1
         /\ DOMAIN running[c] = 1 .. n /\ DOMAIN running'[c] = 1 .. n - 1
         /\ \A j \in 1 .. n - 1 : j \in 1 .. n /\ running'[c][j] = running[c][j]
         /\ running[c][n] = Top(c)
<1>1. running'[c] \in Seq(Frames)
  BY DEF KernelTyped
<1> QED BY <1>1, TopFacts DEF Popped

\* The counter is loaded.
Loaded(c) ==
    /\ TopAt(c, "count")
    /\ \E f \in Frames : /\ f.step = "store" /\ f.now = Top(c).now /\ f.counter = Top(c).counter
                         /\ f.loaded = counts[c][Top(c).counter]
                         /\ Replaced(c, f)
    /\ counts'[c] = counts[c] /\ limiter'[c] = limiter[c] /\ delivered'[c] = delivered[c]
    /\ made'[c] = made[c] /\ nested'[c] = nested[c] /\ clock' = clock

\* increment_counter loads: what it loads is what is there.
LEMMA LoadedPreserves ==
  ASSUME KernelTyped, KernelTyped', NEW c \in CPUs, CpuInv(c), Loaded(c)
  PROVE  CpuInv(c)'
<1> DEFINE n == Len(running[c])
<1>1. running[c] # << >> /\ Top(c).step = "count"
  BY DEF Loaded, TopAt
<1>2. PICK f \in Frames : /\ f.step = "store" /\ f.now = Top(c).now /\ f.counter = Top(c).counter
                          /\ f.loaded = counts[c][Top(c).counter]
                          /\ Replaced(c, f)
  BY DEF Loaded
<1>3. /\ n \in Nat /\ n >= 1 /\ Len(running'[c]) = n
      /\ DOMAIN running[c] = 1 .. n /\ DOMAIN running'[c] = 1 .. n
      /\ \A j \in 1 .. n : j # n => running'[c][j] = running[c][j]
      /\ running[c][n] = Top(c) /\ running'[c][n] = f
  BY <1>1, <1>2, ReplacedFacts
<1>4. /\ counts'[c] = counts[c] /\ limiter'[c] = limiter[c] /\ delivered'[c] = delivered[c]
      /\ made'[c] = made[c] /\ nested'[c] = nested[c] /\ clock' = clock
  BY DEF Loaded
<1>0. n = Len(running[c]) /\ Len(running[c]) \in Nat /\ Len(running[c]) >= 1
  BY <1>1, TopFacts
<1> HIDE DEF n
<1>5. Pending(c)' = Pending(c)
  BY <1>1, <1>2, <1>3 DEF Pending
<1>6. Due(c)' = Due(c)
  BY <1>4, <1>5 DEF Due
<1>7. CountBounded(c)'
  <2>1. \A j \in Pending(c) : j # n => running'[c][j] = running[c][j]
    BY <1>3 DEF Pending
  <2>2. n \in Pending(c) => running'[c][n].loaded = counts[c]["decisions"]
    BY <1>2, <1>3 DEF Pending
  <2> QED BY <1>4, <1>5, <1>6, <2>1, <2>2 DEF CpuInv, CountBounded
<1>8. FramesOrdered(c)'
  BY <1>2, <1>3, <1>4 DEF CpuInv, FramesOrdered
<1>9. Uninterrupted(c)'
  BY <1>2, <1>3, <1>4 DEF CpuInv, Uninterrupted
<1>10. Windows(c)'
  <2>1. \A t, u : Between(c, t, u)' = Between(c, t, u)
    BY <1>4 DEF Between
  <2> QED BY <1>4, <2>1 DEF CpuInv, Windows
<1> QED BY <1>7, <1>8, <1>9, <1>10 DEF CpuInv

\* The decision is stored, the event comes next.
DecisionStored(c) ==
    /\ TopAt(c, "store") /\ Top(c).counter = "decisions"
    /\ \E f \in Frames : /\ f.step = "emit" /\ f.now = Top(c).now /\ f.counter = "decisions"
                         /\ Replaced(c, f)
    /\ counts'[c]["decisions"] = Top(c).loaded + 1
    /\ counts'[c]["limited"] = counts[c]["limited"] /\ counts'[c]["full"] = counts[c]["full"]
    /\ limiter'[c] = limiter[c] /\ delivered'[c] = delivered[c]
    /\ made'[c] = made[c] /\ nested'[c] = nested[c] /\ clock' = clock

\* increment_counter stores a decision: one pending decision less. A store that
\* overwrites increments of interrupting programs never goes below what is due.
LEMMA DecisionStoredPreserves ==
  ASSUME KernelTyped, KernelTyped', NEW c \in CPUs, CpuInv(c), DecisionStored(c)
  PROVE  CpuInv(c)'
<1> DEFINE n == Len(running[c])
<1>1. running[c] # << >> /\ Top(c).step = "store" /\ Top(c).counter = "decisions"
  BY DEF DecisionStored, TopAt
<1>2. PICK f \in Frames : /\ f.step = "emit" /\ f.now = Top(c).now /\ f.counter = "decisions"
                          /\ Replaced(c, f)
  BY DEF DecisionStored
<1>3. /\ n \in Nat /\ n >= 1 /\ Len(running'[c]) = n
      /\ DOMAIN running[c] = 1 .. n /\ DOMAIN running'[c] = 1 .. n
      /\ \A j \in 1 .. n : j # n => running'[c][j] = running[c][j]
      /\ running[c][n] = Top(c) /\ running'[c][n] = f
  BY <1>1, <1>2, ReplacedFacts
<1>4. /\ counts'[c]["decisions"] = Top(c).loaded + 1
      /\ counts'[c]["limited"] = counts[c]["limited"] /\ counts'[c]["full"] = counts[c]["full"]
      /\ limiter'[c] = limiter[c] /\ delivered'[c] = delivered[c]
      /\ made'[c] = made[c] /\ nested'[c] = nested[c] /\ clock' = clock
  BY DEF DecisionStored
<1>0. n = Len(running[c]) /\ Len(running[c]) \in Nat /\ Len(running[c]) >= 1
  BY <1>1, TopFacts
<1> HIDE DEF n
<1>5. Pending(c)' = Pending(c) \ {n} /\ n \in Pending(c)
  BY <1>1, <1>2, <1>3 DEF Pending
<1>6. Cardinality(Pending(c)') = Cardinality(Pending(c)) - 1 /\ Cardinality(Pending(c)) \in Nat
  BY <1>5, PendingFinite, FS_RemoveElement
<1>7. made[c] \in Nat /\ nested[c] \in Nat /\ \A j \in Pending(c) : running[c][j].loaded \in Nat
  BY CpuTyped DEF Pending, Frames
<1>8. CountBounded(c)'
  <2>1. /\ Due(c) <= Top(c).loaded /\ Top(c).loaded \in Nat
        /\ Top(c).loaded + Cardinality(Pending(c)) <= made[c]
    BY <1>1, <1>3, <1>5, <1>7 DEF CpuInv, CountBounded
  <2>2. Due(c) \in Int /\ Due(c)' \in Int /\ Due(c)' <= Due(c) + 1
    BY <1>4, <1>5, <1>7 DEF Due
  <2>3. Pending(c)' # {} => Due(c)' = Due(c)
    <3>1. Pending(c)' # {} => n # 1
      BY <1>3, <1>5 DEF Pending
    <3>2. n # 1 => (1 \in Pending(c)' <=> 1 \in Pending(c))
      BY <1>5
    <3> QED BY <3>1, <3>2, <1>4 DEF Due
  <2>4. \A j \in Pending(c)' : j \in Pending(c) /\ running'[c][j] = running[c][j]
    BY <1>3, <1>5 DEF Pending
  <2>5. ASSUME NEW j \in Pending(c)', running'[c][j].step = "store"
        PROVE  /\ Due(c)' <= running'[c][j].loaded
               /\ running'[c][j].loaded + Cardinality(Pending(c)') <= made'[c]
    <3>1. /\ Due(c) <= running[c][j].loaded
          /\ running[c][j].loaded + Cardinality(Pending(c)) <= made[c]
      BY <2>4, <2>5 DEF CpuInv, CountBounded
    <3>2. Due(c)' = Due(c) /\ running'[c][j] = running[c][j] /\ running[c][j].loaded \in Nat
      BY <1>7, <2>3, <2>4, <2>5
    <3> QED BY <1>4, <1>6, <1>7, <3>1, <3>2
  <2>6. Due(c)' <= counts'[c]["decisions"]
        /\ counts'[c]["decisions"] + Cardinality(Pending(c)') <= made'[c]
    BY <1>4, <1>6, <1>7, <2>1, <2>2
  <2> QED BY <2>5, <2>6 DEF CountBounded
<1>9. FramesOrdered(c)'
  BY <1>2, <1>3, <1>4 DEF CpuInv, FramesOrdered
<1>10. Uninterrupted(c)'
  <2> SUFFICES ASSUME nested[c] = 0
               PROVE  Uninterrupted(c)'
    BY <1>4 DEF Uninterrupted
  <2>0. Len(running[c]) <= 1
    BY DEF CpuInv, Uninterrupted
  <2>1. n = 1
    <3>1. Len(running[c]) = 1
      BY <1>0, <2>0, LenOne
    <3> QED BY <3>1, <1>0
  <2> QED BY <1>2, <1>3, <1>4, <2>1 DEF CpuInv, Uninterrupted, n
<1>11. Windows(c)'
  <2>1. \A t, u : Between(c, t, u)' = Between(c, t, u)
    BY <1>4 DEF Between
  <2> QED BY <1>4, <2>1 DEF CpuInv, Windows
<1> QED BY <1>8, <1>9, <1>10, <1>11 DEF CpuInv

\* A drop is stored and the program is done.
DropStored(c, k) ==
    /\ TopAt(c, "store") /\ Top(c).counter = k /\ k \in {"limited", "full"}
    /\ Popped(c)
    /\ counts'[c][k] = Top(c).loaded + 1
    /\ \A l \in Counters : l # k => counts'[c][l] = counts[c][l]
    /\ limiter'[c] = limiter[c] /\ delivered'[c] = delivered[c]
    /\ made'[c] = made[c] /\ nested'[c] = nested[c] /\ clock' = clock

\* increment_counter stores a drop, and the program ends.
LEMMA DropStoredPreserves ==
  ASSUME KernelTyped, KernelTyped', NEW c \in CPUs, CpuInv(c), NEW k, DropStored(c, k)
  PROVE  CpuInv(c)'
<1> DEFINE n == Len(running[c])
<1>1. running[c] # << >> /\ Top(c).step = "store" /\ Top(c).counter = k /\ k \in {"limited", "full"}
  BY DEF DropStored, TopAt
<1>2. /\ n \in Nat /\ n >= 1 /\ Len(running'[c]) = n - 1
      /\ DOMAIN running[c] = 1 .. n /\ DOMAIN running'[c] = 1 .. n - 1
      /\ \A j \in 1 .. n - 1 : j \in 1 .. n /\ running'[c][j] = running[c][j]
      /\ running[c][n] = Top(c)
  BY <1>1, PoppedFacts DEF DropStored
<1>3. /\ counts'[c][k] = Top(c).loaded + 1
      /\ \A l \in Counters : l # k => counts'[c][l] = counts[c][l]
      /\ limiter'[c] = limiter[c] /\ delivered'[c] = delivered[c]
      /\ made'[c] = made[c] /\ nested'[c] = nested[c] /\ clock' = clock
  BY DEF DropStored
<1>4. counts'[c]["decisions"] = counts[c]["decisions"]
  BY <1>1, <1>3 DEF Counters
<1>0. n = Len(running[c]) /\ Len(running[c]) \in Nat /\ Len(running[c]) >= 1
  BY <1>1, TopFacts
<1> HIDE DEF n
<1>5. Pending(c)' = Pending(c) /\ \A j \in Pending(c) : running'[c][j] = running[c][j]
  BY <1>1, <1>2 DEF Pending
<1>6. Due(c)' = Due(c)
  BY <1>3, <1>5 DEF Due
<1>7. CountBounded(c)'
  BY <1>3, <1>4, <1>5, <1>6 DEF CpuInv, CountBounded
<1>8. FramesOrdered(c)'
  <2>1. Len(running'[c]) <= MaxNesting
    BY <1>2, CountsAssumption DEF CpuInv, FramesOrdered, n
  <2> QED BY <1>2, <1>3, <2>1 DEF CpuInv, FramesOrdered
<1>9. Uninterrupted(c)'
  <2> SUFFICES ASSUME nested[c] = 0
               PROVE  Uninterrupted(c)'
    BY <1>3 DEF Uninterrupted
  <2>0. /\ Len(running[c]) <= 1
        /\ made[c] = Len(delivered[c]) + counts[c]["limited"] + counts[c]["full"] + Len(running[c])
        /\ \A j \in DOMAIN running[c] : running[c][j].step = "store" =>
              running[c][j].loaded = counts[c][running[c][j].counter]
    BY DEF CpuInv, Uninterrupted
  <2>1. /\ n = 1 /\ Top(c).loaded = counts[c][k]
        /\ made[c] = Len(delivered[c]) + counts[c]["limited"] + counts[c]["full"] + 1
    <3>0. Len(running[c]) = 1
      BY <1>0, <2>0, LenOne
    <3>1. n = 1
      BY <3>0, <1>0
    <3> QED BY <3>1, <1>0, <1>1, <1>2, <2>0
  <2>2. counts[c]["limited"] \in Nat /\ counts[c]["full"] \in Nat /\ Len(delivered[c]) \in Nat
    BY CpuTyped DEF Counters
  <2>a. \/ /\ counts'[c]["limited"] = counts[c]["limited"] + 1
           /\ counts'[c]["full"] = counts[c]["full"]
        \/ /\ counts'[c]["limited"] = counts[c]["limited"]
           /\ counts'[c]["full"] = counts[c]["full"] + 1
    <3>1. counts'[c][k] = counts[c][k] + 1
      BY <1>3, <2>1
    <3>2. \A l \in {"limited", "full"} : l # k => counts'[c][l] = counts[c][l]
      BY <1>3 DEF Counters
    <3>3. CASE k = "limited"
      BY <3>1, <3>2, <3>3
    <3>4. CASE k = "full"
      BY <3>1, <3>2, <3>4
    <3> QED BY <1>1, <3>3, <3>4
  <2>3. counts'[c]["limited"] + counts'[c]["full"] = counts[c]["limited"] + counts[c]["full"] + 1
    BY <2>2, <2>a
  <2>4. counts'[c]["limited"] \in Nat /\ counts'[c]["full"] \in Nat
    BY <2>2, <2>a
  <2>5. DOMAIN running'[c] = {} /\ Len(running'[c]) = 0
    BY <1>2, <2>1
  <2>6. made'[c] = Len(delivered'[c]) + counts'[c]["limited"] + counts'[c]["full"] + Len(running'[c])
    <3>1. made'[c] = made[c] /\ delivered'[c] = delivered[c]
      BY <1>3
    <3>2. made[c] = Len(delivered[c]) + counts'[c]["limited"] + counts'[c]["full"] + 0
      <4>1. Len(delivered[c]) + counts[c]["limited"] + counts[c]["full"] + 1
              = Len(delivered[c]) + counts'[c]["limited"] + counts'[c]["full"] + 0
        <5>1. \A d \in Nat : d + counts[c]["limited"] + counts[c]["full"] + 1
                                = d + counts'[c]["limited"] + counts'[c]["full"] + 0
          <6>1. counts[c]["limited"] \in Nat /\ counts[c]["full"] \in Nat
            BY <2>2
          <6> QED BY <6>1, <2>3, <2>4
        <5> QED BY <2>2, <5>1
      <4> QED BY <4>1, <2>1
    <3> QED BY <3>1, <3>2, <2>5
  <2> QED BY <2>5, <2>6 DEF Uninterrupted
<1>10. Windows(c)'
  <2>1. \A t, u : Between(c, t, u)' = Between(c, t, u)
    BY <1>3 DEF Between
  <2> QED BY <1>3, <2>1 DEF CpuInv, Windows
<1> QED BY <1>7, <1>8, <1>9, <1>10 DEF CpuInv

\* A union is at most as large as the two sets together.
LEMMA UnionBound ==
  ASSUME NEW S, NEW T, IsFiniteSet(S), IsFiniteSet(T)
  PROVE  Cardinality(S \cup T) <= Cardinality(S) + Cardinality(T)
<1>1. Cardinality(S) \in Nat /\ Cardinality(T) \in Nat
  BY FS_CardinalityType
<1>2. Cardinality(S \cap T) \in Nat
  <2>1. IsFiniteSet(S \cap T)
    BY FS_Intersection
  <2> QED BY <2>1, FS_CardinalityType
<1>3. Cardinality(S \cup T) = Cardinality(S) + Cardinality(T) - Cardinality(S \cap T)
  BY FS_Union
<1> QED BY <1>1, <1>2, <1>3

\* Fewer times, fewer events.
LEMMA BetweenSubset ==
  ASSUME KernelTyped, NEW c \in CPUs, NEW t, NEW u, NEW v, NEW w,
         Between(c, t, u) \subseteq Between(c, v, w)
  PROVE  Cardinality(Between(c, t, u)) <= Cardinality(Between(c, v, w))
<1>1. IsFiniteSet(Between(c, v, w))
  BY BetweenFinite
<1> QED BY <1>1, FS_Subset

\* The window an event falls into, without an interruption: it covers the
\* event's time, has counted its own events, and what went before it obeyed
\* the limit.
LEMMA WindowFacts ==
  ASSUME KernelTyped, NEW c \in CPUs, CpuInv(c), nested[c] = 0, running[c] # << >>,
         NEW w, w = Window(c, Top(c).now)
  PROVE  /\ w.start \in Nat /\ w.emitted \in 0 .. FlowLimit
         /\ w.start <= Top(c).now /\ Top(c).now < w.start + Second
         /\ limiter[c].start <= w.start /\ w.start <= clock
         /\ \A i \in DOMAIN delivered[c] : delivered[c][i] < w.start + Second
         /\ Cardinality(Between(c, w.start, w.start + Second)) <= w.emitted
         /\ \A t \in Nat : t + Second > w.start => Cardinality(Between(c, t, w.start)) <= FlowLimit
<1> DEFINE now == Top(c).now
           s == limiter[c].start
           e == limiter[c].emitted
<1>1. now \in Nat /\ s \in Nat /\ e \in 0 .. FlowLimit /\ s <= now /\ now <= clock /\ clock \in Nat
  <2>1. Top(c) \in Frames /\ Len(running[c]) \in DOMAIN running[c] /\ Top(c) = running[c][Len(running[c])]
    BY TopFacts
  <2>2. s <= now /\ now <= clock
    BY <2>1 DEF CpuInv, Uninterrupted, FramesOrdered
  <2> QED BY <2>1, <2>2, CpuTyped DEF Frames
<1>2. /\ \A i \in DOMAIN delivered[c] : delivered[c][i] < s + Second /\ delivered[c][i] \in Nat
      /\ Cardinality(Between(c, s, s + Second)) <= e
      /\ \A t \in Nat : t + Second > s => Cardinality(Between(c, t, s)) <= FlowLimit
  BY CpuTyped DEF CpuInv, Windows
<1>3. Second \in Nat /\ Second > 0 /\ FlowLimit \in Nat
  BY CountsAssumption
<1>4. w = IF now < s \/ now - s >= Second THEN [start |-> now, emitted |-> 0] ELSE limiter[c]
  BY DEF Window
<1> HIDE DEF now, s, e
<1>5. CASE now - s < Second
  <2>1. w = limiter[c]
    BY <1>1, <1>3, <1>4, <1>5
  <2>2. w.start = s /\ w.emitted = e
    BY <2>1 DEF s, e
  <2>3. s <= s /\ now < s + Second /\ s <= clock
    BY <1>1, <1>3, <1>5
  <2>4. limiter[c].start = s /\ Top(c).now = now
    BY DEF s, now
  <2> QED BY <1>1, <1>2, <2>2, <2>3, <2>4
<1>6. CASE now - s >= Second
  <2>1. w = [start |-> now, emitted |-> 0]
    BY <1>1, <1>4, <1>6
  <2>2. w.start = now /\ w.emitted = 0
    BY <2>1
  <2>3. \A i \in DOMAIN delivered[c] : delivered[c][i] < now
    BY <1>1, <1>2, <1>3, <1>6
  <2>4. Between(c, now, now + Second) = {}
    BY <1>1, <1>2, <2>3 DEF Between
  <2>5. Cardinality(Between(c, now, now + Second)) <= 0
    <3>1. Cardinality(Between(c, now, now + Second)) = 0
      BY <2>4, FS_EmptySet
    <3> QED BY <3>1
  <2>6. ASSUME NEW t \in Nat, t + Second > now
        PROVE  Cardinality(Between(c, t, now)) <= FlowLimit
    <3>1. t >= s
      BY <1>1, <1>3, <1>6, <2>6
    <3>2. Between(c, t, now) \subseteq Between(c, s, s + Second)
      BY <1>1, <1>2, <3>1 DEF Between
    <3>3. Cardinality(Between(c, t, now)) <= Cardinality(Between(c, s, s + Second))
      BY <3>2, BetweenSubset
    <3>4. Cardinality(Between(c, t, now)) \in Nat /\ Cardinality(Between(c, s, s + Second)) \in Nat
      BY BetweenFinite
    <3> QED BY <1>1, <1>2, <1>3, <3>3, <3>4
  <2>7. now < now + Second /\ s <= now /\ \A i \in DOMAIN delivered[c] : delivered[c][i] < now + Second
    BY <1>1, <1>2, <1>3, <2>3
  <2>8. limiter[c].start = s /\ Top(c).now = now /\ 0 \in 0 .. FlowLimit
    BY <1>3 DEF s, now
  <2> QED BY <1>1, <2>2, <2>5, <2>6, <2>7, <2>8
<1> QED BY <1>1, <1>3, <1>5, <1>6

\* An event is suppressed or rejected; its drop is to be counted.
Dropped(c, k, w) ==
    /\ TopAt(c, "emit") /\ k \in {"limited", "full"}
    /\ \E f \in Frames : /\ f.step = "count" /\ f.now = Top(c).now /\ f.counter = k
                         /\ Replaced(c, f)
    /\ w = Window(c, Top(c).now)
    /\ limiter'[c].start = w.start /\ limiter'[c].emitted \in {w.emitted, w.emitted + 1}
    /\ counts'[c] = counts[c] /\ delivered'[c] = delivered[c]
    /\ made'[c] = made[c] /\ nested'[c] = nested[c] /\ clock' = clock

\* The window starts at a time that has come.
LEMMA WindowStart ==
  ASSUME KernelTyped, NEW c \in CPUs, CpuInv(c), running[c] # << >>, NEW w, w = Window(c,
         Top(c).now)
  PROVE  w.start \in Nat /\ w.start <= clock /\ w.emitted \in 0 .. FlowLimit
<1>1. Top(c) \in Frames /\ Len(running[c]) \in DOMAIN running[c] /\ Top(c) = running[c][Len(running[c])]
  BY TopFacts
<1>2. Top(c).now \in Nat /\ Top(c).now <= clock
  BY <1>1 DEF CpuInv, FramesOrdered, Frames
<1>3. limiter[c].start \in Nat /\ limiter[c].start <= clock /\ limiter[c].emitted \in 0 .. FlowLimit
  BY CpuTyped DEF CpuInv, FramesOrdered
<1> QED BY <1>2, <1>3, CountsAssumption DEF Window

\* An event is suppressed or rejected: only the window may move.
LEMMA DroppedPreserves ==
  ASSUME KernelTyped, KernelTyped', NEW c \in CPUs, CpuInv(c), NEW k, NEW w, Dropped(c,
         k, w)
  PROVE  CpuInv(c)'
<1> DEFINE n == Len(running[c])
<1>1. running[c] # << >> /\ Top(c).step = "emit" /\ k \in {"limited", "full"} /\ w = Window(c, Top(c).now)
  BY DEF Dropped, TopAt
<1>2. PICK f \in Frames : /\ f.step = "count" /\ f.now = Top(c).now /\ f.counter = k
                          /\ Replaced(c, f)
  BY DEF Dropped
<1>3. /\ n \in Nat /\ n >= 1 /\ Len(running'[c]) = n
      /\ DOMAIN running[c] = 1 .. n /\ DOMAIN running'[c] = 1 .. n
      /\ \A j \in 1 .. n : j # n => running'[c][j] = running[c][j]
      /\ running[c][n] = Top(c) /\ running'[c][n] = f
  BY <1>1, <1>2, ReplacedFacts
<1>4. /\ limiter'[c].start = w.start /\ limiter'[c].emitted \in {w.emitted, w.emitted + 1}
      /\ counts'[c] = counts[c] /\ delivered'[c] = delivered[c]
      /\ made'[c] = made[c] /\ nested'[c] = nested[c] /\ clock' = clock
  BY DEF Dropped
<1>5. n \in DOMAIN running[c] /\ Len(running'[c]) = Len(running[c])
  BY <1>3
<1> HIDE DEF n
<1>6. Pending(c)' = Pending(c) /\ \A j \in Pending(c) : running'[c][j] = running[c][j]
  <2>1. n \notin Pending(c) /\ n \notin Pending(c)'
    BY <1>1, <1>2, <1>3 DEF Pending
  <2> QED BY <1>3, <2>1 DEF Pending
<1>7. Due(c)' = Due(c)
  BY <1>4, <1>6 DEF Due
<1>8. CountBounded(c)'
  BY <1>4, <1>6, <1>7 DEF CpuInv, CountBounded
<1>9. FramesOrdered(c)'
  <2>1. limiter'[c].start <= clock'
    BY <1>1, <1>4, WindowStart
  <2>2. Len(running'[c]) <= MaxNesting
    BY <1>5 DEF CpuInv, FramesOrdered
  <2> QED BY <1>2, <1>3, <1>4, <2>1, <2>2 DEF CpuInv, FramesOrdered
<1>10. Uninterrupted(c)'
  <2> SUFFICES ASSUME nested[c] = 0
               PROVE  Uninterrupted(c)'
    BY <1>4 DEF Uninterrupted
  <2>1. w.start <= Top(c).now
    BY <1>1, WindowFacts
  <2>2. /\ Len(running[c]) <= 1
        /\ made[c] = Len(delivered[c]) + counts[c]["limited"] + counts[c]["full"] + Len(running[c])
    BY DEF CpuInv, Uninterrupted
  <2>3. /\ Len(running'[c]) <= 1
        /\ made'[c] = Len(delivered'[c]) + counts'[c]["limited"] + counts'[c]["full"] + Len(running'[c])
    BY <1>4, <1>5, <2>2
  <2>4. \A j \in DOMAIN running'[c] : running'[c][j] = f
    <3>1. Len(running[c]) = 1
      BY <1>1, <2>2, TopFacts, LenOne
    <3>2. n = 1
      BY <3>1 DEF n
    <3> QED BY <3>2, <1>3
  <2> QED BY <1>2, <1>4, <2>1, <2>3, <2>4 DEF Uninterrupted
<1>11. Windows(c)'
  <2> SUFFICES ASSUME nested[c] = 0
               PROVE  Windows(c)'
    BY <1>4 DEF Windows
  <2>1. \A t, u : Between(c, t, u)' = Between(c, t, u)
    BY <1>4 DEF Between
  <2>2. /\ \A i \in DOMAIN delivered[c] : delivered[c][i] < w.start + Second
        /\ Cardinality(Between(c, w.start, w.start + Second)) <= w.emitted
        /\ \A t \in Nat : t + Second > w.start => Cardinality(Between(c, t, w.start)) <= FlowLimit
        /\ w.start \in Nat /\ w.emitted \in 0 .. FlowLimit
    BY <1>1, WindowFacts
  <2>3. Cardinality(Between(c, w.start, w.start + Second)) <= limiter'[c].emitted
    <3>1. Cardinality(Between(c, w.start, w.start + Second)) \in Nat
      BY BetweenFinite
    <3> QED BY <1>4, <2>2, <3>1, CountsAssumption
  <2>4. \A t \in Nat : Cardinality(Between(c, t, t + Second)) <= 2 * FlowLimit
    BY DEF CpuInv, Windows
  <2> QED BY <1>4, <2>1, <2>2, <2>3, <2>4 DEF Windows
<1> QED BY <1>8, <1>9, <1>10, <1>11 DEF CpuInv

\* An event is submitted and the program is done.
Submitted(c, w) ==
    /\ TopAt(c, "emit") /\ Popped(c)
    /\ w = Window(c, Top(c).now) /\ w.emitted < FlowLimit
    /\ limiter'[c].start = w.start /\ limiter'[c].emitted = w.emitted + 1
    /\ delivered'[c] = Append(delivered[c], Top(c).now)
    /\ counts'[c] = counts[c]
    /\ made'[c] = made[c] /\ nested'[c] = nested[c] /\ clock' = clock

\* An element more in a finite set.
LEMMA OneMoreEvent ==
  ASSUME NEW m, NEW d \in Nat, NEW l \in Nat, NEW f \in Nat, m = d + l + f + 1
  PROVE  m = (d + 1) + l + f + 0
OBVIOUS

\* An event more among those between two times.
LEMMA BetweenAppend ==
  ASSUME KernelTyped, NEW c \in CPUs, NEW now \in Nat,
         delivered'[c] = Append(delivered[c], now)
  PROVE  /\ Len(delivered'[c]) = Len(delivered[c]) + 1
         /\ DOMAIN delivered'[c] = 1 .. Len(delivered[c]) + 1
         /\ \A i \in DOMAIN delivered'[c] :
               \/ i \in DOMAIN delivered[c] /\ delivered'[c][i] = delivered[c][i]
               \/ delivered'[c][i] = now
         /\ \A t, u : Between(c, t, u)' =
               IF t <= now /\ now < u THEN Between(c, t, u) \cup {Len(delivered[c]) + 1}
                                      ELSE Between(c, t, u)
<1> DEFINE L == Len(delivered[c])
<1>1. delivered[c] \in Seq(Nat) /\ L \in Nat /\ DOMAIN delivered[c] = 1 .. L
  BY CpuTyped
<1>2. /\ Len(delivered'[c]) = L + 1 /\ DOMAIN delivered'[c] = 1 .. L + 1
      /\ \A i \in 1 .. L : delivered'[c][i] = delivered[c][i]
      /\ delivered'[c][L + 1] = now
  BY <1>1
<1> HIDE DEF L
<1>3. \A t, u : Between(c, t, u)' =
               IF t <= now /\ now < u THEN Between(c, t, u) \cup {L + 1} ELSE Between(c, t, u)
  BY <1>1, <1>2 DEF Between
<1>4. \A i \in DOMAIN delivered'[c] :
               \/ i \in DOMAIN delivered[c] /\ delivered'[c][i] = delivered[c][i]
               \/ delivered'[c][i] = now
  BY <1>1, <1>2
<1> QED BY <1>2, <1>3, <1>4 DEF L

\* An event is delivered: the window counts it, and a Second that starts in
\* an earlier window ends in this one, so it has at most two windows' events.
LEMMA SubmittedPreserves ==
  ASSUME KernelTyped, KernelTyped', NEW c \in CPUs, CpuInv(c), NEW w, Submitted(c, w)
  PROVE  CpuInv(c)'
<1> DEFINE n == Len(running[c])
<1>1. running[c] # << >> /\ Top(c).step = "emit" /\ w = Window(c, Top(c).now)
  BY DEF Submitted, TopAt
<1>2. /\ n \in Nat /\ n >= 1 /\ Len(running'[c]) = n - 1
      /\ DOMAIN running[c] = 1 .. n /\ DOMAIN running'[c] = 1 .. n - 1
      /\ \A j \in 1 .. n - 1 : j \in 1 .. n /\ running'[c][j] = running[c][j]
      /\ running[c][n] = Top(c)
  BY <1>1, PoppedFacts DEF Submitted
<1>3. /\ limiter'[c].start = w.start /\ limiter'[c].emitted = w.emitted + 1 /\ w.emitted < FlowLimit
      /\ counts'[c] = counts[c]
      /\ made'[c] = made[c] /\ nested'[c] = nested[c] /\ clock' = clock
  BY DEF Submitted
<1>4. Top(c).now \in Nat /\ delivered'[c] = Append(delivered[c], Top(c).now)
  BY <1>1, TopFacts DEF Submitted, Frames
<1>5. n = Len(running[c])
  OBVIOUS
<1> HIDE DEF n
<1>6. Pending(c)' = Pending(c) /\ \A j \in Pending(c) : running'[c][j] = running[c][j]
  BY <1>1, <1>2 DEF Pending
<1>7. Due(c)' = Due(c)
  BY <1>3, <1>6 DEF Due
<1>8. CountBounded(c)'
  BY <1>3, <1>6, <1>7 DEF CpuInv, CountBounded
<1>9. FramesOrdered(c)'
  <2>1. limiter'[c].start <= clock'
    BY <1>1, <1>3, WindowStart
  <2>2. Len(running'[c]) <= MaxNesting
    <3>1. n <= MaxNesting
      BY <1>5 DEF CpuInv, FramesOrdered
    <3> QED BY <1>2, <3>1, CountsAssumption
  <2> QED BY <1>2, <1>3, <2>1, <2>2 DEF CpuInv, FramesOrdered
<1>10. Uninterrupted(c)'
  <2> SUFFICES ASSUME nested[c] = 0
               PROVE  Uninterrupted(c)'
    BY <1>3 DEF Uninterrupted
  <2>1. /\ Len(running[c]) <= 1
        /\ made[c] = Len(delivered[c]) + counts[c]["limited"] + counts[c]["full"] + Len(running[c])
    BY DEF CpuInv, Uninterrupted
  <2>2. Len(running[c]) = 1
    BY <1>1, <2>1, TopFacts, LenOne
  <2>3. counts[c]["limited"] \in Nat /\ counts[c]["full"] \in Nat /\ Len(delivered[c]) \in Nat
    BY CpuTyped DEF Counters
  <2>4. Len(delivered'[c]) = Len(delivered[c]) + 1
    BY <1>4, BetweenAppend
  <2>5. made[c] = (Len(delivered[c]) + 1) + counts[c]["limited"] + counts[c]["full"] + 0
    BY <2>1, <2>2, <2>3, OneMoreEvent
  <2>6. DOMAIN running'[c] = {} /\ Len(running'[c]) = 0
    <3>1. n = 1
      BY <2>2, <1>5
    <3> QED BY <3>1, <1>2
  <2>7. made'[c] = Len(delivered'[c]) + counts'[c]["limited"] + counts'[c]["full"] + Len(running'[c])
    BY <1>3, <2>4, <2>5, <2>6
  <2> QED BY <2>6, <2>7 DEF Uninterrupted
<1>11. Windows(c)'
  <2> SUFFICES ASSUME nested[c] = 0
               PROVE  Windows(c)'
    BY <1>3 DEF Windows
  <2> DEFINE now == Top(c).now
             new == Len(delivered[c]) + 1
  <2>1. \A t, u : Between(c, t, u)' =
               IF t <= now /\ now < u THEN Between(c, t, u) \cup {new} ELSE Between(c, t, u)
    BY <1>4, BetweenAppend
  <2>2. /\ w.start \in Nat /\ w.emitted \in Nat
        /\ w.start <= now /\ now < w.start + Second
        /\ \A i \in DOMAIN delivered[c] : delivered[c][i] < w.start + Second
        /\ Cardinality(Between(c, w.start, w.start + Second)) <= w.emitted
        /\ \A t \in Nat : t + Second > w.start => Cardinality(Between(c, t, w.start)) <= FlowLimit
    BY <1>1, WindowFacts
  <2>3. now \in Nat /\ Second \in Nat /\ FlowLimit \in Nat
    BY <1>4, CountsAssumption
  <2>4. \A i \in DOMAIN delivered'[c] : delivered'[c][i] < w.start + Second
    BY <1>4, <2>2, BetweenAppend
  <2> HIDE DEF now, new
  <2>5. Cardinality(Between(c, w.start, w.start + Second)') <= w.emitted + 1
        /\ IsFiniteSet(Between(c, w.start, w.start + Second)')
        /\ Cardinality(Between(c, w.start, w.start + Second)') \in Nat
    <3> DEFINE B == Between(c, w.start, w.start + Second)
    <3>1. Between(c, w.start, w.start + Second)' = B \cup {new}
      BY <2>1, <2>2
    <3>2. IsFiniteSet(B) /\ Cardinality(B) \in Nat /\ Cardinality(B) <= w.emitted
      BY <2>2, BetweenFinite
    <3> HIDE DEF B
    <3>3. /\ IsFiniteSet(B \cup {new})
          /\ Cardinality(B \cup {new}) = IF new \in B THEN Cardinality(B) ELSE Cardinality(B) + 1
      BY <3>2, FS_AddElement
    <3>4. Cardinality(B \cup {new}) \in Nat /\ Cardinality(B \cup {new}) <= w.emitted + 1
      BY <2>2, <3>2, <3>3
    <3> QED BY <3>1, <3>3, <3>4
  <2>6. ASSUME NEW t \in Nat, t + Second > w.start
        PROVE  /\ Between(c, t, w.start)' = Between(c, t, w.start)
               /\ Cardinality(Between(c, t, w.start)') <= FlowLimit
    <3>1. ~(t <= now /\ now < w.start)
      BY <2>2, <2>3
    <3>2. Between(c, t, w.start)' = Between(c, t, w.start)
      BY <2>1, <3>1
    <3> QED BY <2>2, <2>6, <3>2
  <2>7. ASSUME NEW t \in Nat
        PROVE  Cardinality(Between(c, t, t + Second)') <= 2 * FlowLimit
    <3>1. CASE ~(t <= now /\ now < t + Second)
      <4>1. Between(c, t, t + Second)' = Between(c, t, t + Second)
        BY <2>1, <3>1
      <4> QED BY <4>1 DEF CpuInv, Windows
    <3>2. CASE t <= now /\ now < t + Second
      <4> DEFINE A == Between(c, t, w.start)'
                 B == Between(c, w.start, w.start + Second)'
                 E == Between(c, t, t + Second)'
      <4>1. t + Second > w.start
        BY <2>2, <2>3, <3>2
      <4>2. Cardinality(A) <= FlowLimit /\ IsFiniteSet(A) /\ Cardinality(A) \in Nat
        BY <2>6, <4>1, BetweenFinite
      <4>3. IsFiniteSet(B) /\ Cardinality(B) \in Nat /\ Cardinality(B) <= w.emitted + 1
        BY <2>5
      <4>4. \A i \in DOMAIN delivered'[c] : delivered'[c][i] \in Nat
        BY <2>3, <1>4, BetweenAppend, CpuTyped DEF now
      <4>5. E \subseteq A \cup B
        BY <2>2, <2>4, <4>4 DEF Between
      <4> HIDE DEF A, B, E
      <4>6. IsFiniteSet(A \cup B) /\ Cardinality(A \cup B) <= Cardinality(A) + Cardinality(B)
        BY <4>2, <4>3, UnionBound, FS_Union
      <4>7. Cardinality(E) <= Cardinality(A \cup B) /\ Cardinality(E) \in Nat
        <5>1. IsFiniteSet(E) /\ Cardinality(E) <= Cardinality(A \cup B)
          BY <4>5, <4>6, FS_Subset
        <5> QED BY <5>1, FS_CardinalityType
      <4>8. Cardinality(A \cup B) \in Nat
        BY <4>6, FS_CardinalityType
      <4>9. Cardinality(E) <= 2 * FlowLimit
        BY <1>3, <2>2, <2>3, <4>2, <4>3, <4>6, <4>7, <4>8
      <4> QED BY <4>9 DEF E
    <3> QED BY <3>1, <3>2
  <2> QED BY <1>3, <2>4, <2>5, <2>6, <2>7 DEF Windows
<1> QED BY <1>8, <1>9, <1>10, <1>11 DEF CpuInv

(***************************************************************************)
(* The steps of the kernel.                                                *)
(***************************************************************************)
\* A step on CPU c that keeps its invariant keeps the others', and the metrics
\* stay behind counters that are not set back.
LEMMA KernelStepPreserves ==
  ASSUME CountsInv, NEW c \in CPUs, KernelTyped', CpuInv(c)',
         \A d \in CPUs \ {c} : SameCPU(d),
         UNCHANGED <<clock, epoch, agent, holder, refresh, last, published, gauge>>,
         nested[c] <= nested'[c],
         nested[c] = 0 => \A k \in Counters : counts[c][k] <= counts'[c][k]
  PROVE  CountsInv'
<1>1. \A d \in CPUs : CpuInv(d)'
  <2> TAKE d \in CPUs
  <2>1. CASE d = c
    BY <2>1
  <2>2. CASE d # c
    BY <2>2, SameCPUPreserves DEF CountsInv
  <2> QED BY <2>1, <2>2
<1>2. CountsTypeOK'
  <2>1. \A d \in CPUs : /\ Len(running'[d]) <= MaxNesting /\ limiter'[d].start <= clock'
                        /\ counts'[d] \in [Counters -> Nat] /\ limiter'[d].emitted \in 0 .. FlowLimit
    BY <1>1 DEF CpuInv, FramesOrdered, KernelTyped
  <2> QED BY <2>1 DEF CountsInv, CountsTypeOK
<1>3. MetricsTyped' /\ Serialised' /\ EpochsOrdered'
  BY DEF CountsInv, MetricsTyped, Serialised, EpochsOrdered
<1>4. PublicationOrdered'
  <2> SUFFICES ASSUME \A d \in CPUs : nested'[d] = 0, NEW k \in Counters
               PROVE  /\ published[k] <= Sum(k)'
                      /\ agent.provider => published[k] = last[k]
                      /\ \A g \in Goroutines : WasRead(g, k) =>
                            last[k] <= refresh[g].snap.counts[k] /\ refresh[g].snap.counts[k] <= Sum(k)'
    BY DEF PublicationOrdered, WasRead
  <2>1. \A d \in CPUs : nested[d] = 0
    BY CpuTyped DEF SameCPU, CountsInv
  <2>2. /\ published[k] <= Sum(k)
        /\ agent.provider => published[k] = last[k]
        /\ \A g \in Goroutines : WasRead(g, k) =>
              last[k] <= refresh[g].snap.counts[k] /\ refresh[g].snap.counts[k] <= Sum(k)
    BY <2>1 DEF CountsInv, PublicationOrdered
  <2>3. \A d \in CPUs : counts[d][k] <= counts'[d][k]
    BY <2>1, CpuTyped DEF SameCPU, CountsInv
  <2>4. Sum(k) \in Nat /\ Sum(k)' \in Nat /\ Sum(k) <= Sum(k)'
    BY <2>3, SumMonotone DEF CountsInv
  <2>5. published[k] \in Nat /\ \A g \in Goroutines : refresh[g].snap.counts[k] \in Nat
    BY DEF CountsInv, CountsTypeOK, MetricsTyped, Snapshots
  <2> QED BY <2>2, <2>4, <2>5
<1> QED BY <1>1, <1>2, <1>3, <1>4 DEF CountsInv

\* Each action keeps the invariant: the packet programs ...
LEMMA DecidePreserves ==
  ASSUME CountsInv, NEW c \in CPUs, Decide(c)
  PROVE  CountsInv'
<1> DEFINE f == [step |-> "count", now |-> clock, counter |-> "decisions", loaded |-> 0]
<1>1. KernelTyped /\ CpuInv(c) /\ f \in Frames
  BY DEF CountsInv, KernelTyped, Frames, Counters
<1>2. /\ running' \in [CPUs -> Seq(Frames)] /\ OtherStacks(c) /\ Pushed(c, f)
  BY <1>1, PushEffect DEF Decide
<1>3. /\ Len(running[c]) < MaxNesting
      /\ made' = [made EXCEPT ![c] = @ + 1]
      /\ nested' = IF running[c] = << >> THEN nested ELSE [nested EXCEPT ![c] = @ + 1]
      /\ UNCHANGED <<counts, limiter, delivered, clock, epoch, agent, holder, refresh,
                     last, published, gauge>>
  BY DEF Decide, metrics
<1>4. running[c] = << >> <=> Len(running[c]) = 0
  <2>1. running[c] \in Seq(Frames)
    BY <1>1 DEF KernelTyped
  <2> QED BY <2>1
<1>5. KernelTyped'
  BY <1>1, <1>2, <1>3 DEF KernelTyped
<1>6. \A d \in CPUs \ {c} : SameCPU(d)
  BY <1>1, <1>2, <1>3 DEF SameCPU, OtherStacks, KernelTyped
<1>7. Decided(c)
  <2>1. made'[c] = made[c] + 1 /\ nested'[c] = IF Len(running[c]) = 0 THEN nested[c] ELSE nested[c] + 1
    BY <1>1, <1>3, <1>4 DEF KernelTyped
  <2>2. f.step = "count" /\ f.counter = "decisions" /\ f.now = clock
    OBVIOUS
  <2> HIDE DEF f
  <2> QED BY <1>1, <1>2, <1>3, <2>1, <2>2 DEF Decided
<1>8. CpuInv(c)'
  BY <1>1, <1>5, <1>7, DecidedPreserves
<1>9. nested[c] <= nested'[c] /\ \A k \in Counters : counts[c][k] <= counts'[c][k]
  BY <1>1, <1>3, CpuTyped DEF KernelTyped
<1> QED BY <1>3, <1>5, <1>6, <1>8, <1>9, KernelStepPreserves

\* ... load a counter ...
LEMMA LoadPreserves ==
  ASSUME CountsInv, NEW c \in CPUs, Load(c)
  PROVE  CountsInv'
<1> DEFINE f == [Top(c) EXCEPT !.step = "store", !.loaded = counts[c][Top(c).counter]]
<1>1. KernelTyped /\ CpuInv(c) /\ running[c] # << >> /\ TopAt(c, "count") /\ StepTo(c, f)
  BY DEF CountsInv, Load, TopAt
<1>2. Top(c) \in Frames
  BY <1>1, TopFacts
<1>3. /\ f \in Frames /\ f.step = "store" /\ f.now = Top(c).now /\ f.counter = Top(c).counter
      /\ f.loaded = counts[c][Top(c).counter]
  <2>1. Top(c).counter \in Counters /\ counts[c] \in [Counters -> Nat]
    BY <1>1, <1>2 DEF KernelTyped, Frames
  <2>2. counts[c][Top(c).counter] \in Nat
    BY <2>1
  <2> QED BY <1>2, <2>2 DEF Frames
<1> HIDE DEF f
<1>4. /\ running' \in [CPUs -> Seq(Frames)] /\ OtherStacks(c) /\ Replaced(c, f)
  BY <1>1, <1>3, ReplaceEffect
<1>5. UNCHANGED <<counts, limiter, made, nested, delivered, clock, epoch, agent, holder,
                  refresh, last, published, gauge>>
  BY DEF Load, metrics
<1>6. KernelTyped'
  BY <1>1, <1>4, <1>5 DEF KernelTyped
<1>7. \A d \in CPUs \ {c} : SameCPU(d)
  BY <1>1, <1>4, <1>5 DEF SameCPU, OtherStacks, KernelTyped
<1>8. CpuInv(c)'
  <2>1. Loaded(c)
    BY <1>1, <1>3, <1>4, <1>5 DEF Loaded
  <2> QED BY <1>1, <1>6, <2>1, LoadedPreserves
<1>9. nested[c] <= nested'[c] /\ \A k \in Counters : counts[c][k] <= counts'[c][k]
  BY <1>1, <1>5, CpuTyped
<1> QED BY <1>5, <1>6, <1>7, <1>8, <1>9, KernelStepPreserves

\* ... store it ...
LEMMA StorePreserves ==
  ASSUME CountsInv, NEW c \in CPUs, Store(c)
  PROVE  CountsInv'
<1>1. KernelTyped /\ CpuInv(c) /\ running[c] # << >> /\ TopAt(c, "store") /\ Top(c).step = "store"
  BY DEF CountsInv, Store, TopAt
<1>2. Top(c) \in Frames /\ Len(running[c]) \in DOMAIN running[c] /\ Top(c) = running[c][Len(running[c])]
  BY <1>1, TopFacts
<1>3. /\ counts' = [counts EXCEPT ![c][Top(c).counter] = Top(c).loaded + 1]
      /\ UNCHANGED <<limiter, made, nested, delivered, clock, epoch, agent, holder,
                     refresh, last, published, gauge>>
  BY DEF Store, metrics
<1> DEFINE k == Top(c).counter
<1>4. k \in Counters /\ Top(c).loaded \in Nat
  BY <1>2 DEF Frames
<1>5. /\ counts' \in [CPUs -> [Counters -> Nat]]
      /\ counts'[c][k] = Top(c).loaded + 1
      /\ \A l \in Counters : l # k => counts'[c][l] = counts[c][l]
      /\ \A d \in CPUs \ {c} : counts'[d] = counts[d]
  BY <1>1, <1>3, <1>4 DEF KernelTyped
<1>6. nested[c] <= nested'[c] /\ (nested[c] = 0 => \A l \in Counters : counts[c][l] <= counts'[c][l])
  <2>1. nested[c] = 0 => Top(c).loaded = counts[c][k]
    BY <1>1, <1>2 DEF CpuInv, Uninterrupted
  <2> QED BY <1>1, <1>3, <1>5, <2>1, CpuTyped
<1> HIDE DEF k
<1>7. ASSUME running' \in [CPUs -> Seq(Frames)], OtherStacks(c), KernelTyped' => CpuInv(c)'
      PROVE  CountsInv'
  <2>1. KernelTyped'
    BY <1>1, <1>3, <1>5, <1>7 DEF KernelTyped
  <2>2. \A d \in CPUs \ {c} : SameCPU(d)
    BY <1>1, <1>3, <1>5, <1>7 DEF SameCPU, OtherStacks, KernelTyped
  <2> QED BY <1>3, <1>6, <1>7, <2>1, <2>2, KernelStepPreserves
<1>8. CASE k = "decisions"
  <2> DEFINE f == [Top(c) EXCEPT !.step = "emit"]
  <2>1. StepTo(c, f)
    BY <1>8 DEF Store, k
  <2>2. f \in Frames /\ f.step = "emit" /\ f.now = Top(c).now /\ f.counter = "decisions"
    BY <1>2, <1>8 DEF Frames, k
  <2> HIDE DEF f
  <2>3. running' \in [CPUs -> Seq(Frames)] /\ OtherStacks(c) /\ Replaced(c, f)
    BY <1>1, <2>1, <2>2, ReplaceEffect
  <2>4. DecisionStored(c)
    <3>1. /\ counts'[c]["decisions"] = Top(c).loaded + 1
          /\ counts'[c]["limited"] = counts[c]["limited"] /\ counts'[c]["full"] = counts[c]["full"]
      BY <1>5, <1>8 DEF Counters
    <3> QED BY <1>1, <1>3, <1>8, <2>2, <2>3, <3>1 DEF DecisionStored, k
  <2> QED BY <1>1, <1>7, <2>3, <2>4, DecisionStoredPreserves
<1>9. CASE k # "decisions"
  <2>1. Pop(c)
    BY <1>9 DEF Store, k
  <2>2. running' \in [CPUs -> Seq(Frames)] /\ OtherStacks(c) /\ Popped(c)
    BY <1>1, <2>1, PopEffect
  <2>3. DropStored(c, k)
    <3>1. Top(c).counter = k /\ k \in {"limited", "full"}
      BY <1>4, <1>9 DEF Counters, k
    <3> QED BY <1>1, <1>3, <1>5, <2>2, <3>1 DEF DropStored
  <2> QED BY <1>1, <1>7, <2>2, <2>3, DropStoredPreserves
<1> QED BY <1>8, <1>9

\* The limiter after an event, suppressed or not.
LEMMA LimiterTyped ==
  ASSUME KernelTyped, NEW c \in CPUs, CpuInv(c), running[c] # << >>, NEW w,
         w = Window(c, Top(c).now), NEW x,
         \/ x = w
         \/ w.emitted < FlowLimit /\ x = [w EXCEPT !.emitted = @ + 1],
         limiter' = [limiter EXCEPT ![c] = x]
  PROVE  /\ limiter' \in [CPUs -> [start : Nat, emitted : 0 .. FlowLimit]]
         /\ limiter'[c] = x /\ \A d \in CPUs \ {c} : limiter'[d] = limiter[d]
         /\ x.start = w.start /\ x.emitted \in {w.emitted, w.emitted + 1}
         /\ x # w => x.emitted = w.emitted + 1
<1>1. w.start \in Nat /\ w.emitted \in 0 .. FlowLimit
  BY WindowStart
<1>2. w \in [start : Nat, emitted : 0 .. FlowLimit]
  <2>1. Top(c).now \in Nat
    BY TopFacts DEF Frames
  <2>2. limiter[c] \in [start : Nat, emitted : 0 .. FlowLimit]
    BY DEF KernelTyped
  <2> QED BY <2>1, <2>2, CountsAssumption DEF Window
<1>3. x \in [start : Nat, emitted : 0 .. FlowLimit] /\ x.start = w.start
      /\ (x = w \/ x.emitted = w.emitted + 1)
  BY <1>1, <1>2, CountsAssumption
<1> QED BY <1>3 DEF KernelTyped

\* ... suppress or reject an event ...
LEMMA DropPreserves ==
  ASSUME CountsInv, NEW c \in CPUs, NEW k \in {"limited", "full"}, TopAt(c, "emit"),
         NEW w,
         w = Window(c, Top(c).now), NEW x,
         \/ x = w
         \/ w.emitted < FlowLimit /\ x = [w EXCEPT !.emitted = @ + 1],
         limiter' = [limiter EXCEPT ![c] = x], Drop(c, k),
         UNCHANGED <<counts, made, nested, delivered, clock, epoch, metrics>>
  PROVE  CountsInv'
<1> DEFINE f == [Top(c) EXCEPT !.step = "count", !.counter = k]
<1>1. KernelTyped /\ CpuInv(c) /\ running[c] # << >> /\ StepTo(c, f)
  BY DEF CountsInv, TopAt, Drop
<1>2. Top(c) \in Frames
  BY <1>1, TopFacts
<1>3. f \in Frames /\ f.step = "count" /\ f.now = Top(c).now /\ f.counter = k
  BY <1>2 DEF Frames, Counters
<1> HIDE DEF f
<1>4. /\ running' \in [CPUs -> Seq(Frames)] /\ OtherStacks(c) /\ Replaced(c, f)
  BY <1>1, <1>3, ReplaceEffect
<1>5. /\ limiter' \in [CPUs -> [start : Nat, emitted : 0 .. FlowLimit]]
      /\ limiter'[c] = x /\ \A d \in CPUs \ {c} : limiter'[d] = limiter[d]
      /\ x.start = w.start /\ x.emitted \in {w.emitted, w.emitted + 1}
  BY <1>1, LimiterTyped, ZenonT(60)
<1>6. UNCHANGED <<counts, made, nested, delivered, clock, epoch, agent, holder, refresh,
                  last, published, gauge>>
  BY DEF metrics
<1>7. KernelTyped'
  BY <1>1, <1>4, <1>5, <1>6 DEF KernelTyped
<1>8. \A d \in CPUs \ {c} : SameCPU(d)
  BY <1>1, <1>4, <1>5, <1>6 DEF SameCPU, OtherStacks, KernelTyped
<1>9. CpuInv(c)'
  <2>1. Dropped(c, k, w)
    BY <1>3, <1>4, <1>5, <1>6 DEF Dropped
  <2> QED BY <1>1, <1>7, <2>1, DroppedPreserves
<1>10. nested[c] <= nested'[c] /\ \A l \in Counters : counts[c][l] <= counts'[c][l]
  BY <1>1, <1>6, CpuTyped
<1> QED BY <1>6, <1>7, <1>8, <1>9, <1>10, KernelStepPreserves

\* ... or submit it;
LEMMA SubmitPreserves ==
  ASSUME CountsInv, NEW c \in CPUs, Submit(c)
  PROVE  CountsInv'
<1> DEFINE w == Window(c, Top(c).now)
           x == OneMore(w)
<1>1. /\ KernelTyped /\ CpuInv(c) /\ running[c] # << >> /\ TopAt(c, "emit") /\ Pop(c)
      /\ w.emitted < FlowLimit /\ limiter' = [limiter EXCEPT ![c] = x]
      /\ delivered' = [delivered EXCEPT ![c] = Append(@, Top(c).now)]
  BY DEF CountsInv, TopAt, Submit
<1>2. Top(c).now \in Nat
  BY <1>1, TopFacts DEF Frames
<1>3. w.emitted \in Nat
  BY <1>1, WindowStart
<1>4. /\ limiter' \in [CPUs -> [start : Nat, emitted : 0 .. FlowLimit]]
      /\ limiter'[c] = x /\ \A d \in CPUs \ {c} : limiter'[d] = limiter[d]
      /\ x.start = w.start /\ x.emitted = w.emitted + 1
  <2>0. w = Window(c, Top(c).now) /\ x = OneMore(w)
    OBVIOUS
  <2> HIDE DEF w, x
  <2>1. limiter \in [CPUs -> [start : Nat, emitted : 0 .. FlowLimit]]
    BY <1>1 DEF KernelTyped
  <2>2. w \in [start : Nat, emitted : 0 .. FlowLimit]
    <3>1. limiter[c] \in [start : Nat, emitted : 0 .. FlowLimit]
      BY <2>1
    <3> QED BY <1>2, <3>1, CountsAssumption DEF Window, w
  <2>3. /\ x \in [start : Nat, emitted : 0 .. FlowLimit]
        /\ x.start = w.start /\ x.emitted = w.emitted + 1
    BY <1>1, <2>0, <2>2, CountsAssumption DEF OneMore
  <2> QED BY <1>1, <2>1, <2>3
<1> HIDE DEF w, x
<1>5. running' \in [CPUs -> Seq(Frames)] /\ OtherStacks(c) /\ Popped(c)
  BY <1>1, PopEffect
<1>6. UNCHANGED <<counts, made, nested, clock, epoch, agent, holder, refresh, last,
                  published, gauge>>
  BY DEF Submit, metrics
<1>7. /\ delivered' \in [CPUs -> Seq(Nat)] /\ delivered'[c] = Append(delivered[c], Top(c).now)
      /\ \A d \in CPUs \ {c} : delivered'[d] = delivered[d]
  <2>1. Append(delivered[c], Top(c).now) \in Seq(Nat)
    BY <1>1, <1>2 DEF KernelTyped
  <2> QED BY <1>1, <2>1 DEF KernelTyped
<1>8. KernelTyped'
  BY <1>1, <1>4, <1>5, <1>6, <1>7 DEF KernelTyped
<1>9. \A d \in CPUs \ {c} : SameCPU(d)
  BY <1>1, <1>4, <1>5, <1>6, <1>7 DEF SameCPU, OtherStacks, KernelTyped
<1>10. CpuInv(c)'
  <2>1. Submitted(c, w)
    BY <1>1, <1>4, <1>5, <1>6, <1>7 DEF Submitted, w
  <2> QED BY <1>1, <1>8, <2>1, SubmittedPreserves
<1>11. nested[c] <= nested'[c] /\ \A l \in Counters : counts[c][l] <= counts'[c][l]
  BY <1>1, <1>6, CpuTyped
<1> QED BY <1>6, <1>8, <1>9, <1>10, <1>11, KernelStepPreserves

(***************************************************************************)
(* The steps of the agent, of the clock and of the policy commits.         *)
(***************************************************************************)
\* A step that leaves the packet programs alone keeps their invariants.
LEMMA KernelAlone ==
  ASSUME CountsInv, UNCHANGED <<running, counts, limiter, made, nested, delivered>>,
         clock' \in Nat, clock <= clock', epoch' \in Nat
  PROVE  /\ KernelTyped' /\ \A c \in CPUs : CpuInv(c)'
         /\ \A c \in CPUs : /\ Len(running'[c]) <= MaxNesting /\ counts'[c] \in [Counters -> Nat]
                            /\ limiter'[c].start <= clock' /\ limiter'[c].emitted \in 0 .. FlowLimit
         /\ \A k \in Counters : Sum(k)' = Sum(k) /\ Sum(k) \in Nat
<1>1. KernelTyped'
  BY DEF CountsInv, KernelTyped
<1>2. \A c \in CPUs : CpuInv(c)'
  BY SameCPUPreserves DEF CountsInv, SameCPU
<1>3. \A k \in Counters : Sum(k)' = Sum(k) /\ Sum(k) \in Nat
  <2> TAKE k \in Counters
  <2>1. Sum(k)' = Sum(k)
    BY DEF Sum
  <2>2. Sum(k) = Cardinality(Increments(counts, k)) /\ Cardinality(Increments(counts, k)) \in Nat
    BY SumFinite DEF Sum, Increments, CountsInv, KernelTyped
  <2> QED BY <2>1, <2>2
<1> QED BY <1>1, <1>2, <1>3 DEF CpuInv, FramesOrdered, KernelTyped

\* time passes;
LEMMA TickPreserves ==
  ASSUME CountsInv, Tick
  PROVE  CountsInv'
<1>1. /\ UNCHANGED <<running, counts, limiter, made, nested, delivered, epoch, agent,
                     holder, refresh, last, published, gauge>>
      /\ clock' \in Nat /\ clock <= clock' /\ epoch' \in Nat
  BY DEF Tick, kernel, metrics, CountsInv, KernelTyped
<1>2. CountsTypeOK'
  BY <1>1, KernelAlone DEF CountsInv, CountsTypeOK
<1>3. MetricsTyped' /\ Serialised' /\ EpochsOrdered'
  BY <1>1 DEF CountsInv, MetricsTyped, Serialised, EpochsOrdered
<1>4. PublicationOrdered'
  BY <1>1, KernelAlone DEF CountsInv, PublicationOrdered, WasRead
<1> QED BY <1>1, <1>2, <1>3, <1>4, KernelAlone DEF CountsInv

\* the engine commits a policy;
LEMMA CommitPreserves ==
  ASSUME CountsInv, Commit
  PROVE  CountsInv'
<1>1. /\ UNCHANGED <<running, counts, limiter, made, nested, delivered, clock, agent,
                     holder, refresh, last, published, gauge>>
      /\ clock' \in Nat /\ clock <= clock' /\ epoch' \in Nat /\ epoch' = epoch + 1 /\ epoch \in Nat
  BY DEF Commit, kernel, metrics, CountsInv, KernelTyped
<1>2. EpochsOrdered'
  <2>1. gauge \in Nat /\ \A g \in Goroutines : refresh[g].snap.epoch \in Nat
    BY DEF CountsInv, MetricsTyped, Snapshots
  <2> QED BY <1>1, <2>1 DEF CountsInv, EpochsOrdered
<1>3. CountsTypeOK'
  BY <1>1, <1>2, KernelAlone DEF CountsInv, CountsTypeOK, EpochsOrdered
<1>4. MetricsTyped' /\ Serialised'
  BY <1>1 DEF CountsInv, MetricsTyped, Serialised
<1>5. PublicationOrdered'
  BY <1>1, KernelAlone DEF CountsInv, PublicationOrdered, WasRead
<1> QED BY <1>1, <1>2, <1>3, <1>4, <1>5, KernelAlone DEF CountsInv

\* What the agent's steps have in common.
AgentStep == UNCHANGED <<running, counts, limiter, made, nested, delivered, clock, epoch>>

\* An action of the agent leaves the packet programs alone.
LEMMA AgentStepFacts ==
  ASSUME CountsInv, AgentStep
  PROVE  /\ KernelTyped' /\ \A c \in CPUs : CpuInv(c)'
         /\ \A c \in CPUs : /\ Len(running'[c]) <= MaxNesting /\ counts'[c] \in [Counters -> Nat]
                            /\ limiter'[c].start <= clock' /\ limiter'[c].emitted \in 0 .. FlowLimit
         /\ \A k \in Counters : Sum(k)' = Sum(k) /\ Sum(k) \in Nat
         /\ nested' = nested /\ epoch' = epoch /\ epoch \in Nat
<1>1. clock \in Nat /\ epoch \in Nat
  BY DEF CountsInv, KernelTyped
<1> QED BY <1>1, KernelAlone DEF AgentStep

\* the agent starts, with counters of its own ...
LEMMA StartAgentPreserves ==
  ASSUME CountsInv, StartAgent
  PROVE  CountsInv'
<1>1. /\ AgentStep /\ ~agent.up /\ agent.runs < MaxAgentRuns
      /\ agent' = [up |-> TRUE, provider |-> TRUE, runs |-> agent.runs + 1]
      /\ last' = Zero /\ published' = Zero /\ gauge' = 0 /\ UNCHANGED <<holder, refresh>>
  BY DEF StartAgent, AgentStep, kernel
<1>2. \A g \in Goroutines : refresh[g].pc = "idle"
  BY <1>1 DEF CountsInv, Serialised
<1>3. CountsTypeOK'
  <2>1. agent' \in [up : BOOLEAN, provider : BOOLEAN, runs : 0 .. MaxAgentRuns]
    BY <1>1, CountsAssumption DEF CountsInv, CountsTypeOK
  <2>2. Zero \in [Counters -> Nat]
    BY DEF Zero
  <2>3. gauge' <= epoch'
    BY <1>1, AgentStepFacts
  <2> QED BY <1>1, <2>1, <2>2, <2>3, AgentStepFacts DEF CountsInv, CountsTypeOK
<1>4. MetricsTyped' /\ Serialised' /\ EpochsOrdered'
  BY <1>1, <1>2, AgentStepFacts DEF CountsInv, MetricsTyped, Serialised, EpochsOrdered
<1>5. PublicationOrdered'
  BY <1>1, <1>2, AgentStepFacts DEF PublicationOrdered, WasRead, Zero
<1> QED BY <1>1, <1>3, <1>4, <1>5, AgentStepFacts DEF CountsInv

\* ... gives up its engine ...
LEMMA ClearProviderPreserves ==
  ASSUME CountsInv, ClearProvider
  PROVE  CountsInv'
<1>1. /\ AgentStep /\ holder = "free" /\ agent' = [agent EXCEPT !.provider = FALSE]
      /\ last' = Zero /\ UNCHANGED <<holder, refresh, published, gauge>>
  BY DEF ClearProvider, AgentStep, kernel
<1>2. \A g \in Goroutines : refresh[g].pc = "idle"
  BY <1>1 DEF CountsInv, Serialised, Goroutines
<1>3. agent' \in [up : BOOLEAN, provider : BOOLEAN, runs : 0 .. MaxAgentRuns] /\ agent'.provider = FALSE
  BY <1>1 DEF CountsInv, CountsTypeOK
<1>4. CountsTypeOK'
  <2>2. Zero \in [Counters -> Nat]
    BY DEF Zero
  <2> QED BY <1>1, <1>3, <2>2, AgentStepFacts DEF CountsInv, CountsTypeOK
<1>5. MetricsTyped' /\ Serialised' /\ EpochsOrdered'
  BY <1>1, <1>2, <1>3, AgentStepFacts
     DEF CountsInv, MetricsTyped, Serialised, EpochsOrdered
<1>6. PublicationOrdered'
  BY <1>1, <1>2, <1>3, AgentStepFacts DEF CountsInv, PublicationOrdered, WasRead
<1> QED BY <1>1, <1>4, <1>5, <1>6, AgentStepFacts DEF CountsInv

\* ... or ends with whatever it was doing;
LEMMA ExitPreserves ==
  ASSUME CountsInv, Exit
  PROVE  CountsInv'
<1>1. /\ AgentStep /\ agent' = [agent EXCEPT !.up = FALSE, !.provider = FALSE] /\ holder' = "free"
      /\ refresh' = [g \in Goroutines |-> [pc |-> "idle", snap |-> NoSnapshot]]
      /\ UNCHANGED <<last, published, gauge>>
  BY DEF Exit, AgentStep, kernel
<1>2. /\ refresh' \in [Goroutines -> [pc : RefreshPCs, snap : Snapshots]]
      /\ \A g \in Goroutines : refresh'[g].pc = "idle"
  <2>1. NoSnapshot \in Snapshots
    BY DEF NoSnapshot, Snapshots, Zero
  <2> QED BY <1>1, <2>1 DEF RefreshPCs
<1>3. agent' \in [up : BOOLEAN, provider : BOOLEAN, runs : 0 .. MaxAgentRuns] /\ agent'.provider = FALSE
  BY <1>1 DEF CountsInv, CountsTypeOK
<1>4. CountsTypeOK'
  BY <1>1, <1>2, <1>3, AgentStepFacts DEF CountsInv, CountsTypeOK
<1>5. MetricsTyped' /\ Serialised' /\ EpochsOrdered'
  BY <1>1, <1>2, <1>3, AgentStepFacts
     DEF CountsInv, MetricsTyped, Serialised, EpochsOrdered
<1>6. PublicationOrdered'
  BY <1>1, <1>2, <1>3, AgentStepFacts DEF CountsInv, PublicationOrdered, WasRead
<1> QED BY <1>1, <1>4, <1>5, <1>6, AgentStepFacts DEF CountsInv

\* Goroutine g is at another step of its refresh with snapshot s, and nobody
\* else refreshes.
Refreshed(g, pc, s) ==
    /\ refresh' \in [Goroutines -> [pc : RefreshPCs, snap : Snapshots]]
    /\ refresh'[g].pc = pc /\ refresh'[g].snap = s
    /\ \A h \in Goroutines \ {g} : refresh'[h] = refresh[h]

\* The refresh of one goroutine moves on.
LEMMA RefreshedFacts ==
  ASSUME CountsInv, NEW g \in Goroutines, NEW pc \in RefreshPCs, NEW s \in Snapshots,
         refresh' = [refresh EXCEPT ![g] = [pc |-> pc, snap |-> s]]
  PROVE  Refreshed(g, pc, s)
BY DEF CountsInv, MetricsTyped, Refreshed

\* The step of the goroutine that holds the lock, up to publication.
LEMMA ReadingPreserves ==
  ASSUME CountsInv, AgentStep, NEW g \in Goroutines, NEW pc \in RefreshPCs,
         NEW s \in Snapshots,
         Refreshed(g, pc, s), agent.provider,
         holder' = IF pc = "idle" THEN "free" ELSE g,
         \A h \in Goroutines \ {g} : refresh[h].pc = "idle",
         UNCHANGED <<agent, last, published, gauge>>,
         pc \in {"decisions", "drops", "publish"} => gauge <= s.epoch /\ s.epoch <= epoch,
         (\A c \in CPUs : nested[c] = 0) => \A k \in Counters :
            (pc = "publish" \/ (pc = "drops" /\ k = "decisions"))
                => last[k] <= s.counts[k] /\ s.counts[k] <= Sum(k)
  PROVE  CountsInv'
<1>1. CountsTypeOK' /\ MetricsTyped'
  BY AgentStepFacts
     DEF Refreshed, CountsInv, CountsTypeOK, MetricsTyped, Goroutines, RefreshPCs
<1>2. Serialised'
  BY DEF Refreshed, CountsInv, Serialised
<1>3. EpochsOrdered'
  BY AgentStepFacts DEF Refreshed, CountsInv, EpochsOrdered
<1>4. PublicationOrdered'
  BY AgentStepFacts DEF Refreshed, CountsInv, PublicationOrdered, WasRead
<1> QED BY <1>1, <1>2, <1>3, <1>4, AgentStepFacts DEF CountsInv

\* While a goroutine refreshes it holds the lock and the other one is idle.
LEMMA OneRefresher ==
  ASSUME CountsInv, NEW g \in Goroutines, refresh[g].pc # "idle"
  PROVE  /\ holder = g /\ agent.provider
         /\ \A h \in Goroutines \ {g} : refresh[h].pc = "idle"
         /\ refresh[g] \in [pc : RefreshPCs, snap : Snapshots]
         /\ refresh[g] = [pc |-> refresh[g].pc, snap |-> refresh[g].snap]
         /\ refresh[g].snap \in Snapshots
<1>1. refresh[g] \in [pc : RefreshPCs, snap : Snapshots]
  BY DEF CountsInv, MetricsTyped
<1> QED BY <1>1 DEF CountsInv, Serialised

\* a goroutine takes the lock ...
LEMMA RefreshPreserves ==
  ASSUME CountsInv, NEW g \in Goroutines, Refresh(g)
  PROVE  CountsInv'
<1>1. /\ AgentStep /\ agent.provider /\ holder = "free" /\ holder' = g
      /\ refresh' = [refresh EXCEPT ![g].pc = "epoch"]
      /\ UNCHANGED <<agent, last, published, gauge>>
  BY DEF Refresh, AgentStep, kernel
<1>2. \A h \in Goroutines \ {g} : refresh[h].pc = "idle"
  BY <1>1 DEF CountsInv, Serialised, Goroutines
<1>3. Refreshed(g, "epoch", refresh[g].snap) /\ refresh[g].snap \in Snapshots
  BY <1>1 DEF CountsInv, MetricsTyped, Refreshed, RefreshPCs
<1>4. "epoch" \in RefreshPCs
  BY DEF RefreshPCs
<1> QED BY <1>1, <1>2, <1>3, <1>4, ReadingPreserves

\* ... reads the epoch ...
LEMMA ReadEpochPreserves ==
  ASSUME CountsInv, NEW g \in Goroutines, ReadEpoch(g)
  PROVE  CountsInv'
<1> DEFINE s == [refresh[g].snap EXCEPT !.epoch = epoch]
<1>1. /\ AgentStep /\ refresh[g].pc = "epoch" /\ UNCHANGED <<agent, holder, last, published, gauge>>
      /\ refresh' = [refresh EXCEPT ![g] = [@ EXCEPT !.pc = "decisions", !.snap.epoch = epoch]]
  BY DEF ReadEpoch, AgentStep, kernel
<1>2. /\ holder = g /\ agent.provider /\ \A h \in Goroutines \ {g} : refresh[h].pc = "idle"
      /\ refresh[g] \in [pc : RefreshPCs, snap : Snapshots] /\ refresh[g].snap \in Snapshots
  BY <1>1, OneRefresher
<1>3. s \in Snapshots /\ s.epoch = epoch
  BY <1>2, AgentStepFacts, <1>1 DEF Snapshots
<1>4. Refreshed(g, "decisions", s)
  <2>1. refresh'[g] = [pc |-> "decisions", snap |-> s]
    BY <1>1, <1>2 DEF CountsInv, MetricsTyped
  <2> HIDE DEF s
  <2>2. [pc |-> "decisions", snap |-> s] \in [pc : RefreshPCs, snap : Snapshots]
    BY <1>3 DEF RefreshPCs
  <2> QED BY <1>1, <2>1, <2>2 DEF CountsInv, MetricsTyped, Refreshed
<1>5. gauge <= epoch /\ epoch <= epoch /\ "decisions" \in RefreshPCs
  BY <1>1, AgentStepFacts DEF CountsInv, EpochsOrdered, RefreshPCs
<1> HIDE DEF s
<1> QED BY <1>1, <1>2, <1>3, <1>4, <1>5, ReadingPreserves

\* Counter k was read: it is not below what was published of it.
LEMMA ReadAhead ==
  ASSUME CountsInv, agent.provider, \A c \in CPUs : nested[c] = 0, NEW k \in Counters
  PROVE  last[k] <= Sum(k)
BY DEF CountsInv, PublicationOrdered

\* ... the decisions ...
LEMMA ReadDecisionsPreserves ==
  ASSUME CountsInv, NEW g \in Goroutines, ReadDecisions(g)
  PROVE  CountsInv'
<1> DEFINE s == [refresh[g].snap EXCEPT !.counts["decisions"] = Sum("decisions")]
<1>1. /\ AgentStep /\ refresh[g].pc = "decisions" /\ UNCHANGED <<agent, holder, last, published, gauge>>
      /\ refresh' = [refresh EXCEPT ![g] = [@ EXCEPT !.pc = "drops", !.snap.counts["decisions"] = Sum("decisions")]]
  BY DEF ReadDecisions, AgentStep, kernel
<1>2. /\ holder = g /\ agent.provider /\ \A h \in Goroutines \ {g} : refresh[h].pc = "idle"
      /\ refresh[g] \in [pc : RefreshPCs, snap : Snapshots] /\ refresh[g].snap \in Snapshots
  BY <1>1, OneRefresher
<1>3. /\ s \in Snapshots /\ s.epoch = refresh[g].snap.epoch
      /\ s.counts["decisions"] = Sum("decisions") /\ Sum("decisions") \in Nat
  <2>1. Sum("decisions") \in Nat /\ "decisions" \in Counters
    BY <1>1, AgentStepFacts DEF Counters
  <2> QED BY <1>2, <2>1 DEF Snapshots
<1>4. Refreshed(g, "drops", s)
  <2>1. refresh'[g] = [pc |-> "drops", snap |-> s]
    BY <1>1, <1>2 DEF CountsInv, MetricsTyped
  <2> HIDE DEF s
  <2>2. [pc |-> "drops", snap |-> s] \in [pc : RefreshPCs, snap : Snapshots]
    BY <1>3 DEF RefreshPCs
  <2> QED BY <1>1, <2>1, <2>2 DEF CountsInv, MetricsTyped, Refreshed
<1> HIDE DEF s
<1>5. gauge <= s.epoch /\ s.epoch <= epoch /\ "drops" \in RefreshPCs
  BY <1>1, <1>3 DEF CountsInv, EpochsOrdered, RefreshPCs
<1>6. (\A c \in CPUs : nested[c] = 0) =>
         last["decisions"] <= s.counts["decisions"] /\ s.counts["decisions"] <= Sum("decisions")
  BY <1>2, <1>3, ReadAhead DEF Counters
<1> QED BY <1>1, <1>2, <1>3, <1>4, <1>5, <1>6, ReadingPreserves

\* ... and the drops ...
LEMMA ReadDropsPreserves ==
  ASSUME CountsInv, NEW g \in Goroutines, ReadDrops(g)
  PROVE  CountsInv'
<1> DEFINE s == WithDrops(refresh[g].snap)
<1>1. /\ AgentStep /\ refresh[g].pc = "drops" /\ UNCHANGED <<agent, holder, last, published, gauge>>
      /\ refresh' = [refresh EXCEPT ![g] = [pc |-> "publish", snap |-> s]]
  <2>1. refresh' = [refresh EXCEPT ![g] = [pc |-> "publish", snap |-> s]]
    BY DEF ReadDrops
  <2> HIDE DEF s
  <2> QED BY <2>1 DEF ReadDrops, AgentStep, kernel
<1>2. /\ holder = g /\ agent.provider /\ \A h \in Goroutines \ {g} : refresh[h].pc = "idle"
      /\ refresh[g] \in [pc : RefreshPCs, snap : Snapshots] /\ refresh[g].snap \in Snapshots
  BY <1>1, OneRefresher
<1>3. /\ s \in Snapshots /\ s.epoch = refresh[g].snap.epoch
      /\ s.counts["decisions"] = refresh[g].snap.counts["decisions"]
      /\ s.counts["limited"] = Sum("limited") /\ s.counts["full"] = Sum("full")
      /\ Sum("limited") \in Nat /\ Sum("full") \in Nat
  <2>1. Sum("limited") \in Nat /\ Sum("full") \in Nat
    BY <1>1, AgentStepFacts DEF Counters
  <2> QED BY <1>2, <2>1 DEF Snapshots, Counters, WithDrops
<1>4. Refreshed(g, "publish", s)
  <2>1. "publish" \in RefreshPCs
    BY DEF RefreshPCs
  <2> HIDE DEF s
  <2> QED BY <1>1, <1>3, <2>1, RefreshedFacts
<1> HIDE DEF s
<1>5. gauge <= s.epoch /\ s.epoch <= epoch /\ "publish" \in RefreshPCs
  BY <1>1, <1>3 DEF CountsInv, EpochsOrdered, RefreshPCs
<1>6. (\A c \in CPUs : nested[c] = 0) => \A k \in Counters :
         last[k] <= s.counts[k] /\ s.counts[k] <= Sum(k)
  <2> SUFFICES ASSUME \A c \in CPUs : nested[c] = 0, NEW k \in Counters
               PROVE  last[k] <= s.counts[k] /\ s.counts[k] <= Sum(k)
    OBVIOUS
  <2>1. CASE k = "decisions"
    BY <1>1, <1>3, <2>1 DEF CountsInv, PublicationOrdered, WasRead
  <2>2. CASE k # "decisions"
    <3>1. s.counts[k] = Sum(k) /\ Sum(k) \in Nat
      BY <1>3, <2>2 DEF Counters
    <3> QED BY <1>2, <3>1, ReadAhead
  <2> QED BY <2>1, <2>2
<1> QED BY <1>1, <1>2, <1>3, <1>4, <1>5, <1>6, ReadingPreserves

\* ... gives up ...
LEMMA RefreshFailsPreserves ==
  ASSUME CountsInv, NEW g \in Goroutines, RefreshFails(g)
  PROVE  CountsInv'
<1>1. /\ AgentStep /\ refresh[g].pc # "idle" /\ holder' = "free" /\ UNCHANGED <<agent, last, published, gauge>>
      /\ refresh' = [refresh EXCEPT ![g] = [pc |-> "idle", snap |-> NoSnapshot]]
  BY DEF RefreshFails, AgentStep, kernel
<1>2. agent.provider /\ \A h \in Goroutines \ {g} : refresh[h].pc = "idle"
  BY <1>1, OneRefresher
<1>3. NoSnapshot \in Snapshots /\ "idle" \in RefreshPCs
  BY DEF NoSnapshot, Snapshots, Zero, RefreshPCs
<1>4. Refreshed(g, "idle", NoSnapshot)
  BY <1>1, <1>3, RefreshedFacts
<1> QED BY <1>1, <1>2, <1>3, <1>4, ReadingPreserves

\* ... or publishes: counters and epoch never go back.
LEMMA PublishPreserves ==
  ASSUME CountsInv, NEW g \in Goroutines, Publish(g)
  PROVE  CountsInv' /\ gauge <= gauge'
<1> DEFINE snap == refresh[g].snap
<1>1. /\ AgentStep /\ refresh[g].pc = "publish" /\ holder' = "free" /\ UNCHANGED agent
      /\ published' = [k \in Counters |-> published[k] + CounterDelta(last[k], snap.counts[k])]
      /\ last' = snap.counts /\ gauge' = snap.epoch
      /\ refresh' = [refresh EXCEPT ![g] = [pc |-> "idle", snap |-> NoSnapshot]]
  BY DEF Publish, AgentStep, kernel
<1>2. /\ agent.provider /\ \A h \in Goroutines \ {g} : refresh[h].pc = "idle"
      /\ snap \in Snapshots
  BY <1>1, OneRefresher
<1>3. Refreshed(g, "idle", NoSnapshot)
  <2>1. NoSnapshot \in Snapshots /\ "idle" \in RefreshPCs
    BY DEF NoSnapshot, Snapshots, Zero, RefreshPCs
  <2> QED BY <1>1, <2>1, RefreshedFacts
<1>4. \A h \in Goroutines : refresh'[h].pc = "idle"
  BY <1>2, <1>3 DEF Refreshed
<1>5. /\ gauge <= snap.epoch /\ snap.epoch <= epoch
      /\ snap.counts \in [Counters -> Nat] /\ snap.epoch \in Nat
  BY <1>1, <1>2 DEF CountsInv, EpochsOrdered, Snapshots
<1> HIDE DEF snap
<1>6. published' \in [Counters -> Nat]
  <2>1. published \in [Counters -> Nat] /\ last \in [Counters -> Nat]
    BY DEF CountsInv, CountsTypeOK
  <2>2. \A k \in Counters : CounterDelta(last[k], snap.counts[k]) \in Nat
    BY <1>5, <2>1 DEF CounterDelta
  <2> QED BY <1>1, <2>1, <2>2
<1>7. CountsTypeOK' /\ MetricsTyped'
  <2>1. \A h \in Goroutines : refresh'[h].pc \in {"idle", "epoch", "decisions", "drops", "publish"}
    BY <1>4
  <2>2. gauge' <= epoch' /\ gauge' \in Nat /\ last' \in [Counters -> Nat]
    BY <1>1, <1>5, AgentStepFacts
  <2> QED BY <1>1, <1>3, <1>6, <2>1, <2>2, AgentStepFacts
          DEF Refreshed, CountsInv, CountsTypeOK, MetricsTyped, Goroutines
<1>8. Serialised' /\ EpochsOrdered'
  BY <1>1, <1>4, <1>5, AgentStepFacts DEF CountsInv, Serialised, EpochsOrdered
<1>9. PublicationOrdered'
  <2> SUFFICES ASSUME \A c \in CPUs : nested[c] = 0, NEW k \in Counters
               PROVE  published'[k] = last'[k] /\ published'[k] <= Sum(k)
    BY <1>1, <1>4, AgentStepFacts DEF PublicationOrdered, WasRead
  <2>1. /\ published[k] = last[k] /\ last[k] <= snap.counts[k] /\ snap.counts[k] <= Sum(k)
    BY <1>1, <1>2 DEF CountsInv, PublicationOrdered, WasRead, snap
  <2>2. last[k] \in Nat /\ snap.counts[k] \in Nat /\ published[k] \in Nat
    BY <1>5 DEF CountsInv, CountsTypeOK
  <2>3. published'[k] = snap.counts[k]
    BY <1>1, <2>1, <2>2 DEF CounterDelta
  <2> QED BY <1>1, <2>1, <2>3
<1> QED BY <1>1, <1>5, <1>7, <1>8, <1>9, AgentStepFacts DEF CountsInv

(***************************************************************************)
(* The theorems about DecisionCounts.                                      *)
(***************************************************************************)
LEMMA CountsInitEstablishes == CountsInit => CountsInv
<1> SUFFICES ASSUME CountsInit PROVE CountsInv
  OBVIOUS
<1>1. Zero \in [Counters -> Nat] /\ \A k \in Counters : Zero[k] = 0
  BY DEF Zero
<1>2. KernelTyped
  <2>1. << >> \in Seq(Frames) /\ << >> \in Seq(Nat)
    OBVIOUS
  <2>2. [start |-> 0, emitted |-> 0] \in [start : Nat, emitted : 0 .. FlowLimit]
    BY CountsAssumption
  <2> QED BY <1>1, <2>1, <2>2 DEF CountsInit, KernelTyped
<1>3. MetricsTyped
  BY <1>1 DEF CountsInit, MetricsTyped, RefreshPCs, Snapshots, NoSnapshot
<1>4. ASSUME NEW c \in CPUs PROVE CpuInv(c)
  <2>1. /\ running[c] = << >> /\ Len(running[c]) = 0 /\ DOMAIN running[c] = {}
        /\ delivered[c] = << >> /\ Len(delivered[c]) = 0 /\ DOMAIN delivered[c] = {}
        /\ made[c] = 0 /\ nested[c] = 0 /\ \A k \in Counters : counts[c][k] = 0
        /\ limiter[c].start = 0 /\ limiter[c].emitted = 0 /\ clock = 0
    BY <1>1 DEF CountsInit
  <2>2. Pending(c) = {} /\ \A t, u : Between(c, t, u) = {}
    BY <2>1 DEF Pending, Between
  <2>3. Cardinality(Pending(c)) = 0 /\ \A t, u : Cardinality(Between(c, t, u)) = 0
    BY <2>2, FS_EmptySet
  <2>4. CountBounded(c)
    BY <2>1, <2>2, <2>3 DEF CountBounded, Due, Counters
  <2>5. FramesOrdered(c) /\ Uninterrupted(c)
    BY <2>1, CountsAssumption DEF FramesOrdered, Uninterrupted, Counters
  <2>6. Windows(c)
    BY <2>1, <2>3, CountsAssumption DEF Windows
  <2> QED BY <2>4, <2>5, <2>6 DEF CpuInv
<1>5. CountsTypeOK
  <2>1. \A c \in CPUs : /\ Len(running[c]) <= MaxNesting /\ counts[c] \in [Counters -> Nat]
                        /\ limiter[c].start <= clock /\ limiter[c].emitted \in 0 .. FlowLimit
    BY <1>2, <1>4 DEF CpuInv, FramesOrdered, KernelTyped
  <2> QED BY <1>1, <2>1, CountsAssumption DEF CountsInit, CountsTypeOK
<1>6. Serialised /\ EpochsOrdered
  BY DEF CountsInit, Serialised, EpochsOrdered
<1>7. PublicationOrdered
  <2>1. \A k \in Counters : Sum(k) \in Nat
    BY <1>2, SumFinite DEF KernelTyped, Sum, Increments
  <2> QED BY <1>1, <2>1 DEF CountsInit, PublicationOrdered, WasRead
<1> QED BY <1>2, <1>3, <1>4, <1>5, <1>6, <1>7 DEF CountsInv

LEMMA CountsStutterPreserves ==
  ASSUME CountsInv, UNCHANGED countsVars
  PROVE  CountsInv'
<1>1. /\ AgentStep /\ UNCHANGED <<agent, holder, refresh, last, published, gauge>>
  BY DEF countsVars, kernel, metrics, AgentStep
<1>2. CountsTypeOK' /\ MetricsTyped' /\ Serialised' /\ EpochsOrdered' /\ PublicationOrdered'
  BY <1>1, AgentStepFacts
     DEF CountsInv, CountsTypeOK, MetricsTyped, Serialised, EpochsOrdered,
     PublicationOrdered, WasRead
<1> QED BY <1>1, <1>2, AgentStepFacts DEF CountsInv

LEMMA CountsStepPreserves ==
  ASSUME CountsInv, [CountsNext]_countsVars
  PROVE  CountsInv'
<1>1. CASE UNCHANGED countsVars
  BY <1>1, CountsStutterPreserves
<1>2. CASE Tick
  BY <1>2, TickPreserves
<1>3. CASE Commit
  BY <1>3, CommitPreserves
<1>4. CASE Kernel
  <2>1. PICK c \in CPUs : Decide(c) \/ Load(c) \/ Store(c) \/ Suppress(c) \/ Reject(c) \/ Submit(c)
    BY <1>4 DEF Kernel
  <2>2. CASE Decide(c)
    BY <2>2, DecidePreserves
  <2>3. CASE Load(c)
    BY <2>3, LoadPreserves
  <2>4. CASE Store(c)
    BY <2>4, StorePreserves
  <2>5. CASE Suppress(c)
    BY <2>5, DropPreserves DEF Suppress
  <2>6. CASE Reject(c)
    BY <2>6, DropPreserves DEF Reject, OneMore
  <2>7. CASE Submit(c)
    BY <2>7, SubmitPreserves
  <2> QED BY <2>1, <2>2, <2>3, <2>4, <2>5, <2>6, <2>7
<1>5. CASE Agent
  <2>1. CASE StartAgent \/ ClearProvider \/ Exit
    BY <2>1, StartAgentPreserves, ClearProviderPreserves, ExitPreserves
  <2>2. CASE \E g \in Goroutines : \/ Refresh(g) \/ ReadEpoch(g) \/ ReadDecisions(g)
                                   \/ ReadDrops(g) \/ RefreshFails(g) \/ Publish(g)
    BY <2>2, RefreshPreserves, ReadEpochPreserves, ReadDecisionsPreserves,
       ReadDropsPreserves,
       RefreshFailsPreserves, PublishPreserves
  <2> QED BY <1>5, <2>1, <2>2 DEF Agent
<1> QED BY <1>1, <1>2, <1>3, <1>4, <1>5 DEF CountsNext

\* The counters' invariant.
THEOREM CountsInvariant == CountsSpec => []CountsInv
<1>1. CountsInv /\ [CountsNext]_countsVars => CountsInv'
  BY CountsStepPreserves
<1> QED BY <1>1, CountsInitEstablishes, PTL DEF CountsSpec

\* Every decision is counted or lost to an interruption, none twice, every
\* event is delivered or its drop counted, and the rate is bounded, for any
\* number of CPUs and packets.
THEOREM CountedForAnyLoad == CountsSpec => []DecisionsCounted
<1>1. CountsInv => DecisionsCounted
  <2> SUFFICES ASSUME CountsInv PROVE DecisionsCounted
    OBVIOUS
  <2>1. EveryDecisionCounted
    <3> SUFFICES ASSUME NEW c \in CPUs, running[c] = << >>
                 PROVE  /\ made[c] - nested[c] <= counts[c]["decisions"]
                        /\ counts[c]["decisions"] <= made[c]
                        /\ nested[c] = 0 =>
                             made[c] = Len(delivered[c]) + counts[c]["limited"] + counts[c]["full"]
      BY DEF EveryDecisionCounted
    <3>1. CpuInv(c) /\ KernelTyped
      BY DEF CountsInv
    <3>2. Len(running[c]) = 0 /\ DOMAIN running[c] = {}
      OBVIOUS
    <3>3. Pending(c) = {}
      BY <3>2 DEF Pending
    <3>4. Cardinality(Pending(c)) = 0
      BY <3>3, FS_EmptySet
    <3>5. /\ made[c] \in Nat /\ nested[c] \in Nat /\ counts[c]["decisions"] \in Nat
          /\ counts[c]["limited"] \in Nat /\ counts[c]["full"] \in Nat
      BY <3>1, CpuTyped DEF Counters
    <3>6. /\ made[c] - nested[c] <= counts[c]["decisions"]
          /\ counts[c]["decisions"] <= made[c]
      BY <3>1, <3>3, <3>4, <3>5 DEF CpuInv, CountBounded, Due
    <3>7. nested[c] = 0 => made[c] = Len(delivered[c]) + counts[c]["limited"] + counts[c]["full"]
      <4> SUFFICES ASSUME nested[c] = 0
                   PROVE  made[c] = Len(delivered[c]) + counts[c]["limited"] + counts[c]["full"]
        OBVIOUS
      <4>1. made[c] = Len(delivered[c]) + counts[c]["limited"] + counts[c]["full"] + 0
        BY <3>1, <3>2 DEF CpuInv, Uninterrupted
      <4>2. Len(delivered[c]) \in Nat
        BY <3>1, CpuTyped
      <4>3. \A d \in Nat : d + counts[c]["limited"] + counts[c]["full"] + 0
                             = d + counts[c]["limited"] + counts[c]["full"]
        BY <3>5
      <4> QED BY <4>1, <4>2, <4>3
    <3> QED BY <3>6, <3>7
  <2>2. RateBounded
    <3>1. \A c \in CPUs : nested[c] = 0 => \A t \in Nat : Cardinality(Between(c, t, t + Second)) <= 2 * FlowLimit
      BY DEF CountsInv, CpuInv, Windows
    <3>2. \A t \in 0 .. clock : t \in Nat
      BY DEF CountsInv, KernelTyped
    <3> QED BY <3>1, <3>2 DEF RateBounded, Between
  <2> QED BY <2>1, <2>2 DEF DecisionsCounted, CountsInv
<1> QED BY <1>1, CountsInvariant, PTL

\* What a scrape can see is never ahead of the kernel, and the epoch shown
\* never goes back while a process lives.
THEOREM PublicationForAnyLoad == CountsSpec => PublicationSound
<1>1. CountsInv => PublishedNeverAhead
  BY DEF CountsInv, PublicationOrdered, PublishedNeverAhead
<1>2. ASSUME CountsInv, [CountsNext]_countsVars
      PROVE  [agent.up => gauge' >= gauge]_countsVars
  <2> SUFFICES ASSUME CountsNext, agent.up PROVE gauge' >= gauge
    BY <1>2
  <2>1. gauge \in Nat
    BY <1>2 DEF CountsInv, MetricsTyped
  <2>2. CASE gauge' = gauge
    BY <2>1, <2>2
  <2>3. CASE \E g \in Goroutines : Publish(g)
    <3>1. gauge <= gauge'
      BY <1>2, <2>3, PublishPreserves
    <3> QED BY <3>1
  <2>4. gauge' = gauge \/ \E g \in Goroutines : Publish(g)
    <3>1. CASE Kernel \/ Tick \/ Commit
      BY <3>1 DEF Kernel, Tick, Commit, Decide, Load, Store, Suppress, Reject, Submit,
         metrics
    <3>2. CASE Agent
      BY <3>2 DEF Agent, StartAgent, ClearProvider, Exit, Refresh, ReadEpoch,
         ReadDecisions, ReadDrops, RefreshFails
    <3> QED BY <3>1, <3>2 DEF CountsNext
  <2> QED BY <2>2, <2>3, <2>4
<1>3. CountsSpec => []PublishedNeverAhead
  BY <1>1, CountsInvariant, PTL
<1>4. CountsSpec => EpochGaugeAdvances
  BY <1>2, CountsInvariant, PTL DEF CountsSpec, EpochGaugeAdvances
<1> QED BY <1>3, <1>4 DEF PublicationSound

-----------------------------------------------------------------------------
(***************************************************************************)
(* Proofs about FlowMonitor, for any callers and subscribers and any       *)
(* number of runs: one reader at a time, none of them abandoned, and a     *)
(* monitor that reports the errors of its readers and nothing else.        *)
(***************************************************************************)

Begun == {"spawned", "open", "reading", "returned"}

\* A run in force owns a stop channel nobody has closed.
Generations ==
  /\ mon.stopCh <= mon.runGeneration
  /\ mon.running => mon.stopCh < mon.runGeneration
  /\ mon.running => Current(mon.runGeneration)
  /\ mon.started <=> mon.runGeneration # 0
  /\ mon.readerDone = mon.runGeneration

\* Only the reader of the last run may be at work, since Start waits for the
\* reader of the run before.
OnlyLastReader ==
  \A r \in Runs :
    /\ r < mon.runGeneration => run[r].reader = "done"
    /\ r > mon.runGeneration => run[r].reader = "none" /\ run[r].result = "none" /\ ~run[r].readerCtx
    /\ r = mon.runGeneration => run[r].reader # "none"

\* Where a goroutine may be.
Places ==
  /\ \A c \in Callers : call[c].pc \in {"idle", "await", "cancel", "stop", "wait"}
  /\ \A r \in Runs : call[r].pc # "idle" /\ call[r].pc # "await"
  /\ \A r \in Runs : call[r].pc = "none" <=> r > mon.runGeneration
  /\ \A r \in Runs : call[r].pc = "drained" => run[r].reader \in {"closed", "done"}

\* While the reader of the run in force is at work, Stop finds its cancel
\* function.
Cancelable ==
  \A r \in Runs :
    mon.running /\ mon.runGeneration = r /\ run[r].reader \in Begun => mon.readerCancel = r

\* A cancel function belongs to a run that has begun; the monitor keeps that
\* of the last one.
CancelsBegun ==
  /\ mon.readerCancel \in {None, mon.runGeneration}
  /\ \A x \in Callers \cup Runs : call[x].cancel <= mon.runGeneration

\* Nobody has called, or is about to call, the cancel function of a run that
\* was not stopped while its reader is at work.
NotCanceled ==
  \A r \in Runs :
    Current(r) /\ run[r].reader \in Begun =>
      /\ mon.running
      /\ ~run[r].readerCtx
      /\ \A x \in Callers \cup Runs : At(x, "cancel") => call[x].cancel # r

\* What the reader's goroutine has returned.
Results ==
  \A r \in Runs :
    /\ run[r].result = "canceled" => ReaderCanceled(r)
    /\ run[r].reader \in {"none", "spawned", "open", "reading"} => run[r].result = "none"

\* A reader that has returned has a result.
Returned ==
  \A r \in Runs : run[r].reader = "returned" => run[r].result # "none"

\* An error is recorded between the reader's return and the end of its run.
Recorded ==
  /\ mon.readerErr => mon.runGeneration # 0 /\ run[mon.runGeneration].result = "error"
  /\ \A r \in Runs :
       Current(r) /\ run[r].reader \in {"recorded", "closed", "done"}
         /\ run[r].result = "error" /\ ~run[r].ctx => mon.readerErr

MonitorInv ==
  /\ TypeOK
  /\ Generations
  /\ OnlyLastReader
  /\ Places
  /\ Cancelable
  /\ CancelsBegun
  /\ NotCanceled
  /\ NoAbandonedReader
  /\ Results
  /\ Returned
  /\ Recorded
  /\ SubscriptionsEndWithRun

-----------------------------------------------------------------------------
(* The records of TypeOK by name, so that each variable is typed by a step of *)
(* its own.                                                                *)

MonitorFields ==
  [running : BOOLEAN, started : BOOLEAN, stopped : BOOLEAN, stopCh : 0..MaxRuns,
   runGeneration : 0..MaxRuns, readerInvoked : BOOLEAN, readerStopped : BOOLEAN,
   readerDone : Runs \cup {None}, readerCancel : Runs \cup {None}, readerErr : BOOLEAN]

RunFields ==
  [stopCh : 0..MaxRuns, ctx : BOOLEAN, readerCtx : BOOLEAN,
   reader : {"none", "spawned", "open", "reading", "returned", "recorded", "closed", "done"},
   result : {"none", "nil", "canceled", "error"}, raw : 0..1]

CallFields ==
  [pc : {"none", "idle", "await", "select", "canceled", "deliver", "drained", "cancel",
         "stop", "wait", "ended"},
   stopReader : BOOLEAN, done : Runs \cup {None}, cancel : Runs \cup {None}]

SubFields == [state : {"new", "open", "closed"}, born : 0..MaxRuns]

Typed ==
  /\ mon \in MonitorFields
  /\ ring \in Runs \cup {None}
  /\ run \in [Runs -> RunFields]
  /\ call \in [Callers \cup Runs -> CallFields]
  /\ sub \in [Subscribers -> SubFields]

\* Typed and TypeOK say the same.
LEMMA TypedOK == TypeOK <=> Typed
BY DEF TypeOK, Typed, MonitorFields, RunFields, CallFields, SubFields

\* ... in the next state as well.
LEMMA TypedOKNext == TypeOK' <=> Typed'
BY DEF TypeOK, Typed, MonitorFields, RunFields, CallFields, SubFields

\* A run that begins has its type.
LEMMA BegunType ==
  ASSUME NEW f \in [Runs -> RunFields], NEW r \in Runs, NEW k \in 0..MaxRuns
  PROVE  [f EXCEPT ![r] = [@ EXCEPT !.stopCh = k, !.reader = "spawned"]] \in [Runs -> RunFields]
BY ZenonT(30) DEF RunFields

\* So has one with an event in its channel.
LEMMA RawType ==
  ASSUME NEW f \in [Runs -> RunFields], NEW r \in Runs, NEW k \in 0..1
  PROVE  [f EXCEPT ![r].raw = k] \in [Runs -> RunFields]
BY ZenonT(30) DEF RunFields

\* So has one whose reader has returned.
LEMMA ReturnedType ==
  ASSUME NEW f \in [Runs -> RunFields], NEW r \in Runs,
         NEW k \in {"none", "nil", "canceled", "error"}
  PROVE  [f EXCEPT ![r] = [@ EXCEPT !.reader = "returned", !.result = k]] \in [Runs -> RunFields]
BY ZenonT(30) DEF RunFields

-----------------------------------------------------------------------------
(* Every step preserves the invariant: one lemma per action.               *)

\* A Start that finds the monitor running changes nothing.
LEMMA StartReturnsPreserves ==
  ASSUME MonitorInv, NEW c \in Callers, StartReturns(c)
  PROVE  MonitorInv'
<1> USE DEF At, Fresh, StartReturns
<1>1. CancelsBegun'
  BY MaxRunsNat DEF MonitorInv, TypeOK, CancelsBegun, Runs, None, Fresh
<1>2. /\ TypeOK' /\ Generations' /\ OnlyLastReader' /\ Places' /\ Cancelable'
      /\ NotCanceled' /\ NoAbandonedReader' /\ Results' /\ Returned' /\ Recorded'
      /\ SubscriptionsEndWithRun'
  BY DEF MonitorInv, TypeOK, Generations, OnlyLastReader, Places, Cancelable, NotCanceled,
     NoAbandonedReader, Results, Returned, Recorded, SubscriptionsEndWithRun, Current,
     InReader, ReaderCanceled, At, Begun
<1> QED
  BY <1>1, <1>2 DEF MonitorInv

\* A Start that finds an old reader waits for it.
LEMMA StartWaitsPreserves ==
  ASSUME MonitorInv, NEW c \in Callers, StartWaits(c)
  PROVE  MonitorInv'
<1> USE DEF Entering, At, StartWaits
<1>1. Places' /\ CancelsBegun' /\ NoAbandonedReader'
  BY SMTT(30) DEF MonitorInv, TypeOK, Places, CancelsBegun, NoAbandonedReader, InReader,
     ReaderCanceled, At
<1>2. TypeOK'
  <2>0. Typed
    BY TypedOK DEF MonitorInv
  <2>1. mon.readerDone \in Runs \cup {None}
    BY <2>0 DEF Typed, MonitorFields
  <2>2. call' \in [Callers \cup Runs -> CallFields]
    BY <2>0, <2>1, ZenonT(30) DEF Typed, CallFields
  <2> QED
    BY <2>0, <2>2, TypedOKNext DEF Typed
<1>3. /\ Generations' /\ OnlyLastReader' /\ Cancelable' /\ NotCanceled' /\ Results'
      /\ Returned' /\ Recorded' /\ SubscriptionsEndWithRun'
  BY DEF MonitorInv, Generations, OnlyLastReader, Cancelable, NotCanceled, Results,
     Returned,
     Recorded, SubscriptionsEndWithRun, Current, ReaderCanceled, At, Begun
<1> QED
  BY <1>1, <1>2, <1>3 DEF MonitorInv

\* A new run begins once the reader of the last one is gone.
LEMMA StartRunPreserves ==
  ASSUME MonitorInv, NEW c \in Callers, StartRun(c)
  PROVE  MonitorInv'
<1> DEFINE g == mon.runGeneration
           r == mon.runGeneration + 1
<1>0. Typed
  BY TypedOK DEF MonitorInv
<1>1. /\ g \in 0..MaxRuns /\ r \in Runs /\ r \in 0..MaxRuns /\ c # r
      /\ ~mon.running /\ Closed(g)
  BY <1>0, MaxRunsNat, CallersAreNoRuns
     DEF MonitorInv, Generations, Typed, MonitorFields, Runs, PreviousReaderGone, StartRun
<1>2. /\ mon' \in MonitorFields
      /\ mon'.running /\ mon'.started /\ ~mon'.readerErr /\ mon'.runGeneration = r
      /\ mon'.readerDone = r /\ mon'.readerCancel = r /\ mon'.stopCh = mon.stopCh
  <2>1. mon' \in MonitorFields
    BY <1>0, <1>1, ZenonT(30) DEF Typed, MonitorFields, StartRun
  <2> QED
    BY <1>0, <2>1 DEF Typed, MonitorFields, StartRun
<1>3. /\ run' \in [Runs -> RunFields]
      /\ \A q \in Runs \ {r} : run'[q] = run[q]
      /\ run'[r].stopCh = mon.stopCh /\ run'[r].reader = "spawned"
      /\ run'[r].ctx = run[r].ctx /\ run'[r].readerCtx = run[r].readerCtx
      /\ run'[r].result = run[r].result
  <2>1. mon.stopCh \in 0..MaxRuns
    BY <1>0 DEF Typed, MonitorFields
  <2>2. run' = [run EXCEPT ![r] = [@ EXCEPT !.stopCh = mon.stopCh, !.reader = "spawned"]]
    BY DEF StartRun
  <2> HIDE DEF r
  <2>3. run' \in [Runs -> RunFields]
    BY <1>0, <1>1, <2>1, <2>2, BegunType DEF Typed
  <2>4. \A q \in Runs \ {r} : run'[q] = run[q]
    BY <1>0, <1>1, <2>2 DEF Typed
  <2> QED
    BY <1>0, <1>1, <2>2, <2>3, <2>4 DEF Typed, RunFields
<1>4. /\ call' \in [Callers \cup Runs -> CallFields]
      /\ \A x \in (Callers \cup Runs) \ {c, r} : call'[x] = call[x]
      /\ call'[c].pc = "idle" /\ call'[c].cancel = None
      /\ call'[r].pc = "select" /\ call'[r].cancel = call[r].cancel
  <2>1. Fresh("idle") \in CallFields /\ Fresh("idle").pc = "idle" /\ Fresh("idle").cancel = None
    BY DEF CallFields, Fresh
  <2>2. call' = [call EXCEPT ![c] = Fresh("idle"), ![r].pc = "select"]
    BY DEF StartRun
  <2> HIDE DEF r
  <2>3. call' \in [Callers \cup Runs -> CallFields]
    BY <1>0, <1>1, <2>1, <2>2, ZenonT(30) DEF Typed, CallFields
  <2>4. /\ \A x \in (Callers \cup Runs) \ {c, r} : call'[x] = call[x]
        /\ call'[c] = Fresh("idle")
    BY <1>0, <1>1, <2>2 DEF Typed
  <2>5. call'[r] = [call[r] EXCEPT !.pc = "select"] /\ call[r] \in CallFields
    BY <1>0, <1>1, <2>2 DEF Typed
  <2>6. call'[r].pc = "select" /\ call'[r].cancel = call[r].cancel
    BY <2>5 DEF CallFields
  <2> QED
    BY <2>1, <2>3, <2>4, <2>6
<1>5. ring' = ring /\ sub' = sub
  BY DEF StartRun
<1>6. TypeOK'
  BY <1>0, <1>2, <1>3, <1>4, <1>5, TypedOKNext DEF Typed
<1>7. \A q \in Runs : q < r => run[q].reader = "done"
  BY <1>0, <1>1, MaxRunsNat DEF MonitorInv, OnlyLastReader, Closed, Runs, None
<1>8. Generations'
  BY <1>0, <1>1, <1>2, <1>3 DEF MonitorInv, Generations, Current, Typed, MonitorFields
<1>9. OnlyLastReader'
  BY <1>1, <1>2, <1>3, <1>7, MaxRunsNat DEF MonitorInv, OnlyLastReader, Runs
<1>10. Places'
  BY <1>1, <1>2, <1>3, <1>4, MaxRunsNat, CallersAreNoRuns, SMTT(30)
     DEF MonitorInv, Places, Runs
<1>11. Cancelable'
  BY <1>2 DEF Cancelable
<1>12. CancelsBegun'
  <2>1. \A x \in Callers \cup Runs : call[x].cancel \in Nat /\ call[x].cancel <= g
    BY <1>0, MaxRunsNat DEF MonitorInv, CancelsBegun, None, Typed, CallFields, Runs
  <2>2. \A x \in Callers \cup Runs : call'[x].cancel \in {None, call[x].cancel}
    BY <1>4
  <2> HIDE DEF r
  <2>3. \A x \in Callers \cup Runs : call'[x].cancel <= r
    BY <1>1, <2>1, <2>2, MaxRunsNat DEF None, r
  <2> QED
    BY <1>2, <2>3 DEF CancelsBegun
<1>13. NotCanceled'
  <2>1. ~run'[r].readerCtx
    BY <1>1, <1>3, MaxRunsNat DEF MonitorInv, OnlyLastReader, Runs
  <2>2. \A x \in Callers \cup Runs : call'[x].cancel # r
    BY <1>0, <1>1, <1>4, MaxRunsNat
       DEF MonitorInv, CancelsBegun, None, Typed, CallFields, Runs
  <2> QED
    BY <1>2, <2>1, <2>2 DEF NotCanceled, Current
<1>14. NoAbandonedReader'
  <2>1. \A q \in Runs : run'[q].reader \notin {"open", "reading"}
    BY <1>1, <1>3, <1>7, MaxRunsNat DEF MonitorInv, OnlyLastReader, Runs
  <2> QED
    BY <2>1 DEF NoAbandonedReader, InReader
<1>15. Results'
  BY <1>1, <1>3, MaxRunsNat DEF MonitorInv, Results, OnlyLastReader, ReaderCanceled, Runs
<1>16. Returned'
  BY <1>3 DEF MonitorInv, Returned
<1>17. Recorded'
  BY <1>2, <1>3 DEF Recorded, Current
<1>18. SubscriptionsEndWithRun'
  BY <1>0, <1>1, <1>2, <1>5, MaxRunsNat
     DEF MonitorInv, Generations, SubscriptionsEndWithRun, Typed, MonitorFields
<1> QED
  BY <1>6, <1>8, <1>9, <1>10, <1>11, <1>12, <1>13, <1>14, <1>15, <1>16, <1>17,
     <1>18 DEF MonitorInv

\* A canceled context stays canceled.
LEMMA CancelContextPreserves ==
  ASSUME MonitorInv, NEW r \in Runs, CancelContext(r)
  PROVE  MonitorInv'
<1> USE DEF CancelContext
<1>1. TypeOK'
  <2>0. Typed
    BY TypedOK DEF MonitorInv
  <2>1. run' \in [Runs -> RunFields]
    BY <2>0, ZenonT(30) DEF Typed, RunFields
  <2> QED
    BY <2>0, <2>1, TypedOKNext DEF Typed
<1>2. /\ Generations' /\ OnlyLastReader' /\ Places' /\ Cancelable' /\ CancelsBegun'
      /\ NotCanceled' /\ NoAbandonedReader' /\ Results' /\ Returned' /\ Recorded'
      /\ SubscriptionsEndWithRun'
  BY DEF MonitorInv, Generations, OnlyLastReader, Places, Cancelable, CancelsBegun,
     NotCanceled,
     NoAbandonedReader, Results, Returned, Recorded, SubscriptionsEndWithRun, Current,
     InReader, ReaderCanceled, At, Begun
<1> QED
  BY <1>1, <1>2 DEF MonitorInv

\* The reader is entered for a run in force only.
LEMMA ReaderBeginsPreserves ==
  ASSUME MonitorInv, NEW r \in Runs, ReaderBegins(r)
  PROVE  MonitorInv'
<1>1. TypeOK'
  <2>0. Typed
    BY TypedOK DEF MonitorInv
  <2>1. PICK to \in {"open", "closed"} : run' = [run EXCEPT ![r].reader = to]
    BY DEF Reader, ReaderBegins
  <2>2. run' \in [Runs -> RunFields]
    BY <2>0, <2>1, ZenonT(30) DEF Typed, RunFields, Reader, ReaderBegins
  <2>3. mon' \in MonitorFields
    BY <2>0, ZenonT(30) DEF Typed, MonitorFields, Reader, ReaderBegins
  <2> QED
    BY <2>0, <2>2, <2>3, TypedOKNext DEF Typed, Reader, ReaderBegins
<1>2. Generations'
  <2>1. mon'.running = mon.running /\ mon'.started = mon.started /\ mon'.stopCh = mon.stopCh
        /\ mon'.runGeneration = mon.runGeneration /\ mon'.readerDone = mon.readerDone
        /\ mon'.readerErr = mon.readerErr
    BY DEF MonitorInv, TypeOK, Reader, ReaderBegins
  <2>2. \A q \in Runs : /\ run'[q].stopCh = run[q].stopCh
                        /\ run'[q].result = run[q].result
                        /\ run'[q].ctx = run[q].ctx
                        /\ q # r => run'[q].reader = run[q].reader
    BY DEF MonitorInv, TypeOK, Reader, ReaderBegins
  <2>3. mon.running => mon.runGeneration \in Runs
    BY MaxRunsNat DEF MonitorInv, TypeOK, Generations, Runs
  <2> QED
    BY <2>1, <2>2, <2>3 DEF MonitorInv, Generations, Current
<1>3. OnlyLastReader'
  BY DEF MonitorInv, TypeOK, OnlyLastReader, Reader, ReaderBegins
<1>4. Places'
  <2>1. mon'.running = mon.running /\ mon'.started = mon.started /\ mon'.stopCh = mon.stopCh
        /\ mon'.runGeneration = mon.runGeneration /\ mon'.readerDone = mon.readerDone
        /\ mon'.readerErr = mon.readerErr
    BY DEF MonitorInv, TypeOK, Reader, ReaderBegins
  <2>2. \A q \in Runs : /\ run'[q].stopCh = run[q].stopCh
                        /\ run'[q].result = run[q].result
                        /\ run'[q].ctx = run[q].ctx
                        /\ q # r => run'[q].reader = run[q].reader
    BY DEF MonitorInv, TypeOK, Reader, ReaderBegins
  <2>3. run[r].reader = "spawned" /\ run'[r].reader \in {"open", "closed"} /\ call' = call
    BY DEF MonitorInv, TypeOK, Reader, ReaderBegins
  <2> QED
    BY <2>1, <2>2, <2>3 DEF MonitorInv, Places
<1>5. Cancelable'
  BY ZenonT(60) DEF MonitorInv, TypeOK, Cancelable, Begun, Reader, ReaderBegins
<1>6. CancelsBegun'
  BY MaxRunsNat
     DEF MonitorInv, TypeOK, CancelsBegun, Runs, None, Fresh, Reader, ReaderBegins
<1>7. NotCanceled'
  BY DEF MonitorInv, TypeOK, NotCanceled, Current, At, Begun, Reader, ReaderBegins
<1>8. NoAbandonedReader'
  <2>1. mon'.running = mon.running /\ mon'.runGeneration = mon.runGeneration
    BY DEF MonitorInv, TypeOK, Reader, ReaderBegins
  <2>2. run'[r].reader = "open" => mon.running /\ mon.runGeneration = r
    BY DEF MonitorInv, TypeOK, Current, Reader, ReaderBegins
  <2>3. \A q \in Runs : /\ run'[q].ctx = run[q].ctx
                        /\ run'[q].readerCtx = run[q].readerCtx
                        /\ q # r => run'[q].reader = run[q].reader
    BY DEF MonitorInv, TypeOK, Reader, ReaderBegins
  <2>4. run'[r].reader \in {"open", "closed"} /\ call' = call
    BY DEF MonitorInv, TypeOK, Reader, ReaderBegins
  <2> QED
    BY <2>1, <2>2, <2>3, <2>4
       DEF MonitorInv, NoAbandonedReader, InReader, ReaderCanceled, At
<1>9. Results'
  BY SMTT(30) DEF MonitorInv, TypeOK, Results, ReaderCanceled, Reader, ReaderBegins
<1>10. Returned'
  BY DEF MonitorInv, Returned, TypeOK, Results, Reader, ReaderBegins
<1>11. Recorded'
  <2>1. mon'.running = mon.running /\ mon'.started = mon.started /\ mon'.stopCh = mon.stopCh
        /\ mon'.runGeneration = mon.runGeneration /\ mon'.readerDone = mon.readerDone
        /\ mon'.readerErr = mon.readerErr
    BY DEF MonitorInv, TypeOK, Reader, ReaderBegins
  <2>2. \A q \in Runs : /\ run'[q].stopCh = run[q].stopCh
                        /\ run'[q].result = run[q].result
                        /\ run'[q].ctx = run[q].ctx
                        /\ q # r => run'[q].reader = run[q].reader
    BY DEF MonitorInv, TypeOK, Reader, ReaderBegins
  <2>3. run[r].reader = "spawned" /\ run'[r].reader \in {"open", "closed"} /\ call' = call
    BY DEF MonitorInv, TypeOK, Reader, ReaderBegins
  <2> QED
    BY <2>1, <2>2, <2>3 DEF MonitorInv, TypeOK, Runs, Results, Recorded, Current
<1>12. SubscriptionsEndWithRun'
  BY DEF MonitorInv, TypeOK, SubscriptionsEndWithRun, Reader, ReaderBegins
<1> QED
  BY <1>1, <1>2, <1>3, <1>4, <1>5, <1>6, <1>7, <1>8, <1>9, <1>10, <1>11,
     <1>12 DEF MonitorInv

\* The ring buffer is opened.
LEMMA ReaderOpensPreserves ==
  ASSUME MonitorInv, NEW r \in Runs, ReaderOpens(r)
  PROVE  MonitorInv'
<1> USE DEF Reader, ReaderOpens
<1>1. TypeOK'
  BY DEF MonitorInv, TypeOK
<1>2. Generations'
  BY DEF MonitorInv, Generations, Current
<1>3. OnlyLastReader'
  BY DEF MonitorInv, OnlyLastReader
<1>4. Places'
  BY DEF MonitorInv, Places
<1>5. Cancelable'
  BY DEF MonitorInv, Cancelable, Begun
<1>6. CancelsBegun'
  BY DEF MonitorInv, CancelsBegun
<1>7. NotCanceled'
  BY DEF MonitorInv, NotCanceled, Current, At, Begun
<1>8. NoAbandonedReader'
  BY DEF MonitorInv, NoAbandonedReader, InReader, ReaderCanceled, At
<1>9. Results'
  BY DEF MonitorInv, Results, ReaderCanceled
<1>10. Returned'
  BY DEF MonitorInv, Returned
<1>11. Recorded'
  BY DEF MonitorInv, Recorded, Current
<1>12. SubscriptionsEndWithRun'
  BY DEF MonitorInv, SubscriptionsEndWithRun
<1> QED
  BY <1>1, <1>2, <1>3, <1>4, <1>5, <1>6, <1>7, <1>8, <1>9, <1>10, <1>11,
     <1>12 DEF MonitorInv

\* A reader that returns has a result, and is canceled if it says so.
LEMMA ReturnPreserves ==
  ASSUME MonitorInv, NEW r \in Runs, NEW k \in {"nil", "canceled", "error"}, Return(r, k),
         run[r].reader \in {"open", "reading"}, k = "canceled" => ReaderCanceled(r)
  PROVE  MonitorInv'
<1>0. Typed
  BY TypedOK DEF MonitorInv
<1>1. /\ run' \in [Runs -> RunFields]
      /\ \A q \in Runs \ {r} : run'[q] = run[q]
      /\ run'[r].reader = "returned" /\ run'[r].result = k
      /\ run'[r].stopCh = run[r].stopCh /\ run'[r].ctx = run[r].ctx
      /\ run'[r].readerCtx = run[r].readerCtx
  <2>1. run' = [run EXCEPT ![r] = [@ EXCEPT !.reader = "returned", !.result = k]]
    BY DEF Return
  <2>2. run' \in [Runs -> RunFields]
    BY <1>0, <2>1, ReturnedType DEF Typed
  <2>3. /\ \A q \in Runs \ {r} : run'[q] = run[q]
        /\ run'[r] = [run[r] EXCEPT !.reader = "returned", !.result = k]
        /\ run[r] \in RunFields
    BY <1>0, <2>1 DEF Typed
  <2>4. /\ run'[r].reader = "returned" /\ run'[r].result = k
        /\ run'[r].stopCh = run[r].stopCh /\ run'[r].ctx = run[r].ctx
        /\ run'[r].readerCtx = run[r].readerCtx
    BY <2>3 DEF RunFields
  <2> QED
    BY <2>2, <2>3, <2>4
<1>2. mon' = mon /\ call' = call /\ sub' = sub /\ ring' \in Runs \cup {None}
  BY <1>0 DEF Typed, Return
<1>3. TypeOK'
  BY <1>0, <1>1, <1>2, TypedOKNext DEF Typed
<1>4. run[r].result = "none" /\ mon.runGeneration = r
  BY <1>0, MaxRunsNat DEF MonitorInv, Results, OnlyLastReader, Typed, MonitorFields, Runs
<1>5. Generations'
  BY <1>1, <1>2, <1>4 DEF MonitorInv, Generations, Current
<1>6. OnlyLastReader' /\ Places' /\ Cancelable' /\ CancelsBegun'
  <2>1. OnlyLastReader'
    BY <1>1, <1>2, <1>4, MaxRunsNat DEF MonitorInv, OnlyLastReader, Runs
  <2>2. Places'
    BY <1>1, <1>2 DEF MonitorInv, Places
  <2>3. Cancelable'
    BY <1>1, <1>2 DEF MonitorInv, Cancelable, Begun
  <2>4. CancelsBegun'
    BY <1>2 DEF MonitorInv, CancelsBegun
  <2> QED
    BY <2>1, <2>2, <2>3, <2>4
<1>7. NotCanceled'
  BY <1>1, <1>2 DEF MonitorInv, NotCanceled, Current, At, Begun
<1>8. NoAbandonedReader'
  BY <1>1, <1>2 DEF MonitorInv, NoAbandonedReader, InReader, ReaderCanceled, At
<1>9. Results' /\ Returned'
  BY <1>1 DEF MonitorInv, Results, Returned, ReaderCanceled
<1>10. Recorded'
  BY <1>1, <1>2, <1>4 DEF MonitorInv, Recorded, Current
<1>11. SubscriptionsEndWithRun'
  BY <1>2 DEF MonitorInv, SubscriptionsEndWithRun
<1> QED
  BY <1>3, <1>5, <1>6, <1>7, <1>8, <1>9, <1>10, <1>11 DEF MonitorInv

\* A reader that declines has returned.
LEMMA ReaderDeclinesPreserves ==
  ASSUME MonitorInv, NEW r \in Runs, ReaderDeclines(r)
  PROVE  MonitorInv'
BY ReturnPreserves DEF ReaderDeclines

\* An event is read.
LEMMA ReaderReadsPreserves ==
  ASSUME MonitorInv, NEW r \in Runs, ReaderReads(r)
  PROVE  MonitorInv'
<1> USE DEF ReaderReads
<1>1. TypeOK'
  <2>0. Typed
    BY TypedOK DEF MonitorInv
  <2>1. 1 \in 0..1
    OBVIOUS
  <2>2. run' \in [Runs -> RunFields]
    BY <2>0, <2>1, RawType DEF Typed
  <2> QED
    BY <2>0, <2>2, TypedOKNext DEF Typed
<1>2. Generations'
  BY DEF MonitorInv, Generations, Current
<1>3. OnlyLastReader'
  BY DEF MonitorInv, OnlyLastReader
<1>4. Places'
  BY DEF MonitorInv, Places
<1>5. Cancelable'
  BY DEF MonitorInv, Cancelable, Begun
<1>6. CancelsBegun'
  BY DEF MonitorInv, CancelsBegun
<1>7. NotCanceled'
  BY DEF MonitorInv, NotCanceled, Current, At, Begun
<1>8. NoAbandonedReader'
  BY DEF MonitorInv, NoAbandonedReader, InReader, ReaderCanceled, At
<1>9. Results'
  BY DEF MonitorInv, Results, ReaderCanceled
<1>10. Returned'
  BY DEF MonitorInv, Returned
<1>11. Recorded'
  BY DEF MonitorInv, Recorded, Current
<1>12. SubscriptionsEndWithRun'
  BY DEF MonitorInv, SubscriptionsEndWithRun
<1> QED
  BY <1>1, <1>2, <1>3, <1>4, <1>5, <1>6, <1>7, <1>8, <1>9, <1>10, <1>11,
     <1>12 DEF MonitorInv

\* A reader that ends has returned.
LEMMA ReaderEndsPreserves ==
  ASSUME MonitorInv, NEW r \in Runs, ReaderEnds(r)
  PROVE  MonitorInv'
BY ReturnPreserves DEF ReaderEnds

\* A reader that fails has returned its error.
LEMMA ReaderFailsPreserves ==
  ASSUME MonitorInv, NEW r \in Runs, ReaderFails(r)
  PROVE  MonitorInv'
BY ReturnPreserves DEF ReaderFails

\* The error of a run that nobody stopped or canceled is recorded.
LEMMA ReaderRecordsPreserves ==
  ASSUME MonitorInv, NEW r \in Runs, ReaderRecords(r)
  PROVE  MonitorInv'
<1>1. TypeOK'
  <2>0. Typed
    BY TypedOK DEF MonitorInv
  <2>1. run' \in [Runs -> RunFields]
    BY <2>0, ZenonT(30) DEF Typed, RunFields, Reader, ReaderRecords
  <2>2. mon' \in MonitorFields
    <3>1. mon.readerErr \/ (run[r].result # "nil" /\ ~ReaderCanceled(r) /\ Current(r)) \in BOOLEAN
      OBVIOUS
    <3>2. (IF mon.readerDone = r THEN None ELSE mon.readerCancel) \in Runs \cup {None}
      BY <2>0 DEF Typed, MonitorFields
    <3> QED
      BY <2>0, <3>1, <3>2, ZenonT(30) DEF Typed, MonitorFields, Reader, ReaderRecords
  <2> QED
    BY <2>0, <2>1, <2>2, TypedOKNext DEF Typed, Reader, ReaderRecords
<1>2. Cancelable'
  BY DEF MonitorInv, TypeOK, Generations, Cancelable, Begun, Reader, ReaderRecords
<1>3. Recorded'
  <2>1. mon'.runGeneration = mon.runGeneration /\ mon'.stopCh = mon.stopCh
    BY DEF MonitorInv, TypeOK, Reader, ReaderRecords
  <2>2. mon'.readerErr <=>
          mon.readerErr \/ (run[r].result # "nil" /\ ~ReaderCanceled(r) /\ Current(r))
    BY DEF MonitorInv, TypeOK, Reader, ReaderRecords
  <2>3. \A q \in Runs : /\ run'[q].stopCh = run[q].stopCh
                        /\ run'[q].result = run[q].result
                        /\ run'[q].ctx = run[q].ctx
                        /\ q # r => run'[q].reader = run[q].reader
    BY DEF MonitorInv, TypeOK, Reader, ReaderRecords
  <2>4. Current(r) => ~run[r].readerCtx
    BY DEF MonitorInv, NotCanceled, Begun, Reader, ReaderRecords
  <2>5. mon.runGeneration # 0 => mon.runGeneration \in Runs
    BY DEF MonitorInv, TypeOK, Runs
  <2>6. CASE mon.readerErr
    BY <2>1, <2>2, <2>3, <2>4, <2>5, <2>6
       DEF MonitorInv, Recorded, Current, ReaderCanceled
  <2>7. CASE ~mon.readerErr /\ mon'.readerErr
    <3>1. r = mon.runGeneration /\ run[r].result \notin {"none", "nil", "canceled"}
      BY <2>2, <2>7 DEF Current, MonitorInv, Results, Returned, ReaderCanceled, Reader,
         ReaderRecords
    <3>2. run[r].result = "error" /\ r # 0
      BY <3>1 DEF MonitorInv, TypeOK, Runs
    <3> QED
      BY <2>1, <2>3, <2>7, <3>1, <3>2 DEF Recorded
  <2>8. CASE ~mon'.readerErr
    BY <2>1, <2>2, <2>3, <2>4, <2>5, <2>8
       DEF MonitorInv, Recorded, Current, ReaderCanceled
  <2> QED
    BY <2>6, <2>7, <2>8
<1>4. /\ Generations' /\ OnlyLastReader' /\ Places' /\ CancelsBegun' /\ NotCanceled'
      /\ NoAbandonedReader' /\ Results' /\ Returned' /\ SubscriptionsEndWithRun'
  BY DEF MonitorInv, Generations, OnlyLastReader, Places, CancelsBegun, NotCanceled,
     NoAbandonedReader, Results, Returned, SubscriptionsEndWithRun, Current, InReader,
     ReaderCanceled, At, Begun, Reader, ReaderRecords
<1> QED
  BY <1>1, <1>2, <1>3, <1>4 DEF MonitorInv

\* The channel of events is closed.
LEMMA ReaderClosesPreserves ==
  ASSUME MonitorInv, NEW r \in Runs, ReaderCloses(r)
  PROVE  MonitorInv'
BY DEF MonitorInv, TypeOK, Generations, OnlyLastReader, Places, Cancelable, CancelsBegun,
   NotCanceled, NoAbandonedReader, Results, Returned, Recorded, SubscriptionsEndWithRun,
   Current, InReader, ReaderCanceled, At, Begun, Reader, ReaderCloses

\* The reader is gone.
LEMMA ReaderDonePreserves ==
  ASSUME MonitorInv, NEW r \in Runs, ReaderDone(r)
  PROVE  MonitorInv'
<1> USE DEF ReaderDone
<1>1. /\ OnlyLastReader' /\ Places' /\ Cancelable' /\ NotCanceled' /\ NoAbandonedReader'
      /\ Results' /\ Returned'
  BY DEF MonitorInv, TypeOK, OnlyLastReader, Places, Cancelable, NotCanceled,
     NoAbandonedReader,
     Results, Returned, Current, InReader, ReaderCanceled, At, Begun
<1>2. TypeOK'
  <2>0. Typed
    BY TypedOK DEF MonitorInv
  <2>1. run' \in [Runs -> RunFields]
    BY <2>0, ZenonT(30) DEF Typed, RunFields
  <2> QED
    BY <2>0, <2>1, TypedOKNext DEF Typed
<1>3. Generations'
  BY DEF MonitorInv, TypeOK, Generations, Current, None
<1>4. Recorded'
  BY DEF MonitorInv, TypeOK, Generations, Recorded, Current, None
<1>5. CancelsBegun' /\ SubscriptionsEndWithRun'
  BY DEF MonitorInv, CancelsBegun, SubscriptionsEndWithRun
<1> QED
  BY <1>1, <1>2, <1>3, <1>4, <1>5 DEF MonitorInv

\* The processor sees the closed stop channel.
LEMMA ProcessorStoppedPreserves ==
  ASSUME MonitorInv, NEW r \in Runs, ProcessorStopped(r)
  PROVE  MonitorInv'
<1> USE DEF At, Goto, ProcessorStopped
<1>1. TypeOK'
  BY SMTT(30) DEF MonitorInv, TypeOK
<1>2. Generations'
  BY DEF MonitorInv, Generations, Current
<1>3. OnlyLastReader'
  BY DEF MonitorInv, OnlyLastReader
<1>4. Places'
  BY DEF MonitorInv, Places
<1>5. Cancelable'
  BY DEF MonitorInv, Cancelable, Begun
<1>6. CancelsBegun'
  BY DEF MonitorInv, CancelsBegun
<1>7. NotCanceled'
  BY DEF MonitorInv, NotCanceled, Current, At, Begun
<1>8. NoAbandonedReader'
  BY DEF MonitorInv, NoAbandonedReader, InReader, ReaderCanceled, At
<1>9. Results'
  BY DEF MonitorInv, Results, ReaderCanceled
<1>10. Returned'
  BY DEF MonitorInv, Returned
<1>11. Recorded'
  BY DEF MonitorInv, Recorded, Current
<1>12. SubscriptionsEndWithRun'
  BY DEF MonitorInv, SubscriptionsEndWithRun
<1> QED
  BY <1>1, <1>2, <1>3, <1>4, <1>5, <1>6, <1>7, <1>8, <1>9, <1>10, <1>11,
     <1>12 DEF MonitorInv

\* The processor is about to call Stop.
LEMMA ProcessorCanceledPreserves ==
  ASSUME MonitorInv, NEW r \in Runs, ProcessorCanceled(r)
  PROVE  MonitorInv'
<1> USE DEF At, Goto, ProcessorCanceled
<1>1. TypeOK'
  BY DEF MonitorInv, TypeOK
<1>2. Generations'
  BY DEF MonitorInv, Generations, Current
<1>3. OnlyLastReader'
  BY DEF MonitorInv, OnlyLastReader
<1>4. Places'
  BY DEF MonitorInv, Places
<1>5. Cancelable'
  BY DEF MonitorInv, Cancelable, Begun
<1>6. CancelsBegun'
  BY DEF MonitorInv, CancelsBegun
<1>7. NotCanceled'
  BY DEF MonitorInv, NotCanceled, Current, At, Begun
<1>8. NoAbandonedReader'
  BY DEF MonitorInv, NoAbandonedReader, InReader, ReaderCanceled, At
<1>9. Results'
  BY DEF MonitorInv, Results, ReaderCanceled
<1>10. Returned'
  BY DEF MonitorInv, Returned
<1>11. Recorded'
  BY DEF MonitorInv, Recorded, Current
<1>12. SubscriptionsEndWithRun'
  BY DEF MonitorInv, SubscriptionsEndWithRun
<1> QED
  BY <1>1, <1>2, <1>3, <1>4, <1>5, <1>6, <1>7, <1>8, <1>9, <1>10, <1>11,
     <1>12 DEF MonitorInv

\* The processor takes an event.
LEMMA ProcessorReceivesPreserves ==
  ASSUME MonitorInv, NEW r \in Runs, ProcessorReceives(r)
  PROVE  MonitorInv'
<1> USE DEF At, Goto, ProcessorReceives
<1>1. TypeOK'
  <2>0. Typed
    BY TypedOK DEF MonitorInv
  <2>1. run[r].raw - 1 \in 0..1
    BY <2>0 DEF Typed, RunFields
  <2>2. run' \in [Runs -> RunFields]
    BY <2>0, <2>1, ZenonT(30) DEF Typed, RunFields
  <2>3. call' \in [Callers \cup Runs -> CallFields]
    BY <2>0, ZenonT(30) DEF Typed, CallFields
  <2> QED
    BY <2>0, <2>2, <2>3, TypedOKNext DEF Typed
<1>2. Generations'
  BY DEF MonitorInv, Generations, Current
<1>3. OnlyLastReader'
  BY DEF MonitorInv, OnlyLastReader
<1>4. Places'
  BY DEF MonitorInv, Places
<1>5. Cancelable'
  BY DEF MonitorInv, Cancelable, Begun
<1>6. CancelsBegun'
  BY DEF MonitorInv, CancelsBegun
<1>7. NotCanceled'
  BY DEF MonitorInv, NotCanceled, Current, At, Begun
<1>8. NoAbandonedReader'
  BY DEF MonitorInv, NoAbandonedReader, InReader, ReaderCanceled, At
<1>9. Results'
  BY DEF MonitorInv, Results, ReaderCanceled
<1>10. Returned'
  BY DEF MonitorInv, Returned
<1>11. Recorded'
  BY DEF MonitorInv, Recorded, Current
<1>12. SubscriptionsEndWithRun'
  BY DEF MonitorInv, SubscriptionsEndWithRun
<1> QED
  BY <1>1, <1>2, <1>3, <1>4, <1>5, <1>6, <1>7, <1>8, <1>9, <1>10, <1>11,
     <1>12 DEF MonitorInv

\* The processor delivers it.
LEMMA ProcessorDeliversPreserves ==
  ASSUME MonitorInv, NEW r \in Runs, ProcessorDelivers(r)
  PROVE  MonitorInv'
<1> USE DEF At, Goto, ProcessorDelivers
<1>1. TypeOK'
  <2>0. Typed
    BY TypedOK DEF MonitorInv
  <2>1. call' \in [Callers \cup Runs -> CallFields]
    BY <2>0, ZenonT(30) DEF Typed, CallFields
  <2> QED
    BY <2>0, <2>1, TypedOKNext DEF Typed
<1>2. Generations'
  BY DEF MonitorInv, Generations, Current
<1>3. OnlyLastReader'
  BY DEF MonitorInv, OnlyLastReader
<1>4. Places'
  BY DEF MonitorInv, Places
<1>5. Cancelable'
  BY DEF MonitorInv, Cancelable, Begun
<1>6. CancelsBegun'
  BY DEF MonitorInv, CancelsBegun
<1>7. NotCanceled'
  BY DEF MonitorInv, NotCanceled, Current, At, Begun
<1>8. NoAbandonedReader'
  BY DEF MonitorInv, NoAbandonedReader, InReader, ReaderCanceled, At
<1>9. Results'
  BY DEF MonitorInv, Results, ReaderCanceled
<1>10. Returned'
  BY DEF MonitorInv, Returned
<1>11. Recorded'
  BY DEF MonitorInv, Recorded, Current
<1>12. SubscriptionsEndWithRun'
  BY DEF MonitorInv, SubscriptionsEndWithRun
<1> QED
  BY <1>1, <1>2, <1>3, <1>4, <1>5, <1>6, <1>7, <1>8, <1>9, <1>10, <1>11,
     <1>12 DEF MonitorInv

\* The channel of events is closed and empty.
LEMMA ProcessorDrainedPreserves ==
  ASSUME MonitorInv, NEW r \in Runs, ProcessorDrained(r)
  PROVE  MonitorInv'
<1> USE DEF At, Goto, ProcessorDrained
<1>1. TypeOK'
  <2>0. Typed
    BY TypedOK DEF MonitorInv
  <2>1. call' \in [Callers \cup Runs -> CallFields]
    BY <2>0, ZenonT(30) DEF Typed, CallFields
  <2> QED
    BY <2>0, <2>1, TypedOKNext DEF Typed
<1>2. Generations'
  BY DEF MonitorInv, Generations, Current
<1>3. OnlyLastReader'
  BY DEF MonitorInv, OnlyLastReader
<1>4. Places'
  BY DEF MonitorInv, Places
<1>5. Cancelable'
  BY DEF MonitorInv, Cancelable, Begun
<1>6. CancelsBegun'
  BY DEF MonitorInv, CancelsBegun
<1>7. NotCanceled'
  BY DEF MonitorInv, NotCanceled, Current, At, Begun
<1>8. NoAbandonedReader'
  BY DEF MonitorInv, NoAbandonedReader, InReader, ReaderCanceled, At
<1>9. Results'
  BY DEF MonitorInv, Results, ReaderCanceled
<1>10. Returned'
  BY DEF MonitorInv, Returned
<1>11. Recorded'
  BY DEF MonitorInv, Recorded, Current
<1>12. SubscriptionsEndWithRun'
  BY DEF MonitorInv, SubscriptionsEndWithRun
<1> QED
  BY <1>1, <1>2, <1>3, <1>4, <1>5, <1>6, <1>7, <1>8, <1>9, <1>10, <1>11,
     <1>12 DEF MonitorInv

\* A run ends with its reader, and its subscriptions with it.
LEMMA ProcessorEndsPreserves ==
  ASSUME MonitorInv, NEW r \in Runs, ProcessorEnds(r)
  PROVE  MonitorInv'
<1>1. SubscriptionsEndWithRun'
  BY DEF MonitorInv, TypeOK, SubscriptionsEndWithRun, At, Goto, closeSubscribersLocked,
     ProcessorEnds
<1>2. TypeOK'
  <2>0. Typed
    BY TypedOK DEF MonitorInv
  <2>1. mon' \in MonitorFields
    BY <2>0, ZenonT(30)
       DEF Typed, MonitorFields, At, Goto, closeSubscribersLocked, ProcessorEnds
  <2>2. call' \in [Callers \cup Runs -> CallFields]
    BY <2>0, ZenonT(30)
       DEF Typed, CallFields, At, Goto, closeSubscribersLocked, ProcessorEnds
  <2>3. sub' \in [Subscribers -> SubFields]
    BY <2>0 DEF Typed, SubFields, At, Goto, closeSubscribersLocked, ProcessorEnds
  <2> QED
    BY <2>0, <2>1, <2>2, <2>3, TypedOKNext
       DEF Typed, At, Goto, closeSubscribersLocked, ProcessorEnds
<1>3. Generations'
  <2>1. mon'.started = mon.started /\ mon'.stopCh = mon.stopCh
        /\ mon'.runGeneration = mon.runGeneration /\ mon'.readerDone = mon.readerDone
        /\ mon'.readerErr = mon.readerErr
        /\ (mon'.running => mon.running)
        /\ run' = run
    BY DEF MonitorInv, TypeOK, At, Goto, closeSubscribersLocked, ProcessorEnds
  <2> QED
    BY <2>1 DEF MonitorInv, TypeOK, Generations, Current
<1>4. OnlyLastReader'
  <2>1. mon'.started = mon.started /\ mon'.stopCh = mon.stopCh
        /\ mon'.runGeneration = mon.runGeneration /\ mon'.readerDone = mon.readerDone
        /\ mon'.readerErr = mon.readerErr
        /\ (mon'.running => mon.running)
        /\ run' = run
    BY DEF MonitorInv, TypeOK, At, Goto, closeSubscribersLocked, ProcessorEnds
  <2> QED
    BY <2>1 DEF MonitorInv, OnlyLastReader
<1>5. Places'
  <2>1. mon'.started = mon.started /\ mon'.stopCh = mon.stopCh
        /\ mon'.runGeneration = mon.runGeneration /\ mon'.readerDone = mon.readerDone
        /\ mon'.readerErr = mon.readerErr
        /\ (mon'.running => mon.running)
        /\ run' = run
    BY DEF MonitorInv, TypeOK, At, Goto, closeSubscribersLocked, ProcessorEnds
  <2> QED
    BY <2>1, CallersAreNoRuns
       DEF MonitorInv, TypeOK, Places, At, Goto, closeSubscribersLocked, ProcessorEnds
<1>6. Cancelable'
  BY SMTT(30) DEF MonitorInv, Generations, OnlyLastReader, Places, Cancelable, Current,
     Begun, Runs, At,
     Goto, closeSubscribersLocked, ProcessorEnds
<1>7. CancelsBegun'
  <2>1. mon'.readerCancel = mon.readerCancel /\ mon'.runGeneration = mon.runGeneration
    BY DEF MonitorInv, TypeOK, At, Goto, closeSubscribersLocked, ProcessorEnds
  <2>2. \A x \in Callers \cup Runs : call'[x].cancel = call[x].cancel
    BY DEF MonitorInv, TypeOK, At, Goto, closeSubscribersLocked, ProcessorEnds
  <2> QED
    BY <2>1, <2>2 DEF MonitorInv, CancelsBegun
<1>8. NotCanceled'
  BY DEF MonitorInv, Generations, OnlyLastReader, Places, NotCanceled, Current, At,
     Begun, Runs,
     At, Goto, closeSubscribersLocked, ProcessorEnds
<1>9. NoAbandonedReader'
  BY DEF MonitorInv, Places, NoAbandonedReader, Current, InReader, ReaderCanceled, At,
     At, Goto,
     closeSubscribersLocked, ProcessorEnds
<1>10. Recorded'
  <2>1. mon'.started = mon.started /\ mon'.stopCh = mon.stopCh
        /\ mon'.runGeneration = mon.runGeneration /\ mon'.readerDone = mon.readerDone
        /\ mon'.readerErr = mon.readerErr
        /\ (mon'.running => mon.running)
        /\ run' = run
    BY DEF MonitorInv, TypeOK, At, Goto, closeSubscribersLocked, ProcessorEnds
  <2> QED
    BY <2>1 DEF MonitorInv, Recorded, Current
<1>11. Results' /\ Returned'
  BY DEF MonitorInv, Results, Returned, ReaderCanceled, At, Goto, closeSubscribersLocked,
     ProcessorEnds
<1> QED
  BY <1>1, <1>2, <1>3, <1>4, <1>5, <1>6, <1>7, <1>8, <1>9, <1>10, <1>11 DEF MonitorInv

\* Stop takes the cancel function and closes the stop channel and the
\* subscriptions of the run in force.
LEMMA StopPreserves ==
  ASSUME MonitorInv, NEW x \in Callers \cup Runs, Stop(x)
  PROVE  MonitorInv'
<1> USE DEF StopLocks, At, closeSubscribersLocked, Stop
<1>1. Generations'
  BY DEF MonitorInv, TypeOK, Generations, Current
<1>2. TypeOK'
  <2>0. Typed
    BY TypedOK DEF MonitorInv
  <2>1. mon' \in MonitorFields
    <3>1. (IF mon.running THEN mon.stopCh + 1 ELSE mon.stopCh) \in 0..MaxRuns
      BY <2>0, MaxRunsNat DEF MonitorInv, Typed, MonitorFields, Generations
    <3> QED
      BY <2>0, <3>1, ZenonT(30) DEF Typed, MonitorFields
  <2>2. call' \in [Callers \cup Runs -> CallFields]
    BY <2>0 DEF Typed, CallFields, MonitorFields
  <2>3. sub' \in [Subscribers -> SubFields]
    BY <2>0 DEF Typed, SubFields
  <2> QED
    BY <2>0, <2>1, <2>2, <2>3, TypedOKNext DEF Typed
<1>3. CancelsBegun'
  BY MaxRunsNat DEF MonitorInv, TypeOK, CancelsBegun, Runs, None, Fresh
<1>4. NotCanceled'
  BY DEF MonitorInv, TypeOK, Generations, NotCanceled, Current, At, Begun
<1>5. NoAbandonedReader'
  BY DEF MonitorInv, TypeOK, Cancelable, NoAbandonedReader, InReader, ReaderCanceled, At,
     Begun
<1>6. Recorded'
  BY DEF MonitorInv, Generations, Recorded, Current
<1>7. /\ OnlyLastReader' /\ Places' /\ Cancelable' /\ Results' /\ Returned'
      /\ SubscriptionsEndWithRun'
  BY DEF MonitorInv, OnlyLastReader, Places, Cancelable, Results, Returned,
     SubscriptionsEndWithRun, ReaderCanceled, Begun
<1> QED
  BY <1>1, <1>2, <1>3, <1>4, <1>5, <1>6, <1>7 DEF MonitorInv

\* The reader's context is canceled.
LEMMA StopCancelsPreserves ==
  ASSUME MonitorInv, NEW x \in Callers \cup Runs, StopCancels(x)
  PROVE  MonitorInv'
<1>0. Typed /\ call[x].cancel \in 0..MaxRuns
  <2>1. Typed
    BY TypedOK DEF MonitorInv
  <2> QED
    BY <2>1, MaxRunsNat DEF Typed, CallFields, Runs, None
<1>1. /\ run' \in [Runs -> RunFields]
      /\ \A r \in Runs : /\ run'[r].reader = run[r].reader /\ run'[r].result = run[r].result
                         /\ run'[r].stopCh = run[r].stopCh /\ run'[r].ctx = run[r].ctx
                         /\ run[r].readerCtx => run'[r].readerCtx
                         /\ r # call[x].cancel => run'[r].readerCtx = run[r].readerCtx
                         /\ r = call[x].cancel => run'[r].readerCtx
  <2>1. \A f \in RunFields :
          LET g == [f EXCEPT !.readerCtx = TRUE]
          IN  /\ g \in RunFields /\ g.readerCtx
              /\ g.reader = f.reader /\ g.result = f.result /\ g.stopCh = f.stopCh /\ g.ctx = f.ctx
    <3>1. \A f \in RunFields : [f EXCEPT !.readerCtx = TRUE] \in RunFields
      BY ZenonT(30) DEF RunFields
    <3> QED
      BY <3>1 DEF RunFields
  <2>2. \A r \in Runs : run'[r] = IF r = call[x].cancel
                                   THEN [run[r] EXCEPT !.readerCtx = TRUE] ELSE run[r]
    BY DEF StopCancels
  <2> QED
    BY <1>0, <2>1, <2>2 DEF Typed, StopCancels
<1>2. /\ call' \in [Callers \cup Runs -> CallFields]
      /\ \A y \in (Callers \cup Runs) \ {x} : call'[y] = call[y]
      /\ call[x].pc = "cancel" /\ call'[x].pc = "stop" /\ call'[x].cancel = None
  <2>1. call' = [call EXCEPT ![x] = [@ EXCEPT !.pc = "stop", !.cancel = None]]
    BY DEF StopCancels
  <2>2. call' \in [Callers \cup Runs -> CallFields]
    BY <1>0, <2>1, ZenonT(30) DEF Typed, CallFields
  <2>3. /\ \A y \in (Callers \cup Runs) \ {x} : call'[y] = call[y]
        /\ call'[x] = [call[x] EXCEPT !.pc = "stop", !.cancel = None] /\ call[x] \in CallFields
    BY <1>0, <2>1 DEF Typed
  <2>4. call'[x].pc = "stop" /\ call'[x].cancel = None
    BY <2>3 DEF CallFields
  <2> QED
    BY <2>2, <2>3, <2>4 DEF StopCancels, At
<1>3. mon' = mon /\ ring' = ring /\ sub' = sub
  BY DEF StopCancels
<1>4. TypeOK'
  BY <1>0, <1>1, <1>2, <1>3, TypedOKNext DEF Typed
<1>5. Generations'
  <2>1. mon.running => mon.runGeneration \in Runs
    BY <1>0, MaxRunsNat DEF MonitorInv, Generations, Typed, MonitorFields, Runs
  <2> QED
    BY <1>1, <1>3, <2>1 DEF MonitorInv, Generations, Current
<1>6. OnlyLastReader'
  <2>1. \A r \in Runs : r > mon.runGeneration => ~run'[r].readerCtx
    BY <1>0, <1>1, MaxRunsNat
       DEF MonitorInv, OnlyLastReader, CancelsBegun, Typed, MonitorFields, Runs
  <2> QED
    BY <1>1, <1>3, <2>1 DEF MonitorInv, OnlyLastReader
<1>7. Places'
  BY <1>1, <1>2, <1>3 DEF MonitorInv, Places
<1>8. Cancelable'
  BY <1>1, <1>3 DEF MonitorInv, Cancelable
<1>9. CancelsBegun'
  BY <1>0, <1>2, <1>3 DEF MonitorInv, CancelsBegun, Typed, MonitorFields, None
<1>10. NotCanceled'
  BY <1>1, <1>2, <1>3 DEF MonitorInv, NotCanceled, Current, At
<1>11. NoAbandonedReader'
  BY <1>1, <1>2, <1>3 DEF MonitorInv, NoAbandonedReader, InReader, ReaderCanceled, At
<1>12. Results' /\ Returned'
  BY <1>1 DEF MonitorInv, Results, Returned, ReaderCanceled
<1>13. Recorded'
  <2>1. mon.readerErr => mon.runGeneration \in Runs
    BY <1>0, MaxRunsNat DEF MonitorInv, Recorded, Typed, MonitorFields, Runs
  <2> QED
    BY <1>1, <1>3, <2>1 DEF MonitorInv, Recorded, Current
<1>14. SubscriptionsEndWithRun'
  BY <1>3 DEF MonitorInv, SubscriptionsEndWithRun
<1> QED
  BY <1>4, <1>5, <1>6, <1>7, <1>8, <1>9, <1>10, <1>11, <1>12, <1>13, <1>14 DEF MonitorInv

\* The ring buffer is closed.
LEMMA StopReaderPreserves ==
  ASSUME MonitorInv, NEW x \in Callers \cup Runs, StopReader(x)
  PROVE  MonitorInv'
<1>1. TypeOK'
  <2>0. Typed
    BY TypedOK DEF MonitorInv
  <2>1. call' \in [Callers \cup Runs -> CallFields]
    BY <2>0, ZenonT(30) DEF Typed, CallFields, At, StopReader
  <2> QED
    BY <2>0, <2>1, TypedOKNext DEF Typed, At, StopReader
<1>2. Generations'
  BY DEF MonitorInv, Generations, Current, At, StopReader
<1>3. OnlyLastReader'
  BY DEF MonitorInv, OnlyLastReader, At, StopReader
<1>4. Places'
  BY DEF MonitorInv, TypeOK, Places, At, StopReader
<1>5. Cancelable'
  BY DEF MonitorInv, Cancelable, Begun, At, StopReader
<1>6. CancelsBegun'
  BY DEF MonitorInv, TypeOK, CancelsBegun, At, StopReader
<1>7. NotCanceled'
  BY DEF MonitorInv, TypeOK, NotCanceled, Current, At, Begun, At, StopReader
<1>8. NoAbandonedReader'
  <2>1. \A y \in Callers \cup Runs : At(y, "cancel") => At(y, "cancel")' /\ call'[y].cancel = call[y].cancel
    BY DEF MonitorInv, TypeOK, At, StopReader
  <2>2. mon' = mon /\ run' = run
    BY DEF At, StopReader
  <2> QED
    BY <2>1, <2>2 DEF MonitorInv, NoAbandonedReader, InReader, ReaderCanceled
<1>9. Results'
  BY DEF MonitorInv, Results, ReaderCanceled, At, StopReader
<1>10. Returned'
  BY DEF MonitorInv, Returned, At, StopReader
<1>11. Recorded'
  BY DEF MonitorInv, Recorded, Current, At, StopReader
<1>12. SubscriptionsEndWithRun'
  BY DEF MonitorInv, SubscriptionsEndWithRun, At, StopReader
<1> QED
  BY <1>1, <1>2, <1>3, <1>4, <1>5, <1>6, <1>7, <1>8, <1>9, <1>10, <1>11,
     <1>12 DEF MonitorInv

\* Stop is over.
LEMMA StopReturnsPreserves ==
  ASSUME MonitorInv, NEW x \in Callers \cup Runs, StopReturns(x)
  PROVE  MonitorInv'
<1> USE DEF At, Closed, Fresh, StopReturns
<1>1. Places'
  BY CallersAreNoRuns DEF MonitorInv, Places
<1>2. CancelsBegun'
  BY MaxRunsNat DEF MonitorInv, TypeOK, CancelsBegun, Runs, None, Fresh
<1>3. /\ TypeOK' /\ Generations' /\ OnlyLastReader' /\ Cancelable' /\ NotCanceled'
      /\ NoAbandonedReader' /\ Results' /\ Returned' /\ Recorded'
      /\ SubscriptionsEndWithRun'
  BY DEF MonitorInv, TypeOK, Generations, OnlyLastReader, Cancelable, NotCanceled,
     NoAbandonedReader, Results, Returned, Recorded, SubscriptionsEndWithRun, Current,
     InReader, ReaderCanceled, At, Begun
<1> QED
  BY <1>1, <1>2, <1>3 DEF MonitorInv

\* A subscription is accepted into the run in force, or before the first.
LEMMA SubscribePreserves ==
  ASSUME MonitorInv, NEW s \in Subscribers, NEW before \in BOOLEAN, Subscribe(s, before)
  PROVE  MonitorInv'
<1> USE DEF Refuses, Subscribe
<1>1. SubscriptionsEndWithRun'
  BY DEF MonitorInv, Generations, SubscriptionsEndWithRun
<1>2. /\ TypeOK' /\ Generations' /\ OnlyLastReader' /\ Places' /\ Cancelable'
      /\ CancelsBegun' /\ NotCanceled' /\ NoAbandonedReader' /\ Results' /\ Returned'
      /\ Recorded'
  BY DEF MonitorInv, TypeOK, Generations, OnlyLastReader, Places, Cancelable,
     CancelsBegun,
     NotCanceled, NoAbandonedReader, Results, Returned, Recorded, Current, InReader,
     ReaderCanceled, At, Begun
<1> QED
  BY <1>1, <1>2 DEF MonitorInv

\* A subscription ends.
LEMMA UnsubscribePreserves ==
  ASSUME MonitorInv, NEW s \in Subscribers, Unsubscribe(s)
  PROVE  MonitorInv'
BY DEF MonitorInv, TypeOK, Generations, OnlyLastReader, Places, Cancelable, CancelsBegun,
   NotCanceled, NoAbandonedReader, Results, Returned, Recorded, SubscriptionsEndWithRun,
   Current, InReader, ReaderCanceled, At, Begun, Unsubscribe

-----------------------------------------------------------------------------
\* A monitor that was never started satisfies the invariant.
LEMMA MonitorInitEstablishes == Init => MonitorInv
<1> SUFFICES ASSUME Init
             PROVE  MonitorInv
  OBVIOUS
<1>1. TypeOK
  BY MaxRunsNat DEF Init, TypeOK, Fresh, Runs, None
<1>2. Generations /\ Cancelable /\ CancelsBegun /\ Recorded
  BY DEF Init, Generations, Cancelable, CancelsBegun, Recorded, Runs, None, Fresh, Current
<1>3. OnlyLastReader /\ NotCanceled /\ NoAbandonedReader /\ Results /\ Returned
  BY DEF Init, OnlyLastReader, NotCanceled, NoAbandonedReader, Results, Returned, Begun,
     InReader, Runs
<1>4. Places
  BY CallersAreNoRuns DEF Init, Places, Fresh, Runs
<1>5. SubscriptionsEndWithRun
  BY DEF Init, SubscriptionsEndWithRun
<1> QED
  BY <1>1, <1>2, <1>3, <1>4, <1>5 DEF MonitorInv

\* Stuttering keeps what the invariant is about.
LEMMA MonitorStutterPreserves ==
  ASSUME MonitorInv, UNCHANGED vars
  PROVE  MonitorInv'
BY DEF MonitorInv, TypeOK, Generations, OnlyLastReader, Places, Cancelable, CancelsBegun,
   NotCanceled, NoAbandonedReader, Results, Returned, Recorded, SubscriptionsEndWithRun,
   Current, InReader, ReaderCanceled, At, vars

\* Every step of a goroutine preserves the invariant.
LEMMA MonitorStepPreserves == MonitorInv /\ [Next]_vars => MonitorInv'
<1> SUFFICES ASSUME MonitorInv, [Next]_vars
             PROVE  MonitorInv'
  OBVIOUS
<1>1. ASSUME NEW c \in Callers, StartReturns(c) \/ StartWaits(c) \/ StartRun(c)
      PROVE  MonitorInv'
  BY <1>1, StartReturnsPreserves, StartWaitsPreserves, StartRunPreserves
<1>2. ASSUME NEW x \in Callers \cup Runs, Stop(x) \/ StopStep(x)
      PROVE  MonitorInv'
  BY <1>2, StopPreserves, StopCancelsPreserves, StopReaderPreserves, StopReturnsPreserves
     DEF StopStep
<1>3. ASSUME NEW r \in Runs,
             ReaderStep(r) \/ ReaderReads(r) \/ ReaderFails(r) \/ CancelContext(r)
      PROVE  MonitorInv'
  BY <1>3, ReaderBeginsPreserves, ReaderOpensPreserves, ReaderDeclinesPreserves,
     ReaderReadsPreserves, ReaderEndsPreserves, ReaderFailsPreserves,
     ReaderRecordsPreserves, ReaderClosesPreserves, ReaderDonePreserves,
     CancelContextPreserves
     DEF ReaderStep
<1>4. ASSUME NEW r \in Runs, ProcessorStep(r)
      PROVE  MonitorInv'
  BY <1>2, <1>4, ProcessorStoppedPreserves, ProcessorCanceledPreserves,
     ProcessorReceivesPreserves, ProcessorDeliversPreserves, ProcessorDrainedPreserves,
     ProcessorEndsPreserves
     DEF ProcessorStep
<1>5. ASSUME NEW s \in Subscribers,
             (\E before \in BOOLEAN : Subscribe(s, before)) \/ Unsubscribe(s)
      PROVE  MonitorInv'
  BY <1>5, SubscribePreserves, UnsubscribePreserves
<1>6. CASE UNCHANGED vars
  BY <1>6, MonitorStutterPreserves
<1> QED
  BY <1>1, <1>2, <1>3, <1>4, <1>5, <1>6 DEF Next

\* The inductive invariant of the monitor.
THEOREM MonitorInvariant == Spec => []MonitorInv
BY MonitorInitEstablishes, MonitorStepPreserves, PTL DEF Spec

-----------------------------------------------------------------------------
(* What the invariant says about the monitor.                              *)

\* A reader at work is that of the last run.
LEMMA OneReaderAtWork == MonitorInv => OneReader
<1> SUFFICES ASSUME MonitorInv
             PROVE  OneReader
  OBVIOUS
<1> DEFINE S == {r \in Runs : InReader(r)}
           g == mon.runGeneration
<1>1. S \subseteq {g}
  BY DEF MonitorInv, TypeOK, OnlyLastReader, InReader, Runs
<1>2. IsFiniteSet({g}) /\ Cardinality({g}) = 1
  BY FS_Singleton
<1>3. IsFiniteSet(S) /\ Cardinality(S) <= Cardinality({g})
  BY <1>1, <1>2, FS_Subset
<1>4. Cardinality(S) \in Nat
  BY <1>3, FS_CardinalityType
<1> QED
  BY <1>2, <1>3, <1>4 DEF OneReader

\* However Start, Stop and the end of contexts interleave, at most one goroutine
\* is inside the reader, and one that is there belongs to the run in force or is,
\* or is about to be, canceled; for any number of callers and runs (Monitor.Start,
\* Monitor.Stop).
THEOREM ReadersAreSound == Spec => []ReadersSound
<1>1. MonitorInv => ReadersSound
  BY OneReaderAtWork DEF MonitorInv, ReadersSound
<1> QED
  BY <1>1, MonitorInvariant, PTL

\* Err reports the failure of a reader, and only that: not a canceled context and
\* not an intentional Stop (Monitor.Err, the reader goroutine of Monitor.Start).
THEOREM ErrIsTruthful == Spec => []ErrTruthful
<1>1. MonitorInv => ErrTruthful
  <2> SUFFICES ASSUME MonitorInv
               PROVE  ErrTruthful
    OBVIOUS
  <2>1. mon.readerErr => run[mon.runGeneration].result = "error"
    BY DEF MonitorInv, Recorded
  <2>2. ASSUME NEW r \in Runs, Current(r), mon.started, ~mon.running,
               run[r].result = "error", ~run[r].ctx
        PROVE  mon.readerErr
    <3>1. run[r].reader \notin Begun /\ run[r].reader # "none"
      BY <2>2 DEF MonitorInv, NotCanceled, OnlyLastReader, Current
    <3>2. run[r].reader \in {"recorded", "closed", "done"}
      BY <3>1 DEF MonitorInv, TypeOK, Begun
    <3> QED
      BY <2>2, <3>2 DEF MonitorInv, Recorded
  <2> QED
    BY <2>1, <2>2 DEF ErrTruthful
<1> QED
  BY <1>1, MonitorInvariant, PTL

\* A subscription is closed when its run ends, whoever ends it, and a stopped
\* monitor accepts none (Monitor.subscribe, closeSubscribersLocked).
THEOREM SubscriptionsEnd == Spec => []SubscriptionsEndWithRun
<1>1. MonitorInv => SubscriptionsEndWithRun
  BY DEF MonitorInv
<1> QED
  BY <1>1, MonitorInvariant, PTL
=============================================================================
