----------------------- MODULE SubjectResolverProofs -----------------------
(***************************************************************************)
(* Proofs about SubjectResolver for any Pods, containers, QoS classes and  *)
(* inodes.                                                                 *)
(*                                                                         *)
(* A path determines the cache key it can be kept for, and a container its *)
(* Pod.  So what a build has collected is always backed by the cache: a    *)
(* later step of the build changes the entry of a container that is still  *)
(* to be looked at, and neither the Pods already finished nor the          *)
(* containers already handled have an entry under that key.                *)
(***************************************************************************)
EXTENDS SubjectResolver, FiniteSetTheorems, TLAPS

(***************************************************************************)
(* The inductive invariant.                                                *)
(***************************************************************************)
Busy == {"check", "find", "find2", "stat"}

\* The cache key under which a path can be kept.
KeyOf(x) == <<x[2], x[3]>>

\* Path x at inode i is what the cache has for it.
Backed(i, x) ==
    /\ KeyOf(x) \in DOMAIN cache
    /\ cache[KeyOf(x)].inode = i /\ cache[KeyOf(x)].path = x

\* The Pods of which the build has finished the containers.
Finished == IF pc \in Busy THEN DOMAIN failures \ {pod} ELSE DOMAIN failures

\* Types that TypeOK leaves out.
HistoryTyped ==
    /\ lastOut \in [Keys -> Nat] /\ firstIn \in [Keys -> Nat]
    /\ \A i \in DOMAIN podCgroups : podCgroups[i] \in Paths
    /\ \A i \in DOMAIN paths : paths[i] \in Paths

\* What the build's variables hold in each of its phases.
Phases ==
    /\ pc = "idle" => /\ DOMAIN failures = {} /\ DOMAIN paths = {}
                      /\ active = {} /\ missing = 0 /\ moves = 0
    /\ pc \in {"idle", "pods"} => todo = {} /\ DOMAIN podCgroups = {}
    /\ pc \in Busy => pod \in DOMAIN failures /\ todo \subseteq view[pod].running
    /\ pc \in {"find", "find2", "stat"} => todo # {}
    /\ pc = "stat" => found \in Layouts \X {Min(todo)} \X {view[pod].qos}

\* The containers of the Pods taken so far are the active ones.
ActiveTaken ==
    /\ \A p \in DOMAIN failures : \A c \in view[p].running : <<c, view[p].qos>> \in active
    /\ \A k \in active : /\ OwnerOf[k[1]] \in DOMAIN failures
                         /\ k[1] \in view[OwnerOf[k[1]]].running
                         /\ k[2] = view[OwnerOf[k[1]]].qos
    /\ active \subseteq DOMAIN observed

\* What the build has collected was there during the build.
CollectedLive ==
    /\ pc # "idle" => Existing(scope) \subseteq seen
    /\ \A i \in DOMAIN podCgroups : <<podCgroups[i], i>> \in seen
    /\ \A i \in DOMAIN paths : <<paths[i], i>> \in seen

\* What the build has collected is backed by the cache.
CollectedBacked ==
    /\ \A i \in DOMAIN podCgroups :
          /\ Backed(i, podCgroups[i])
          /\ podCgroups[i][2] \in view[pod].running \ todo
          /\ podCgroups[i][3] = view[pod].qos
    /\ \A i \in DOMAIN paths :
          /\ Backed(i, paths[i])
          /\ OwnerOf[paths[i][2]] \in Finished
          /\ paths[i][2] \in view[OwnerOf[paths[i][2]]].running
          /\ paths[i][3] = view[OwnerOf[paths[i][2]]].qos

\* A container of a finished Pod is collected, or something is missing.
MissingCounted ==
    \A p \in Finished : \A c \in view[p].running :
       (\E i \in DOMAIN paths : paths[i][2] = c) \/ missing > 0

\* A container that was looked at is collected, has made its Pod fail, or
\* lost its inode during the build.
FailureNoted ==
    /\ pc \in Busy =>
         \A c \in view[pod].running \ todo :
            \/ \E i \in DOMAIN podCgroups : podCgroups[i][2] = c
            \/ failures[pod] # "none"
            \/ InodeReused(c)
    /\ \A p \in Finished : \A c \in view[p].running :
          \/ \E i \in DOMAIN paths : paths[i][2] = c
          \/ failures[p] # "none"
          \/ InodeReused(c)

\* The recorded first sights and the history of published builds.
SightsOrdered ==
    /\ \A k \in DOMAIN observed : lastOut[k] < observed[k] /\ observed[k] <= builds
    /\ \A k \in Keys : lastOut[k] <= builds /\ (pc # "idle" => lastOut[k] < builds)
    /\ \A k \in Keys : firstIn[k] # 0 => k \in DOMAIN observed /\ observed[k] <= firstIn[k]
    /\ pc # "idle" => builds > 0

ResolverInv ==
    /\ PublishedConsistent /\ HistoryTyped /\ Phases /\ ActiveTaken /\ CollectedLive
    /\ CollectedBacked /\ MissingCounted /\ FailureNoted /\ SightsOrdered


(***************************************************************************)
(* Lemmas.                                                                 *)
(***************************************************************************)
\* A set of numbers that is not empty has a least element, and Min is it.
LEMMA MinInSet ==
  ASSUME NEW S \in SUBSET Nat, S # {}
  PROVE  Min(S) \in S
<1> DEFINE R == {ss \in Nat \X Nat : ss[1] < ss[2]}
<1>1. IsWellFoundedOn(R, Nat)
  BY NatLessThanWellFounded DEF OpToRel
<1> HIDE DEF R
<1>2. PICK x \in S : \A y \in S : ~(<<y, x>> \in R)
  <2>1. IsWellFoundedOn(R, S)
    BY <1>1, IsWellFoundedOnSubset
  <2> QED BY <2>1, WFMin
<1>3. \A y \in S : x <= y
  <2> TAKE y \in S
  <2>1. x \in Nat /\ y \in Nat
    OBVIOUS
  <2>2. ~(y < x)
    BY <1>2, <2>1 DEF R
  <2> QED BY <2>1, <2>2
<1> QED BY <1>3 DEF Min

\* What every Pod of a view is like.
LEMMA ViewFacts ==
  ASSUME NEW v \in Views, NEW p \in Pods
  PROVE  /\ v[p].qos \in QoS /\ v[p].running \subseteq Containers
         /\ \A c \in v[p].running : OwnerOf[c] = p
         /\ v[p].kind # "local" => v[p].running = {}
<1>1. v[p] \in PodViews
  BY DEF Views
<1> QED BY <1>1 DEF Views, PodViews

\* The view of no build.
LEMMA NoViewTyped == NoView \in Views /\ AnyPod \in Pods
<1>1. (CHOOSE q \in QoS : TRUE) \in QoS /\ AnyPod \in Pods
  BY ResolverAssumption DEF AnyPod
<1>2. \A p \in Pods : NoView[p] \in PodViews /\ NoView[p].running = {}
  BY <1>1 DEF NoView, PodViews
<1>3. NoView \in [Pods -> PodViews]
  BY <1>2 DEF NoView
<1> QED BY <1>1, <1>2, <1>3 DEF Views


(***************************************************************************)
(* The outcomes of the file-system calls, one formula each: c is the       *)
(* container that is looked at.                                            *)
(***************************************************************************)
SameRest ==
    UNCHANGED <<scope, observed, cgroupPath, identities, unresolved, view, pod, paths,
                active, missing, builds, moves, seen, lastOut, firstIn>>

\* What AddCgroup(i, x) does to the cgroups of the Pod.
Added(i, x) ==
    /\ DOMAIN podCgroups' = DOMAIN podCgroups \cup {i}
    /\ \A j \in DOMAIN podCgroups : podCgroups'[j] = podCgroups[j]
    /\ i \notin DOMAIN podCgroups => podCgroups'[i] = x

\* What NotFound does to the failures.
Failed ==
    /\ DOMAIN failures' = DOMAIN failures
    /\ \A p \in DOMAIN failures : p # pod => failures'[p] = failures[p]
    /\ failures'[pod] \in Failures \ {"none"}

CacheHit(c) ==
    /\ pc = "check" /\ c \in todo /\ todo' = todo \ {c} /\ pc' = "check"
    /\ Key(c) \in DOMAIN cache
    /\ cache[Key(c)].path \in DOMAIN scope
    /\ scope[cache[Key(c)].path] = cache[Key(c)].inode
    /\ Added(cache[Key(c)].inode, cache[Key(c)].path)
    /\ UNCHANGED <<cache, found, failures>> /\ SameRest

CacheMiss(c) ==
    /\ pc = "check" /\ c \in todo /\ todo' = todo /\ pc' = "find"
    /\ DOMAIN cache' = DOMAIN cache \ {Key(c)}
    /\ \A k \in DOMAIN cache' : cache'[k] = cache[k]
    /\ UNCHANGED <<podCgroups, found, failures>> /\ SameRest

ScopeLocated(c) ==
    /\ pc \in {"find", "find2"} /\ c = Min(todo) /\ c \in todo /\ pc' = "stat"
    /\ found' \in Layouts \X {c} \X {view[pod].qos}
    /\ UNCHANGED <<cache, podCgroups, failures, todo>> /\ SameRest

LayoutMissed ==
    /\ pc = "find" /\ pc' = "find2"
    /\ UNCHANGED <<cache, podCgroups, found, failures, todo>> /\ SameRest

ContainerLost(c) ==
    /\ pc \in {"find2", "stat"} /\ c \in todo /\ todo' = todo \ {c} /\ pc' = "check"
    /\ Failed
    /\ UNCHANGED <<cache, podCgroups>> /\ SameRest

ContainerResolved(c) ==
    /\ pc = "stat" /\ c \in todo /\ todo' = todo \ {c} /\ pc' = "check"
    /\ found \in DOMAIN scope /\ found \in Layouts \X {c} \X {view[pod].qos}
    /\ DOMAIN cache' = DOMAIN cache \cup {Key(c)}
    /\ \A k \in DOMAIN cache : k # Key(c) => cache'[k] = cache[k]
    /\ cache'[Key(c)].path = found /\ cache'[Key(c)].inode = scope[found]
    /\ Added(scope[found], found)
    /\ UNCHANGED failures /\ SameRest

PodFinished ==
    /\ pc = "check" /\ todo = {} /\ pc' = "pods" /\ ~Conflicts
    /\ missing' = missing + (IF RunningCount > Cardinality(DOMAIN podCgroups)
                             THEN RunningCount - Cardinality(DOMAIN podCgroups) ELSE 0)
    /\ DOMAIN paths' = DOMAIN paths \cup DOMAIN podCgroups
    /\ \A i \in DOMAIN podCgroups : paths'[i] = podCgroups[i]
    /\ \A i \in DOMAIN paths : paths'[i] = paths[i]
    /\ DOMAIN podCgroups' = {}
    /\ UNCHANGED <<scope, cache, observed, cgroupPath, identities, unresolved, view, pod,
                   todo, found, failures, active, moves, seen, builds, lastOut, firstIn>>

PodTaken(p) ==
    /\ pc = "pods" /\ p \in Pods \ DOMAIN failures
    /\ pod' = p /\ todo' = view[p].running /\ DOMAIN podCgroups' = {}
    /\ DOMAIN failures' = DOMAIN failures \cup {p}
    /\ \A q \in DOMAIN failures : failures'[q] = failures[q]
    /\ failures'[p] \in Failures
    /\ active' = active \cup {<<c, view[p].qos>> : c \in view[p].running}
    /\ DOMAIN observed' = DOMAIN observed \cup {<<c, view[p].qos>> : c \in view[p].running}
    /\ \A k \in DOMAIN observed : observed'[k] = observed[k]
    /\ \A k \in DOMAIN observed' \ DOMAIN observed : observed'[k] = builds
    /\ pc' = IF view[p].kind = "local" THEN "check" ELSE "pods"
    /\ UNCHANGED <<scope, cache, cgroupPath, identities, unresolved, view, found, paths,
                   missing, builds, moves, seen, lastOut, firstIn>>

ScopesMove ==
    /\ DOMAIN scope' \subseteq Paths /\ Range(scope') \subseteq Inodes
    /\ \/ pc = "idle" /\ UNCHANGED <<moves, seen>>
       \/ pc # "idle" /\ moves' \in 0 .. MaxMoves /\ seen' = seen \cup Existing(scope')
    /\ UNCHANGED <<cache, observed, cgroupPath, identities, unresolved, view, pc, pod,
                   todo,
                   found, podCgroups, failures, paths, active, missing, builds, lastOut, firstIn>>

BuildPublished ==
    /\ pc = "pods" /\ DOMAIN failures = Pods
    /\ DOMAIN identities' = DOMAIN paths /\ cgroupPath' = paths
    /\ \A i \in DOMAIN paths : /\ identities'[i].path = paths[i]
                               /\ identities'[i].container = paths[i][2]
    /\ DOMAIN cache' = Kept /\ \A k \in Kept : cache'[k] = cache[k]
    /\ DOMAIN observed' = active /\ \A k \in active : observed'[k] = observed[k]
    /\ unresolved' = missing
    /\ lastOut' = [k \in Keys |-> IF k \in active THEN lastOut[k] ELSE builds]
    /\ firstIn' = [k \in Keys |-> IF k \notin active THEN 0
                                  ELSE IF firstIn[k] = 0 THEN builds ELSE firstIn[k]]
    /\ Return /\ UNCHANGED <<scope, builds>>

BuildRefused == pc = "check" /\ Return /\ UNCHANGED <<scope, resolver, builds, sights>>


\* The numbers the histories hold.
LEMMA SightsTyped ==
  ASSUME ResolverInv
  PROVE  /\ builds \in Nat
         /\ \A k \in Keys : lastOut[k] \in Nat /\ firstIn[k] \in Nat
         /\ \A k \in DOMAIN observed :
               k \in Keys /\ observed[k] \in 1 .. MaxBuilds /\ observed[k] \in Nat
<1>1. \A k \in DOMAIN observed : observed[k] \in 1 .. MaxBuilds
  BY DEF ResolverInv, PublishedConsistent, TypeOK, Range
<1>2. builds \in Nat /\ DOMAIN observed \subseteq Keys
  BY ResolverAssumption DEF ResolverInv, PublishedConsistent, TypeOK
<1> QED BY <1>1, <1>2, ResolverAssumption DEF ResolverInv, HistoryTyped

\* A new build is later than every build a container was out of.
LEMMA StartSights ==
  ASSUME ResolverInv, Start
  PROVE  SightsOrdered'
<1>1. builds' = builds + 1 /\ UNCHANGED <<observed, lastOut, firstIn>> /\ pc = "idle"
  BY DEF Start, resolver, sights
<1> QED BY <1>1, SightsTyped DEF ResolverInv, SightsOrdered

\* What is seen for the first time is seen in this build.
LEMMA PodTakenSights ==
  ASSUME ResolverInv, NEW p, PodTaken(p)
  PROVE  SightsOrdered'
<1> DEFINE new == {<<c, view[p].qos>> : c \in view[p].running}
<1>1. new \subseteq Keys
  BY ViewFacts DEF PodTaken, ResolverInv, PublishedConsistent, TypeOK, Keys
<1>2. /\ DOMAIN observed' = DOMAIN observed \cup new
      /\ \A k \in DOMAIN observed : observed'[k] = observed[k]
      /\ \A k \in DOMAIN observed' \ DOMAIN observed : observed'[k] = builds
      /\ UNCHANGED <<lastOut, firstIn, builds>> /\ pc = "pods" /\ pc' # "idle"
  BY DEF PodTaken
<1> HIDE DEF new
<1> QED BY <1>1, <1>2, SightsTyped DEF ResolverInv, SightsOrdered

\* A cgroup that existed during the build is added for container c: either it
\* is collected, or its inode was another scope's in this build.
LEMMA AddedNoted ==
  ASSUME ResolverInv, NEW c, NEW i, NEW x, <<x, i>> \in seen, x[2] = c, Added(i, x),
         pc \in Busy, pc' = "check", todo' = todo \ {c},
         UNCHANGED <<view, pod, failures, paths, seen>>
  PROVE  FailureNoted'
<1>1. \/ \E j \in DOMAIN podCgroups' : podCgroups'[j][2] = c
      \/ InodeReused(c)
  <2>1. CASE i \notin DOMAIN podCgroups
    BY <2>1 DEF Added
  <2>2. CASE i \in DOMAIN podCgroups /\ podCgroups[i] = x
    BY <2>2 DEF Added
  <2>3. CASE i \in DOMAIN podCgroups /\ podCgroups[i] # x
    <3>1. <<podCgroups[i], i>> \in seen
      BY <2>3 DEF ResolverInv, CollectedLive
    <3> DEFINE a == <<x, i>>
               b == <<podCgroups[i], i>>
    <3>2. a[1][2] = c /\ a[1] # b[1] /\ a[2] = b[2]
      BY <2>3
    <3> QED BY <3>1, <3>2 DEF InodeReused
  <2> QED BY <2>1, <2>2, <2>3
<1>2. /\ \A j \in DOMAIN podCgroups : j \in DOMAIN podCgroups' /\ podCgroups'[j] = podCgroups[j]
      /\ view[pod].running \ todo' \subseteq (view[pod].running \ todo) \cup {c}
  BY DEF Added
<1>3. \A d : InodeReused(d)' <=> InodeReused(d)
  BY DEF InodeReused
<1>4. \A d \in view[pod].running \ todo' :
            \/ \E j \in DOMAIN podCgroups' : podCgroups'[j][2] = d
            \/ failures[pod] # "none"
            \/ InodeReused(d)
  BY <1>1, <1>2 DEF ResolverInv, FailureNoted
<1> QED BY <1>2, <1>3, <1>4 DEF ResolverInv, FailureNoted, Finished, Busy

\* A cached cgroup whose inode is unchanged existed when it was checked.
LEMMA CacheHitNoted ==
  ASSUME ResolverInv, NEW c, CacheHit(c)
  PROVE  FailureNoted'
<1>1. <<cache[Key(c)].path, cache[Key(c)].inode>> \in seen /\ cache[Key(c)].path[2] = c
  BY DEF CacheHit, ResolverInv, CollectedLive, Existing, PublishedConsistent, TypeOK, Key
<1> QED BY <1>1, AddedNoted DEF CacheHit, SameRest, Busy

\* A found cgroup existed when its inode was read.
LEMMA ContainerResolvedNoted ==
  ASSUME ResolverInv, NEW c, ContainerResolved(c)
  PROVE  FailureNoted'
<1>1. <<found, scope[found]>> \in seen /\ found[2] = c
  BY DEF ContainerResolved, ResolverInv, CollectedLive, Existing, Layouts
<1> QED BY <1>1, AddedNoted DEF ContainerResolved, SameRest, Busy

\* The new cache entry is the container's own.
LEMMA ContainerResolvedTyped ==
  ASSUME ResolverInv, NEW c, ContainerResolved(c)
  PROVE  TypeOK'
<1>1. /\ scope[found] \in Inodes /\ found \in Paths
      /\ Key(c) \in Keys /\ Key(c)[1] = c /\ Key(c)[2] = view[pod].qos
  <2>1. view[pod].qos \in QoS /\ c \in Containers
    BY ViewFacts DEF ContainerResolved, ResolverInv, PublishedConsistent, TypeOK
  <2> QED BY <2>1 DEF ContainerResolved, ResolverInv, PublishedConsistent, TypeOK, Range,
     Key, Keys, Paths, Layouts
<1>2. /\ DOMAIN cache' \subseteq Keys
      /\ \A k \in DOMAIN cache' : /\ cache'[k].path \in Layouts \X {k[1]} \X {k[2]}
                                  /\ cache'[k].inode \in Inodes
  BY <1>1 DEF ContainerResolved, ResolverInv, PublishedConsistent, TypeOK
<1>3. DOMAIN podCgroups' \subseteq Inodes
  BY <1>1 DEF ContainerResolved, Added, ResolverInv, PublishedConsistent, TypeOK
<1> QED BY <1>2, <1>3
   DEF ContainerResolved, SameRest, ResolverInv, PublishedConsistent, TypeOK

\* What a Pod has collected is finite, and each of its containers has at most
\* one cgroup of it: without a container's, the cgroups are fewer.
LEMMA PodCgroupsCounted ==
  ASSUME ResolverInv, pc = "check"
  PROVE  /\ IsFiniteSet(view[pod].running) /\ Cardinality(view[pod].running) \in Nat
         /\ Cardinality(DOMAIN podCgroups) \in Nat
         /\ \A c \in view[pod].running :
               (\A i \in DOMAIN podCgroups : podCgroups[i][2] # c) =>
                  Cardinality(DOMAIN podCgroups) < Cardinality(view[pod].running)
<1> DEFINE run == view[pod].running
           f == [i \in DOMAIN podCgroups |-> podCgroups[i][2]]
<1>1. IsFiniteSet(run) /\ Cardinality(run) \in Nat
  <2>1. run \subseteq Containers /\ IsFiniteSet(Containers)
    BY ViewFacts, ResolverAssumption DEF ResolverInv, PublishedConsistent, TypeOK
  <2>2. IsFiniteSet(run)
    BY <2>1, FS_Subset
  <2> QED BY <2>2, FS_CardinalityType
<1>2. \A i \in DOMAIN podCgroups : f[i] \in run
  BY DEF ResolverInv, CollectedBacked
<1>3. \A i, j \in DOMAIN podCgroups : f[i] = f[j] => i = j
  <2> TAKE i, j \in DOMAIN podCgroups
  <2>1. /\ Backed(i, podCgroups[i]) /\ Backed(j, podCgroups[j])
        /\ podCgroups[i][3] = podCgroups[j][3]
    BY DEF ResolverInv, CollectedBacked
  <2>2. podCgroups[i][2] = podCgroups[j][2] => KeyOf(podCgroups[i]) = KeyOf(podCgroups[j])
    BY <2>1 DEF KeyOf
  <2> HIDE DEF f
  <2>3. f[i] = podCgroups[i][2] /\ f[j] = podCgroups[j][2]
    BY DEF f
  <2> QED BY <2>1, <2>2, <2>3 DEF Backed
<1> HIDE DEF f
<1>4. f \in [DOMAIN podCgroups -> run]
  BY <1>2 DEF f
<1>5. f \in Injection(DOMAIN podCgroups, run)
  BY <1>3, <1>4 DEF Injection, IsInjective
<1>6. Cardinality(DOMAIN podCgroups) \in Nat
  <2>1. IsFiniteSet(DOMAIN podCgroups)
    BY <1>1, <1>5, FS_Injection
  <2> QED BY <2>1, FS_CardinalityType
<1>7. ASSUME NEW c \in run, \A i \in DOMAIN podCgroups : podCgroups[i][2] # c
      PROVE  Cardinality(DOMAIN podCgroups) < Cardinality(run)
  <2>1. IsFiniteSet(run \ {c}) /\ Cardinality(run \ {c}) = Cardinality(run) - 1
    BY <1>1, <1>7, FS_RemoveElement
  <2>2. f \in [DOMAIN podCgroups -> run \ {c}]
    BY <1>4, <1>7 DEF f
  <2>3. f \in Injection(DOMAIN podCgroups, run \ {c})
    BY <1>3, <2>2 DEF Injection, IsInjective
  <2>4. Cardinality(DOMAIN podCgroups) <= Cardinality(run \ {c})
    BY <2>1, <2>3, FS_Injection
  <2> QED BY <1>1, <1>6, <2>1, <2>4
<1> QED BY <1>1, <1>6, <1>7

\* The count of missing cgroups stays a number.
LEMMA PodFinishedTyped ==
  ASSUME ResolverInv, PodFinished
  PROVE  TypeOK'
<1>1. missing' \in Nat
  <2>1. RunningCount \in Nat
    BY PodCgroupsCounted DEF RunningCount, PodFinished
  <2> QED BY <2>1, PodCgroupsCounted
     DEF PodFinished, ResolverInv, PublishedConsistent, TypeOK
<1> QED BY <1>1 DEF PodFinished, ResolverInv, PublishedConsistent, TypeOK

\* The cgroups of the finished Pod are backed by the cache, as they were.
LEMMA PodFinishedBacked ==
  ASSUME ResolverInv, PodFinished
  PROVE  CollectedBacked'
<1>1. Finished' = Finished \cup {pod} /\ pod \in Pods
  BY DEF PodFinished, ResolverInv, Finished, Phases, Busy, PublishedConsistent, TypeOK
<1>2. \A i \in DOMAIN podCgroups :
        /\ podCgroups[i][2] \in view[pod].running /\ OwnerOf[podCgroups[i][2]] = pod
        /\ podCgroups[i][3] = view[pod].qos /\ Backed(i, podCgroups[i])
  BY <1>1, ViewFacts DEF ResolverInv, CollectedBacked, PublishedConsistent, TypeOK
<1>3. \A i, x : Backed(i, x)' <=> Backed(i, x)
  BY DEF PodFinished, Backed
<1>4. \A i \in DOMAIN paths' :
        \/ i \in DOMAIN podCgroups /\ paths'[i] = podCgroups[i]
        \/ i \in DOMAIN paths /\ paths'[i] = paths[i]
  BY DEF PodFinished
<1>5. DOMAIN podCgroups' = {} /\ UNCHANGED view
  BY DEF PodFinished
<1>6. ASSUME NEW i \in DOMAIN paths'
      PROVE  /\ Backed(i, paths'[i])
             /\ OwnerOf[paths'[i][2]] \in Finished'
             /\ paths'[i][2] \in view[OwnerOf[paths'[i][2]]].running
             /\ paths'[i][3] = view[OwnerOf[paths'[i][2]]].qos
  <2>1. CASE i \in DOMAIN podCgroups /\ paths'[i] = podCgroups[i]
    BY <2>1, <1>1, <1>2
  <2>2. CASE i \in DOMAIN paths /\ paths'[i] = paths[i]
    BY <2>2, <1>1 DEF ResolverInv, CollectedBacked
  <2> QED BY <2>1, <2>2, <1>4
<1> QED BY <1>3, <1>5, <1>6 DEF CollectedBacked

\* A container without a cgroup makes the count of missing cgroups grow.
LEMMA PodFinishedMissing ==
  ASSUME ResolverInv, PodFinished
  PROVE  MissingCounted'
<1>1. Finished' = Finished \cup {pod} /\ UNCHANGED view
  BY DEF PodFinished, ResolverInv, Finished, Phases, Busy
<1>2. missing \in Nat /\ RunningCount \in Nat /\ RunningCount >= Cardinality(view[pod].running)
  BY PodCgroupsCounted
     DEF RunningCount, PodFinished, ResolverInv, PublishedConsistent, TypeOK
<1>3. missing' >= missing /\ missing' \in Nat
  BY <1>2, PodCgroupsCounted DEF PodFinished
<1>4. ASSUME NEW c \in view[pod].running
      PROVE  (\E i \in DOMAIN paths' : paths'[i][2] = c) \/ missing' > 0
  <2>1. CASE \E i \in DOMAIN podCgroups : podCgroups[i][2] = c
    BY <2>1 DEF PodFinished
  <2>2. CASE \A i \in DOMAIN podCgroups : podCgroups[i][2] # c
    <3>1. Cardinality(DOMAIN podCgroups) < Cardinality(view[pod].running)
      BY <2>2, PodCgroupsCounted DEF PodFinished
    <3> QED BY <3>1, <1>2, PodCgroupsCounted DEF PodFinished
  <2> QED BY <2>1, <2>2
<1>5. \A p \in Finished : \A c \in view[p].running :
        (\E i \in DOMAIN paths' : paths'[i][2] = c) \/ missing' > 0
  BY <1>2, <1>3 DEF ResolverInv, MissingCounted, PodFinished
<1> QED BY <1>1, <1>4, <1>5 DEF MissingCounted

\* Two inodes never share a path: the cache has one inode for it.
LEMMA BuildPublishedPaths ==
  ASSUME ResolverInv, BuildPublished
  PROVE  PathsMatchIdentities'
<1>1. \A i, j \in DOMAIN paths : paths[i] = paths[j] => i = j
  BY DEF ResolverInv, CollectedBacked, Backed
<1> QED BY <1>1 DEF BuildPublished, PathsMatchIdentities

\* What is published has its types.
LEMMA BuildPublishedTyped ==
  ASSUME ResolverInv, BuildPublished
  PROVE  TypeOK'
<1>1. \A i \in DOMAIN paths : i \in Inodes /\ paths[i] \in Paths
  BY DEF ResolverInv, HistoryTyped, PublishedConsistent, TypeOK
<1>2. Kept \subseteq DOMAIN cache
  BY DEF Kept
<1>3. /\ DOMAIN cgroupPath' \subseteq Inodes /\ Range(cgroupPath)' \subseteq Paths
      /\ \A i \in DOMAIN identities' : identities'[i].path[2] = identities'[i].container
  BY <1>1 DEF BuildPublished, Range
<1>4. /\ DOMAIN cache' \subseteq Keys
      /\ \A k \in DOMAIN cache' : /\ cache'[k].path \in Layouts \X {k[1]} \X {k[2]}
                                  /\ cache'[k].inode \in Inodes
  BY <1>2 DEF BuildPublished, ResolverInv, PublishedConsistent, TypeOK
<1>5. DOMAIN observed' \subseteq Keys /\ Range(observed)' \subseteq 1 .. MaxBuilds
  <2>1. \A k \in active : k \in DOMAIN observed
    BY DEF ResolverInv, ActiveTaken
  <2> QED BY <2>1, SightsTyped DEF BuildPublished, Range
<1>6. /\ view' \in Views /\ pod' \in Pods /\ todo' \subseteq Containers /\ pc' = "idle"
      /\ DOMAIN failures' \subseteq Pods /\ Range(failures)' \subseteq Failures
      /\ DOMAIN podCgroups' \subseteq Inodes /\ DOMAIN paths' \subseteq Inodes
      /\ active' \subseteq Keys /\ missing' \in Nat /\ moves' = 0
  BY NoViewTyped DEF BuildPublished, Return, Empty, Range
<1>7. unresolved' \in Nat /\ UNCHANGED <<scope, builds>> /\ 0 \in 0 .. MaxMoves
  BY ResolverAssumption DEF BuildPublished, ResolverInv, PublishedConsistent, TypeOK
<1> QED BY <1>3, <1>4, <1>5, <1>6, <1>7 DEF ResolverInv, PublishedConsistent, TypeOK


\* A scope comes or goes: of the build only what it has seen changes.
LEMMA ScopesMovePreserves ==
  ASSUME ResolverInv, ScopesMove
  PROVE  ResolverInv'
<1>1. TypeOK'
  BY DEF ScopesMove, ResolverInv, PublishedConsistent, TypeOK
<1>2. PathsMatchIdentities'
  BY DEF ScopesMove, ResolverInv, PublishedConsistent, PathsMatchIdentities
<1>3. HistoryTyped'
  BY DEF ScopesMove, ResolverInv, HistoryTyped
<1>4. Phases'
  BY DEF ScopesMove, ResolverInv, Phases
<1>5. ActiveTaken'
  BY DEF ScopesMove, ResolverInv, PublishedConsistent, ActiveTaken
<1>6. CollectedLive'
  BY DEF ScopesMove, ResolverInv, CollectedLive
<1>7. CollectedBacked'
  BY DEF ScopesMove, ResolverInv, CollectedBacked, Backed, Finished
<1>8. MissingCounted'
  BY DEF ScopesMove, ResolverInv, MissingCounted, Finished
<1>9. FailureNoted'
  BY DEF ScopesMove, ResolverInv, FailureNoted, Finished, InodeReused
<1>10. SightsOrdered'
  BY DEF ScopesMove, ResolverInv, SightsOrdered
<1> QED BY <1>1, <1>2, <1>3, <1>4, <1>5, <1>6, <1>7, <1>8, <1>9, <1>10
   DEF ResolverInv, PublishedConsistent

\* A new build has nothing taken, collected or missing yet.
LEMMA StartPreserves ==
  ASSUME ResolverInv, Start
  PROVE  ResolverInv'
<1>1. TypeOK'
  BY ResolverAssumption, ShownAssumption
     DEF Start, resolver, ResolverInv, PublishedConsistent, TypeOK
<1>2. PathsMatchIdentities'
  BY DEF Start, resolver, ResolverInv, PublishedConsistent, PathsMatchIdentities
<1>3. HistoryTyped'
  BY DEF Start, sights, ResolverInv, HistoryTyped
<1>4. Phases'
  BY DEF Start, resolver, sights, ResolverInv, Phases, Busy
<1>5. ActiveTaken'
  BY DEF Start, ResolverInv, Phases, ActiveTaken
<1>6. CollectedLive'
  BY DEF Start, ResolverInv, Phases, CollectedLive
<1>7. CollectedBacked'
  BY DEF Start, ResolverInv, Phases, CollectedBacked
<1>8. MissingCounted'
  BY DEF Start, ResolverInv, HistoryTyped, Phases, MissingCounted, Finished
<1>9. FailureNoted'
  BY DEF Start, ResolverInv, TypeOK, HistoryTyped, Phases, Busy, FailureNoted, Finished
<1>10. SightsOrdered'
  BY StartSights
<1> QED BY <1>1, <1>2, <1>3, <1>4, <1>5, <1>6, <1>7, <1>8, <1>9, <1>10
   DEF ResolverInv, PublishedConsistent

\* A Pod is taken: its containers become active, and those never observed
\* are first seen in this build.
LEMMA PodTakenPreserves ==
  ASSUME ResolverInv, NEW p, PodTaken(p)
  PROVE  ResolverInv'
<1>1. TypeOK'
  BY ViewFacts
     DEF PodTaken, ResolverInv, PublishedConsistent, TypeOK, SightsOrdered, Range,
     Keys
<1>2. PathsMatchIdentities'
  BY DEF PodTaken, ResolverInv, PublishedConsistent, PathsMatchIdentities
<1>3. HistoryTyped'
  BY DEF PodTaken, ResolverInv, HistoryTyped
<1>4. Phases'
  BY ViewFacts DEF PodTaken, ResolverInv, PublishedConsistent, TypeOK, Phases
<1>5. ActiveTaken'
  BY ViewFacts DEF PodTaken, ResolverInv, PublishedConsistent, TypeOK, ActiveTaken
<1>6. CollectedLive'
  BY DEF PodTaken, ResolverInv, CollectedLive
<1>7. CollectedBacked'
  BY DEF PodTaken, ResolverInv, CollectedBacked, Backed, Finished
<1>8. MissingCounted'
  BY ViewFacts
     DEF PodTaken, ResolverInv, PublishedConsistent, TypeOK, Busy, MissingCounted,
     Finished
<1>9. FailureNoted'
  BY ViewFacts DEF PodTaken, ResolverInv, PublishedConsistent, TypeOK, HistoryTyped, Busy,
     FailureNoted, Finished, InodeReused
<1>10. SightsOrdered'
  BY PodTakenSights
<1> QED BY <1>1, <1>2, <1>3, <1>4, <1>5, <1>6, <1>7, <1>8, <1>9, <1>10
   DEF ResolverInv, PublishedConsistent

\* A cached path that still has its inode is collected.
LEMMA CacheHitPreserves ==
  ASSUME ResolverInv, NEW c, CacheHit(c)
  PROVE  ResolverInv'
<1>1. TypeOK'
  BY DEF CacheHit, SameRest, Added, ResolverInv, PublishedConsistent, TypeOK
<1>2. PathsMatchIdentities'
  BY DEF CacheHit, SameRest, ResolverInv, PublishedConsistent, PathsMatchIdentities
<1>3. HistoryTyped'
  BY DEF CacheHit, SameRest, Added, ResolverInv, PublishedConsistent, TypeOK, HistoryTyped
<1>4. Phases'
  BY DEF CacheHit, SameRest, ResolverInv, Phases
<1>5. ActiveTaken'
  BY DEF CacheHit, SameRest, Added, Key, ResolverInv, ActiveTaken
<1>6. CollectedLive'
  BY DEF CacheHit, SameRest, Added, ResolverInv, CollectedLive, Existing
<1>7. CollectedBacked'
  BY DEF CacheHit, SameRest, Added, Key, ResolverInv, PublishedConsistent, TypeOK, Phases,
     Busy, CollectedBacked, Backed, KeyOf, Finished
<1>8. MissingCounted'
  BY DEF CacheHit, SameRest, ResolverInv, MissingCounted, Finished
<1>9. FailureNoted'
  BY CacheHitNoted
<1>10. SightsOrdered'
  BY DEF CacheHit, SameRest, ResolverInv, SightsOrdered
<1> QED BY <1>1, <1>2, <1>3, <1>4, <1>5, <1>6, <1>7, <1>8, <1>9, <1>10
   DEF ResolverInv, PublishedConsistent

\* A stale entry is dropped: no path collected so far has its key.
LEMMA CacheMissPreserves ==
  ASSUME ResolverInv, NEW c, CacheMiss(c)
  PROVE  ResolverInv'
<1>1. TypeOK'
  BY DEF CacheMiss, SameRest, ResolverInv, PublishedConsistent, TypeOK, Range, Keys
<1>2. PathsMatchIdentities'
  BY DEF CacheMiss, SameRest, ResolverInv, PublishedConsistent, PathsMatchIdentities
<1>3. HistoryTyped'
  BY DEF CacheMiss, SameRest, ResolverInv, HistoryTyped
<1>4. Phases'
  BY DEF CacheMiss, SameRest, ResolverInv, Phases, Busy
<1>5. ActiveTaken'
  BY DEF CacheMiss, SameRest, ResolverInv, ActiveTaken
<1>6. CollectedLive'
  BY DEF CacheMiss, SameRest, ResolverInv, CollectedLive, Existing
<1>7. CollectedBacked'
  BY ViewFacts DEF CacheMiss, SameRest, Key, ResolverInv, PublishedConsistent, TypeOK,
     Phases, Busy, CollectedBacked, Backed, Finished
<1>8. MissingCounted'
  BY DEF CacheMiss, SameRest, ResolverInv, MissingCounted, Finished, Busy
<1>9. FailureNoted'
  BY DEF CacheMiss, SameRest, ResolverInv, FailureNoted, Finished, Busy, InodeReused
<1>10. SightsOrdered'
  BY DEF CacheMiss, SameRest, ResolverInv, SightsOrdered
<1> QED BY <1>1, <1>2, <1>3, <1>4, <1>5, <1>6, <1>7, <1>8, <1>9, <1>10
   DEF ResolverInv, PublishedConsistent

\* A path is found for the container.
LEMMA ScopeLocatedPreserves ==
  ASSUME ResolverInv, NEW c, ScopeLocated(c)
  PROVE  ResolverInv'
<1>1. TypeOK'
  BY DEF ScopeLocated, SameRest, ResolverInv, PublishedConsistent, TypeOK
<1>2. PathsMatchIdentities'
  BY DEF ScopeLocated, SameRest, ResolverInv, PublishedConsistent, PathsMatchIdentities
<1>3. HistoryTyped'
  BY DEF ScopeLocated, SameRest, ResolverInv, HistoryTyped
<1>4. Phases'
  BY DEF ScopeLocated, SameRest, ResolverInv, Phases, Busy
<1>5. ActiveTaken'
  BY DEF ScopeLocated, SameRest, ResolverInv, ActiveTaken
<1>6. CollectedLive'
  BY DEF ScopeLocated, SameRest, ResolverInv, CollectedLive
<1>7. CollectedBacked'
  BY DEF ScopeLocated, SameRest, ResolverInv, CollectedBacked, Backed, Finished, Busy
<1>8. MissingCounted'
  BY DEF ScopeLocated, SameRest, ResolverInv, MissingCounted, Finished, Busy
<1>9. FailureNoted'
  BY DEF ScopeLocated, SameRest, ResolverInv, FailureNoted, Finished, Busy, InodeReused
<1>10. SightsOrdered'
  BY DEF ScopeLocated, SameRest, ResolverInv, SightsOrdered
<1> QED BY <1>1, <1>2, <1>3, <1>4, <1>5, <1>6, <1>7, <1>8, <1>9, <1>10
   DEF ResolverInv, PublishedConsistent

\* The other layout is to be looked at.
LEMMA LayoutMissedPreserves ==
  ASSUME ResolverInv, LayoutMissed
  PROVE  ResolverInv'
<1>1. TypeOK'
  BY DEF LayoutMissed, SameRest, ResolverInv, PublishedConsistent, TypeOK
<1>2. PathsMatchIdentities'
  BY DEF LayoutMissed, SameRest, ResolverInv, PublishedConsistent, PathsMatchIdentities
<1>3. HistoryTyped'
  BY DEF LayoutMissed, SameRest, ResolverInv, HistoryTyped
<1>4. Phases'
  BY DEF LayoutMissed, SameRest, ResolverInv, Phases, Busy
<1>5. ActiveTaken'
  BY DEF LayoutMissed, SameRest, ResolverInv, ActiveTaken
<1>6. CollectedLive'
  BY DEF LayoutMissed, SameRest, ResolverInv, CollectedLive
<1>7. CollectedBacked'
  BY DEF LayoutMissed, SameRest, ResolverInv, CollectedBacked, Backed, Finished, Busy
<1>8. MissingCounted'
  BY DEF LayoutMissed, SameRest, ResolverInv, MissingCounted, Finished, Busy
<1>9. FailureNoted'
  BY DEF LayoutMissed, SameRest, ResolverInv, FailureNoted, Finished, Busy, InodeReused
<1>10. SightsOrdered'
  BY DEF LayoutMissed, SameRest, ResolverInv, SightsOrdered
<1> QED BY <1>1, <1>2, <1>3, <1>4, <1>5, <1>6, <1>7, <1>8, <1>9, <1>10
   DEF ResolverInv, PublishedConsistent

\* The container has no scope: its Pod fails.
LEMMA ContainerLostPreserves ==
  ASSUME ResolverInv, NEW c, ContainerLost(c)
  PROVE  ResolverInv'
<1>1. TypeOK'
  BY DEF ContainerLost, Failed, SameRest, ResolverInv, PublishedConsistent, TypeOK, Range
<1>2. PathsMatchIdentities'
  BY DEF ContainerLost, SameRest, ResolverInv, PublishedConsistent, PathsMatchIdentities
<1>3. HistoryTyped'
  BY DEF ContainerLost, SameRest, ResolverInv, HistoryTyped
<1>4. Phases'
  BY DEF ContainerLost, Failed, SameRest, ResolverInv, Phases, Busy
<1>5. ActiveTaken'
  BY DEF ContainerLost, Failed, SameRest, ResolverInv, ActiveTaken
<1>6. CollectedLive'
  BY DEF ContainerLost, SameRest, ResolverInv, CollectedLive
<1>7. CollectedBacked'
  BY DEF ContainerLost, Failed, SameRest, ResolverInv, CollectedBacked, Backed, KeyOf,
     Finished, Busy
<1>8. MissingCounted'
  BY DEF ContainerLost, Failed, SameRest, ResolverInv, MissingCounted, Finished, Busy
<1>9. FailureNoted'
  BY DEF ContainerLost, Failed, SameRest, ResolverInv, FailureNoted, Finished, InodeReused
<1>10. SightsOrdered'
  BY DEF ContainerLost, SameRest, ResolverInv, SightsOrdered
<1> QED BY <1>1, <1>2, <1>3, <1>4, <1>5, <1>6, <1>7, <1>8, <1>9, <1>10
   DEF ResolverInv, PublishedConsistent

\* The inode of a found path is cached and collected: the entry it replaces
\* is the container's own, which nothing collected so far relies on.
LEMMA ContainerResolvedPreserves ==
  ASSUME ResolverInv, NEW c, ContainerResolved(c)
  PROVE  ResolverInv'
<1>1. TypeOK'
  BY ContainerResolvedTyped
<1>2. PathsMatchIdentities'
  BY DEF ContainerResolved, SameRest, ResolverInv, PublishedConsistent,
     PathsMatchIdentities
<1>3. HistoryTyped'
  BY DEF ContainerResolved, SameRest, Added, ResolverInv, PublishedConsistent, TypeOK,
     HistoryTyped
<1>4. Phases'
  BY DEF ContainerResolved, SameRest, ResolverInv, Phases, Busy
<1>5. ActiveTaken'
  BY DEF ContainerResolved, SameRest, ResolverInv, ActiveTaken
<1>6. CollectedLive'
  BY DEF ContainerResolved, SameRest, Added, ResolverInv, CollectedLive, Existing
<1>7. CollectedBacked'
  BY ViewFacts DEF ContainerResolved, SameRest, Added, Key, ResolverInv,
     PublishedConsistent, TypeOK,
     Phases, Busy, CollectedBacked, Backed, KeyOf, Finished
<1>8. MissingCounted'
  BY DEF ContainerResolved, SameRest, ResolverInv, MissingCounted, Finished, Busy
<1>9. FailureNoted'
  BY ContainerResolvedNoted
<1>10. SightsOrdered'
  BY DEF ContainerResolved, SameRest, ResolverInv, SightsOrdered
<1> QED BY <1>1, <1>2, <1>3, <1>4, <1>5, <1>6, <1>7, <1>8, <1>9, <1>10
   DEF ResolverInv, PublishedConsistent

\* The cgroups of a Pod join those of the build.
LEMMA PodFinishedPreserves ==
  ASSUME ResolverInv, PodFinished
  PROVE  ResolverInv'
<1>1. TypeOK'
  BY PodFinishedTyped
<1>2. PathsMatchIdentities'
  BY DEF PodFinished, ResolverInv, PublishedConsistent, PathsMatchIdentities
<1>3. HistoryTyped'
  BY DEF PodFinished, ResolverInv, HistoryTyped
<1>4. Phases'
  BY DEF PodFinished, ResolverInv, Phases, Busy
<1>5. ActiveTaken'
  BY DEF PodFinished, ResolverInv, ActiveTaken
<1>6. CollectedLive'
  BY DEF PodFinished, ResolverInv, CollectedLive
<1>7. CollectedBacked'
  BY PodFinishedBacked
<1>8. MissingCounted'
  BY PodFinishedMissing
<1>9. FailureNoted'
  BY DEF PodFinished, ResolverInv, FailureNoted, Finished, Busy, InodeReused
<1>10. SightsOrdered'
  BY DEF PodFinished, ResolverInv, SightsOrdered
<1> QED BY <1>1, <1>2, <1>3, <1>4, <1>5, <1>6, <1>7, <1>8, <1>9, <1>10
   DEF ResolverInv, PublishedConsistent

\* A published build leaves the cache, the observations and the identities
\* of its active containers, and no build.
LEMMA BuildPublishedPreserves ==
  ASSUME ResolverInv, BuildPublished
  PROVE  ResolverInv'
<1>1. TypeOK'
  BY BuildPublishedTyped
<1>2. PathsMatchIdentities'
  BY BuildPublishedPaths
<1>3. HistoryTyped'
  BY DEF BuildPublished, Return, Empty, ResolverInv, PublishedConsistent, TypeOK,
     HistoryTyped
<1>4. Phases'
  BY DEF BuildPublished, Return, Empty, ResolverInv, Phases, Busy
<1>5. ActiveTaken'
  BY DEF BuildPublished, Return, Empty, ResolverInv, ActiveTaken
<1>6. CollectedLive'
  BY DEF BuildPublished, Return, Empty, ResolverInv, CollectedLive
<1>7. CollectedBacked'
  BY DEF BuildPublished, Return, Empty, ResolverInv, CollectedBacked, Backed, Finished
<1>8. MissingCounted'
  BY DEF BuildPublished, Return, Empty, ResolverInv, MissingCounted, Finished
<1>9. FailureNoted'
  BY DEF BuildPublished, Return, Empty, ResolverInv, FailureNoted, Finished, Busy
<1>10. SightsOrdered'
  BY DEF BuildPublished, Return, ResolverInv, PublishedConsistent, TypeOK, ActiveTaken,
     SightsOrdered
<1> QED BY <1>1, <1>2, <1>3, <1>4, <1>5, <1>6, <1>7, <1>8, <1>9, <1>10
   DEF ResolverInv, PublishedConsistent

\* A refused build leaves the resolver as it was.
LEMMA BuildRefusedPreserves ==
  ASSUME ResolverInv, BuildRefused
  PROVE  ResolverInv'
<1>1. TypeOK'
  BY NoViewTyped, ResolverAssumption
     DEF BuildRefused, Return, Empty, resolver, ResolverInv,
     PublishedConsistent, TypeOK, Range
<1>2. PathsMatchIdentities'
  BY DEF BuildRefused, resolver, ResolverInv, PublishedConsistent, PathsMatchIdentities
<1>3. HistoryTyped'
  BY DEF BuildRefused, Return, Empty, sights, ResolverInv, HistoryTyped
<1>4. Phases'
  BY DEF BuildRefused, Return, Empty, ResolverInv, Phases, Busy
<1>5. ActiveTaken'
  BY DEF BuildRefused, Return, Empty, ResolverInv, ActiveTaken
<1>6. CollectedLive'
  BY DEF BuildRefused, Return, Empty, ResolverInv, CollectedLive
<1>7. CollectedBacked'
  BY DEF BuildRefused, Return, Empty, ResolverInv, CollectedBacked, Backed, Finished
<1>8. MissingCounted'
  BY DEF BuildRefused, Return, Empty, ResolverInv, MissingCounted, Finished
<1>9. FailureNoted'
  BY DEF BuildRefused, Return, Empty, ResolverInv, FailureNoted, Finished, Busy
<1>10. SightsOrdered'
  BY DEF BuildRefused, resolver, sights, ResolverInv, SightsOrdered
<1> QED BY <1>1, <1>2, <1>3, <1>4, <1>5, <1>6, <1>7, <1>8, <1>9, <1>10
   DEF ResolverInv, PublishedConsistent

\* What the actions do, in terms of the outcomes: the container runtime ...
LEMMA ScopeStep ==
  ASSUME ResolverInv, CreateScope \/ RemoveScope
  PROVE  ScopesMove
<1>1. DOMAIN scope' \subseteq Paths /\ Range(scope') \subseteq Inodes
  <2>1. CASE CreateScope
    <3>1. PICK x \in Paths \ DOMAIN scope, i \in Inodes \ Range(scope) :
            scope' = [y \in DOMAIN scope \cup {x} |-> IF y = x THEN i ELSE scope[y]]
      BY <2>1 DEF CreateScope
    <3>2. DOMAIN scope' = DOMAIN scope \cup {x} /\ \A y \in DOMAIN scope' : scope'[y] \in Inodes
      BY <3>1 DEF ResolverInv, PublishedConsistent, TypeOK, Range
    <3> QED BY <3>2 DEF ResolverInv, PublishedConsistent, TypeOK, Range
  <2>2. CASE RemoveScope
    BY <2>2 DEF RemoveScope, ResolverInv, PublishedConsistent, TypeOK, Range, Restrict
  <2> QED BY <2>1, <2>2
<1>2. Moved
  BY DEF CreateScope, RemoveScope
<1> QED BY <1>1, <1>2, ResolverAssumption DEF Moved, ScopesMove, ResolverInv,
   PublishedConsistent, TypeOK, resolver, build, sights

\* ... taking a Pod ...
LEMMA TakeStep ==
  ASSUME ResolverInv, TakePod
  PROVE  \E p \in Pods : PodTaken(p)
<1>1. PICK p \in Pods \ DOMAIN failures :
          LET keys == {<<c, view[p].qos>> : c \in view[p].running} IN
          /\ pod' = p /\ todo' = view[p].running /\ podCgroups' = Empty
          /\ failures' = Extend(failures, p,
                IF view[p].foreign THEN "unsupported_runtime" ELSE "none")
          /\ active' = active \cup keys
          /\ Observe(keys)
          /\ pc' = IF view[p].kind = "local" THEN "check" ELSE "pods"
  BY DEF TakePod
<1>2. /\ DOMAIN failures' = DOMAIN failures \cup {p}
      /\ \A q \in DOMAIN failures : failures'[q] = failures[q]
      /\ failures'[p] \in Failures
  BY <1>1 DEF Extend, Failures
<1>3. /\ DOMAIN observed' = DOMAIN observed \cup {<<c, view[p].qos>> : c \in view[p].running}
      /\ \A k \in DOMAIN observed : observed'[k] = observed[k]
      /\ \A k \in DOMAIN observed' \ DOMAIN observed : observed'[k] = builds
  BY <1>1 DEF Observe
<1>4. DOMAIN podCgroups' = {}
  BY <1>1 DEF Empty
<1>5. PodTaken(p)
  BY <1>1, <1>2, <1>3, <1>4 DEF TakePod, PodTaken, sights
<1> QED BY <1>5

\* What AddCgroup does.
LEMMA AddCgroupAdds ==
  ASSUME NEW i, NEW x, AddCgroup(i, x)
  PROVE  Added(i, x)
BY DEF AddCgroup, Added, Extend

\* What NotFound does.
LEMMA NotFoundFails ==
  ASSUME ResolverInv, pc \in Busy, NotFound
  PROVE  Failed
<1>1. pod \in DOMAIN failures /\ failures[pod] \in Failures
  BY DEF ResolverInv, Phases, PublishedConsistent, TypeOK, Range
<1> QED BY <1>1 DEF NotFound, Failed, Failures

\* The next container is one that is to be looked at.
LEMMA NextContainer ==
  ASSUME ResolverInv, todo # {}
  PROVE  Min(todo) \in todo
BY MinInSet, ResolverAssumption DEF ResolverInv, PublishedConsistent, TypeOK

\* ... looking at the cache ...
LEMMA CheckStep ==
  ASSUME ResolverInv, CheckCached
  PROVE  CacheHit(Min(todo)) \/ CacheMiss(Min(todo))
<1> DEFINE c == Min(todo)
           k == Key(c)
<1>1. c \in todo
  BY NextContainer DEF CheckCached
<1> HIDE DEF c
<1>2. CASE k \in DOMAIN cache /\ CachedIdentity(cache[k])
  <2>1. AddCgroup(cache[k].inode, cache[k].path)
    BY <1>2 DEF CheckCached, c
  <2> QED BY <1>1, <1>2, <2>1, AddCgroupAdds
     DEF CheckCached, CacheHit, SameRest, CachedIdentity, sights, c
<1>3. CASE ~(k \in DOMAIN cache /\ CachedIdentity(cache[k]))
  BY <1>1, <1>3 DEF CheckCached, CacheMiss, SameRest, Restrict, sights, c
<1> QED BY <1>2, <1>3 DEF c

\* ... looking for a path ...
LEMMA FindStep ==
  ASSUME ResolverInv, NEW layout \in Layouts, FindContainerCgroupPath(layout)
  PROVE  ScopeLocated(Min(todo)) \/ LayoutMissed \/ ContainerLost(Min(todo))
<1> DEFINE c == Min(todo)
           candidate == <<layout, c, view[pod].qos>>
<1>0. pc \in {"find", "find2"} /\ (pc = "find" <=> layout = 1)
  BY DEF FindContainerCgroupPath, Turn, Layouts
<1>1. c \in todo
  BY <1>0, NextContainer DEF ResolverInv, Phases
<1>2. SameRest /\ UNCHANGED <<cache, podCgroups>>
  BY DEF FindContainerCgroupPath, SameRest, resolver, sights
<1> HIDE DEF c
<1>3. CASE candidate \in DOMAIN scope
  BY <1>0, <1>1, <1>2, <1>3 DEF FindContainerCgroupPath, ScopeLocated, c
<1>4. CASE candidate \notin DOMAIN scope /\ layout = 1
  BY <1>0, <1>2, <1>4 DEF FindContainerCgroupPath, Turn, LayoutMissed, c
<1>5. CASE candidate \notin DOMAIN scope /\ layout = 2
  <2>1. NotFound /\ todo' = todo \ {c} /\ pc' = "check"
    BY <1>5 DEF FindContainerCgroupPath, c
  <2>2. Failed
    BY <1>0, <2>1, NotFoundFails DEF Busy
  <2> QED BY <1>0, <1>1, <1>2, <1>5, <2>1, <2>2 DEF ContainerLost, c
<1> QED BY <1>3, <1>4, <1>5 DEF c, Layouts

\* ... reading its inode ...
LEMMA StatStep ==
  ASSUME ResolverInv, StatCgroup
  PROVE  ContainerResolved(Min(todo)) \/ ContainerLost(Min(todo))
<1> DEFINE c == Min(todo)
<1>1. c \in todo /\ found \in Layouts \X {c} \X {view[pod].qos}
  BY NextContainer DEF StatCgroup, ResolverInv, Phases
<1> HIDE DEF c
<1>2. CASE found \in DOMAIN scope
  <2>1. /\ cache' = Extend(cache, Key(c), [path |-> found, inode |-> scope[found]])
        /\ AddCgroup(scope[found], found) /\ UNCHANGED failures
    BY <1>2 DEF StatCgroup, c
  <2>2. /\ DOMAIN cache' = DOMAIN cache \cup {Key(c)}
        /\ \A k \in DOMAIN cache : k # Key(c) => cache'[k] = cache[k]
        /\ cache'[Key(c)].path = found /\ cache'[Key(c)].inode = scope[found]
    BY <2>1 DEF Extend
  <2> QED BY <1>1, <1>2, <2>1, <2>2, AddCgroupAdds
     DEF StatCgroup, ContainerResolved, SameRest, sights, c
<1>3. CASE found \notin DOMAIN scope
  <2>1. NotFound
    BY <1>3 DEF StatCgroup
  <2>2. Failed
    BY <2>1, NotFoundFails DEF StatCgroup, Busy
  <2> QED BY <1>1, <1>3, <2>2 DEF StatCgroup, ContainerLost, SameRest, sights, c
<1> QED BY <1>2, <1>3 DEF c

\* ... the end of a Pod, with or without a conflict ...
LEMMA FinishStep ==
  ASSUME ResolverInv, FinishPod
  PROVE  BuildRefused \/ PodFinished
<1>1. CASE Conflicts
  BY <1>1 DEF FinishPod, BuildRefused
<1>2. CASE ~Conflicts
  <2>1. paths' = [i \in DOMAIN paths \cup DOMAIN podCgroups |->
                           IF i \in DOMAIN podCgroups THEN podCgroups[i] ELSE paths[i]]
    BY <1>2 DEF FinishPod
  <2>2. \A i \in DOMAIN paths : paths'[i] = paths[i]
    BY <1>2, <2>1 DEF Conflicts
  <2> QED BY <1>2, <2>1, <2>2 DEF FinishPod, PodFinished, Empty, resolver, sights
<1> QED BY <1>1, <1>2

\* ... and publication: the identities derived from the kept cache entries
\* are those of the collected paths.
LEMMA PublishStep ==
  ASSUME ResolverInv, PublishWorkloadSnapshot
  PROVE  BuildPublished
<1>1. \A i \in DOMAIN paths : KeyOf(paths[i]) \in Kept /\ cache[KeyOf(paths[i])].inode = i
  <2> TAKE i \in DOMAIN paths
  <2>1. /\ Backed(i, paths[i]) /\ OwnerOf[paths[i][2]] \in Finished
        /\ paths[i][2] \in view[OwnerOf[paths[i][2]]].running
        /\ paths[i][3] = view[OwnerOf[paths[i][2]]].qos
    BY DEF ResolverInv, CollectedBacked
  <2>2. KeyOf(paths[i]) \in active
    BY <2>1 DEF ResolverInv, ActiveTaken, KeyOf, Finished
  <2> QED BY <2>1, <2>2 DEF Backed, Kept
<1>2. \A k \in Kept : /\ cache[k].inode \in DOMAIN paths /\ cache[k].path = paths[cache[k].inode]
                      /\ k[1] = paths[cache[k].inode][2]
  BY DEF Kept, ResolverInv, PublishedConsistent, TypeOK
<1>3. {cache[k].inode : k \in Kept} = DOMAIN paths
  BY <1>1, <1>2
<1>4. /\ DOMAIN identities' = DOMAIN paths
      /\ \A i \in DOMAIN paths : /\ identities'[i].path = paths[i]
                                 /\ identities'[i].container = paths[i][2]
  <2> DEFINE key(i) == CHOOSE k \in Kept : cache[k].inode = i
  <2>1. \A i \in DOMAIN paths : key(i) \in Kept /\ cache[key(i)].inode = i
    BY <1>1
  <2>2. identities' = [i \in DOMAIN paths |-> [container |-> key(i)[1], path |-> cache[key(i)].path]]
    BY <1>3 DEF PublishWorkloadSnapshot
  <2> HIDE DEF key
  <2> QED BY <2>1, <2>2, <1>2
<1>5. DOMAIN observed \cap active = active
  BY DEF ResolverInv, ActiveTaken
<1> QED BY <1>4, <1>5
   DEF PublishWorkloadSnapshot, BuildPublished, PruneRunningObservations, Restrict

\* The resolver starts with nothing.
LEMMA InitEstablishes == Init => ResolverInv
<1> SUFFICES ASSUME Init PROVE ResolverInv
  OBVIOUS
<1>1. TypeOK
  BY NoViewTyped, ResolverAssumption DEF Init, NoBuild, Empty, TypeOK, Range
<1>2. PathsMatchIdentities /\ HistoryTyped
  BY DEF Init, NoBuild, Empty, PathsMatchIdentities, HistoryTyped
<1>3. Phases /\ ActiveTaken /\ CollectedLive /\ CollectedBacked
  BY DEF Init, NoBuild, Empty, Phases, Busy, ActiveTaken, CollectedLive, CollectedBacked
<1>4. MissingCounted /\ FailureNoted
  BY DEF Init, NoBuild, Empty, MissingCounted, FailureNoted, Finished, Busy
<1>5. SightsOrdered
  BY DEF Init, NoBuild, Empty, SightsOrdered
<1> QED BY <1>1, <1>2, <1>3, <1>4, <1>5 DEF ResolverInv, PublishedConsistent

\* A step that changes nothing.
LEMMA StutterPreserves ==
  ASSUME ResolverInv, UNCHANGED vars
  PROVE  ResolverInv'
<1> USE DEF vars, resolver, build, sights
<1>1. PublishedConsistent' /\ HistoryTyped'
  BY DEF ResolverInv, PublishedConsistent, TypeOK, PathsMatchIdentities, HistoryTyped
<1>2. Phases' /\ ActiveTaken' /\ CollectedLive' /\ CollectedBacked'
  BY DEF ResolverInv, Phases, ActiveTaken, CollectedLive, CollectedBacked, Backed,
     Finished
<1>3. MissingCounted' /\ FailureNoted' /\ SightsOrdered'
  BY DEF ResolverInv, MissingCounted, FailureNoted, SightsOrdered, Finished, InodeReused
<1> QED BY <1>1, <1>2, <1>3 DEF ResolverInv


(***************************************************************************)
(* Theorems.                                                               *)
(***************************************************************************)
\* Every step has one of the outcomes above.
LEMMA StepPreserves == ASSUME ResolverInv, [Next]_vars PROVE ResolverInv'
<1>1. CASE CreateScope \/ RemoveScope
  BY <1>1, ScopeStep, ScopesMovePreserves
<1>2. CASE Start
  BY <1>2, StartPreserves
<1>3. CASE TakePod
  BY <1>3, TakeStep, PodTakenPreserves
<1>4. CASE CheckCached
  BY <1>4, CheckStep, CacheHitPreserves, CacheMissPreserves
<1>5. CASE \E layout \in Layouts : FindContainerCgroupPath(layout)
  BY <1>5, FindStep, ScopeLocatedPreserves, LayoutMissedPreserves, ContainerLostPreserves
<1>6. CASE StatCgroup
  BY <1>6, StatStep, ContainerResolvedPreserves, ContainerLostPreserves
<1>7. CASE FinishPod
  BY <1>7, FinishStep, BuildRefusedPreserves, PodFinishedPreserves
<1>8. CASE PublishWorkloadSnapshot
  BY <1>8, PublishStep, BuildPublishedPreserves
<1>9. CASE UNCHANGED vars
  BY <1>9, StutterPreserves
<1> QED BY <1>1, <1>2, <1>3, <1>4, <1>5, <1>6, <1>7, <1>8, <1>9 DEF Next


\* Only publishWorkloadSnapshot publishes.
LEMMA PublishingStep ==
  ASSUME ResolverInv, [Next]_vars, Published
  PROVE  BuildPublished
<1>1. ~UNCHANGED vars
  BY DEF Published, vars, build
<1>2. ~(CreateScope \/ RemoveScope)
  BY DEF Published, CreateScope, RemoveScope, Moved, build
<1>3. /\ ~Start /\ ~TakePod /\ ~CheckCached /\ ~StatCgroup /\ ~FinishPod
      /\ ~\E layout \in Layouts : FindContainerCgroupPath(layout)
  BY DEF Published, Start, TakePod, CheckCached, FindContainerCgroupPath, Turn, StatCgroup,
     FinishPod
<1>4. PublishWorkloadSnapshot
  BY <1>1, <1>2, <1>3 DEF Next
<1> QED BY <1>4, PublishStep

\* What is published was seen by the build.
LEMMA PublishedLive ==
  ASSUME ResolverInv, BuildPublished
  PROVE  \A i \in DOMAIN identities' : <<identities'[i].path, i>> \in seen
BY DEF BuildPublished, ResolverInv, CollectedLive

\* The least of one number.
LEMMA MinOfOne ==
  ASSUME NEW n \in Nat
  PROVE  Min({n}) = n
<1>1. Min({n}) \in {n}
  BY MinInSet
<1> QED BY <1>1

\* An inode has one kept cache entry, so the time of its container is its own.
LEMMA PublishedDelays ==
  ASSUME ResolverInv, BuildPublished
  PROVE  DelaysCounted'
<1> SUFFICES ASSUME NEW k \in DOMAIN cache'
             PROVE  /\ ClassificationObservations'[cache'[k].inode] <= firstIn'[k]
                    /\ ClassificationObservations'[cache'[k].inode] > lastOut'[k]
  BY DEF DelaysCounted
<1>1. /\ k \in Kept /\ k \in active /\ k \in Keys /\ k \in DOMAIN observed
      /\ k \in DOMAIN observed' /\ observed'[k] = observed[k]
  BY SightsTyped DEF BuildPublished, Kept, ResolverInv, ActiveTaken
<1>2. \A l \in Kept : cache[l].inode = cache[k].inode => l = k
  <2> TAKE l \in Kept
  <2> HAVE cache[l].inode = cache[k].inode
  <2>1. cache[l].path = cache[k].path /\ l \in DOMAIN cache /\ k \in DOMAIN cache
    BY <1>1 DEF Kept
  <2>2. /\ cache[l].path \in Layouts \X {l[1]} \X {l[2]} /\ l \in Keys
        /\ cache[k].path \in Layouts \X {k[1]} \X {k[2]} /\ k \in Keys
    BY <2>1 DEF ResolverInv, PublishedConsistent, TypeOK
  <2> QED BY <2>1, <2>2 DEF Keys
<1> DEFINE keys == DOMAIN cache' \cap DOMAIN observed'
           same == {l \in keys : cache'[l].inode = cache'[k].inode}
<1>3. same = {k}
  BY <1>1, <1>2 DEF BuildPublished
<1>4. cache'[k].inode \in {cache'[l].inode : l \in keys}
  BY <1>1
<1>5. ClassificationObservations'[cache'[k].inode] = Min({observed'[l] : l \in same})
  BY <1>4 DEF ClassificationObservations
<1> HIDE DEF keys, same
<1>6. {observed'[l] : l \in same} = {observed[k]}
  BY <1>1, <1>3
<1>7. observed[k] \in Nat /\ Min({observed[k]}) = observed[k]
  BY <1>1, SightsTyped, MinOfOne
<1>8. ClassificationObservations'[cache'[k].inode] = observed[k]
  BY <1>5, <1>6, <1>7
<1>9. observed[k] > lastOut[k] /\ observed[k] <= builds
      /\ (firstIn[k] # 0 => observed[k] <= firstIn[k])
  BY <1>1, SightsTyped DEF ResolverInv, SightsOrdered
<1>10. lastOut'[k] = lastOut[k] /\ firstIn'[k] = (IF firstIn[k] = 0 THEN builds ELSE firstIn[k])
  BY <1>1 DEF BuildPublished
<1> QED BY <1>1, <1>7, <1>8, <1>9, <1>10

\* Every Pod is finished when a build is published.
LEMMA PublishedAccounted ==
  ASSUME ResolverInv, BuildPublished
  PROVE  \A p \in Pods : \A c \in view[p].running :
            /\ \/ \E i \in DOMAIN identities' : identities'[i].container = c
               \/ unresolved' > 0
            /\ \/ \E i \in DOMAIN identities' : identities'[i].container = c
               \/ failures[p] # "none"
               \/ InodeReused(c)
<1>1. Finished = Pods
  BY DEF BuildPublished, Finished, Busy
<1> QED BY <1>1 DEF BuildPublished, ResolverInv, MissingCounted, FailureNoted


\* The inductive invariant holds for any Pods, containers and file system.
THEOREM ResolverInvariant == Spec => []ResolverInv
<1>1. ResolverInv /\ [Next]_vars => ResolverInv'
  BY StepPreserves
<1> QED BY <1>1, InitEstablishes, PTL DEF Spec

\* For any Pods, containers and file system, in every state: the engine is
\* given a path for exactly the cgroups it is given an identity for, the two
\* name the same directory, and no directory is authorised under two inodes
\* (publishWorkloadSnapshot).
THEOREM PublishedConsistentAlways == Spec => []PublishedConsistent
<1>1. ResolverInv => PublishedConsistent
  BY DEF ResolverInv
<1> QED BY <1>1, ResolverInvariant, PTL

\* Whatever comes and goes under /sys/fs/cgroup while a build runs, a
\* published build authorises only cgroups that existed with that inode
\* during the build, and the delay it reports for a cgroup counts from the
\* first sight of its own container (buildResolutionSnapshot,
\* classificationObservations).
THEOREM SnapshotTruthfulAlways == Spec => SnapshotTruthful
<1>1. ASSUME ResolverInv, [Next]_vars
      PROVE  [Published => \A i \in DOMAIN identities' : <<identities'[i].path, i>> \in seen]_vars
  BY <1>1, PublishingStep, PublishedLive
<1>2. ASSUME ResolverInv, [Next]_vars
      PROVE  [Published => DelaysCounted']_vars
  BY <1>2, PublishingStep, PublishedDelays
<1>3. Spec => PublishedWasLive
  BY <1>1, ResolverInvariant, PTL DEF Spec, PublishedWasLive
<1>4. Spec => DelayFromFirstSight
  BY <1>2, ResolverInvariant, PTL DEF Spec, DelayFromFirstSight
<1> QED BY <1>3, <1>4 DEF SnapshotTruthful

\* A published build passes over no running container: each is published or
\* the build counts something as unresolved, and the Pod of one that is not
\* published has a resolution failure, on which the compiler refuses the
\* candidates that select it, unless an inode changed hands during the build
\* (buildResolutionSnapshot, resolvePodCgroupsCached).
THEOREM RunningAccountedAlways == Spec => RunningAccounted
<1>1. ASSUME ResolverInv, [Next]_vars
      PROVE  [Published =>
                \A p \in Pods : \A c \in view[p].running :
                   \/ \E i \in DOMAIN identities' : identities'[i].container = c
                   \/ unresolved' > 0]_vars
  BY <1>1, PublishingStep, PublishedAccounted
<1>2. ASSUME ResolverInv, [Next]_vars
      PROVE  [Published =>
                \A p \in Pods : \A c \in view[p].running :
                   \/ \E i \in DOMAIN identities' : identities'[i].container = c
                   \/ failures[p] # "none"
                   \/ InodeReused(c)]_vars
  BY <1>2, PublishingStep, PublishedAccounted
<1>3. Spec => EveryRunningAccounted
  BY <1>1, ResolverInvariant, PTL DEF Spec, EveryRunningAccounted
<1>4. Spec => MissingFailsPod
  BY <1>2, ResolverInvariant, PTL DEF Spec, MissingFailsPod
<1> QED BY <1>3, <1>4 DEF RunningAccounted
=============================================================================
