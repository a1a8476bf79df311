-------------------------- MODULE SubjectResolver --------------------------
(***************************************************************************)
(* The cgroup resolver of the agent: how one view of the informer caches   *)
(* becomes the cgroup IDs the compiler sees and the paths and identities   *)
(* the engine attaches to (internal/cli/k8s_subject_resolver_linux.go and  *)
(* k8s_policy_snapshot_linux.go).                                          *)
(*                                                                         *)
(* A build walks the Pods of its view.  For every running container of a   *)
(* local Pod it re-checks a cached cgroup by device and inode, or looks    *)
(* for the container's scope in the two supported layouts and stats it.    *)
(* The container runtime creates, removes and recreates scopes between any *)
(* two of these file-system calls, and the view may be older or newer than *)
(* the file system.  Only a build that ends without a conflict replaces    *)
(* what the engine can ask for.                                            *)
(*                                                                         *)
(* Simplifications.                                                        *)
(*  - A path is <<layout, container, QoS>>: the Pod UID in it follows from *)
(*    the container, whose ID belongs to one Pod.  Symbolic links and the  *)
(*    containment check under the root always resolve to that path.        *)
(*  - Device and inode are one value.  An inode is never in use twice at   *)
(*    one time, and may be reused after its cgroup is gone.                *)
(*  - Names, labels, addresses and namespaces, which a build only copies   *)
(*    and sorts, are left out; so are the early returns for a missing or   *)
(*    foreign Node object.                                                 *)
(*  - A path names one container, so the conflict of two identities at one *)
(*    path that publishing also refuses cannot arise.                      *)
(*  - The resolving of links and the stat of one layout are one step: the *)
(*    lookup succeeds or fails at one moment in either order.              *)
(*  - The time of an observation is the number of the build that made it.  *)
(***************************************************************************)
EXTENDS Naturals, FiniteSets, FiniteSetsExt, Functions

CONSTANTS Pods,       \* local and remote Pods of the cluster
          Containers, \* container IDs, a set of numbers: the code sorts them
          OwnerOf,    \* the Pod each container ID belongs to
          QoS,        \* QoS classes, part of a scope's path
          Inodes,     \* cgroup identities
          Shown,      \* the views that the informer caches may show
          MaxBuilds,  \* bound on the builds of one behaviour
          MaxMoves    \* bound on file-system changes during one build

ASSUME ResolverAssumption ==
    /\ Pods # {} /\ QoS # {}
    /\ Containers \subseteq Nat /\ IsFiniteSet(Containers)
    /\ OwnerOf \in [Containers -> Pods]
    /\ MaxBuilds \in Nat /\ MaxMoves \in Nat

Layouts == {1, 2}
Paths == Layouts \X Containers \X QoS
Keys == Containers \X QoS

\* What a Pod of the view can be: terminal Pods are skipped, remote and
\* host-network ones are copied without cgroups, local ones are resolved.
\* A container that runs without an ID yet is in neither field.
PodViews ==
    [kind : {"terminal", "remote"}, qos : QoS, running : {{}}, foreign : {FALSE}]
      \cup [kind : {"local"}, qos : QoS, running : SUBSET Containers, foreign : BOOLEAN]
Views == {v \in [Pods -> PodViews] :
             \A p \in Pods : \A c \in v[p].running : OwnerOf[c] = p}

ASSUME ShownAssumption == Shown \subseteq Views

Failures == {"none", "not_found", "unsupported_runtime"}

VARIABLES
    scope,       \* external: the cgroup directories, path to inode
    cache,       \* cgroupCache: container and QoS to path and inode
    observed,    \* runningObservedAt: container and QoS to build number
    cgroupPath,  \* cgroupPath, published: inode to path
    identities,  \* workloadIdentities, published: inode to container and path
    unresolved,  \* unresolvedRunningContainers
    view,        \* the informer-cache view of the running build
    pc, pod,     \* where the build is, and the Pod it is at
    todo,        \* containers of pod not looked at yet
    found,       \* path of the scope just located
    podCgroups,  \* cgroups of pod so far, inode to path
    failures,    \* the failure of each Pod handled so far
    paths,       \* cgroupPaths of the build so far
    active,      \* activeContainers of the build so far
    missing,     \* unresolvedRunning of the build so far
    builds, moves,
    seen,        \* history: <<path, inode>> pairs that existed during this build
    lastOut,     \* history: the last published build without the container
    firstIn      \* history: the first published build since then with it

resolver == <<cache, observed, cgroupPath, identities, unresolved>>
build == <<view, pc, pod, todo, found, podCgroups, failures, paths, active, missing>>
sights == <<lastOut, firstIn>>
vars == <<scope, resolver, build, builds, moves, seen, sights>>

AnyPod == CHOOSE p \in Pods : TRUE
NoView == [p \in Pods |-> [kind |-> "terminal", qos |-> CHOOSE q \in QoS : TRUE,
                           running |-> {}, foreign |-> FALSE]]
Empty == [x \in {} |-> x]
Existing(s) == {<<x, s[x]>> : x \in DOMAIN s}

\* No build is running: its local variables have no value.
NoBuild ==
    /\ view = NoView /\ pc = "idle" /\ pod = AnyPod /\ todo = {} /\ found = {}
    /\ podCgroups = Empty /\ failures = Empty /\ paths = Empty
    /\ active = {} /\ missing = 0 /\ moves = 0 /\ seen = {}

\* A build returns: nothing of it is left but what the resolver keeps.
Return ==
    /\ view' = NoView /\ pc' = "idle" /\ pod' = AnyPod /\ todo' = {} /\ found' = {}
    /\ podCgroups' = Empty /\ failures' = Empty /\ paths' = Empty
    /\ active' = {} /\ missing' = 0 /\ moves' = 0 /\ seen' = {}

Init ==
    /\ scope = Empty /\ cache = Empty /\ observed = Empty
    /\ cgroupPath = Empty /\ identities = Empty /\ unresolved = 0
    /\ NoBuild /\ builds = 0
    /\ lastOut = [k \in Keys |-> 0] /\ firstIn = [k \in Keys |-> 0]

(***************************************************************************)
(* External: the container runtime creates and removes scopes.             *)
(***************************************************************************)
Moved ==
    /\ IF pc = "idle" THEN UNCHANGED <<moves, seen>>
       ELSE moves < MaxMoves /\ moves' = moves + 1 /\ seen' = seen \cup Existing(scope')
    /\ UNCHANGED <<resolver, build, builds, sights>>

CreateScope ==
    /\ \E x \in Paths \ DOMAIN scope, i \in Inodes \ Range(scope) :
          scope' = [y \in DOMAIN scope \cup {x} |-> IF y = x THEN i ELSE scope[y]]
    /\ Moved

RemoveScope ==
    /\ \E x \in DOMAIN scope : scope' = Restrict(scope, DOMAIN scope \ {x})
    /\ Moved

(***************************************************************************)
(* A build.                                                                *)
(***************************************************************************)
Start ==
    /\ pc = "idle" /\ builds < MaxBuilds
    /\ builds' = builds + 1
    /\ view' \in Shown
    /\ pc' = "pods" /\ seen' = Existing(scope)
    /\ UNCHANGED <<scope, resolver, pod, todo, found, podCgroups, failures, paths, active,
                   missing, moves, sights>>

Key(c) == <<c, view[pod].qos>>
Extend(f, x, y) == [z \in DOMAIN f \cup {x} |-> IF z = x THEN y ELSE f[z]]

\* Only the first sight of a container is recorded.
Observe(keys) ==
    observed' = [k \in DOMAIN observed \cup keys |->
                   IF k \in DOMAIN observed THEN observed[k] ELSE builds]

\* Terminal Pods are not in the snapshot at all; the others are added to it,
\* the local ones once their running containers are noted as observed.
TakePod ==
    /\ pc = "pods"
    /\ \E p \in Pods \ DOMAIN failures :
          LET keys == {<<c, view[p].qos>> : c \in view[p].running} IN
          /\ pod' = p /\ todo' = view[p].running /\ podCgroups' = Empty
          /\ failures' = Extend(failures, p,
                IF view[p].foreign THEN "unsupported_runtime" ELSE "none")
          /\ active' = active \cup keys
          /\ Observe(keys)
          /\ pc' = IF view[p].kind = "local" THEN "check" ELSE "pods"
    /\ UNCHANGED <<scope, cache, cgroupPath, identities, unresolved, view, found, paths,
                   missing, builds, moves, seen, sights>>

\* Two containers of a Pod at one cgroup ID count once.
AddCgroup(i, x) ==
    podCgroups' = IF i \in DOMAIN podCgroups THEN podCgroups ELSE Extend(podCgroups, i, x)

NotFound ==
    failures' = IF failures[pod] = "none" THEN [failures EXCEPT ![pod] = "not_found"]
                                          ELSE failures

\* Mutant: a cached cgroup is used while its path exists, whatever is there.
CachedIdentityByPath(e) == e.path \in DOMAIN scope

\* The directory of a cached cgroup is still the one that was cached.
CachedIdentity(e) == e.path \in DOMAIN scope /\ scope[e.path] = e.inode

\* The next container, in the order of the IDs: a cached cgroup is used if its
\* identity is unchanged, else it is dropped and the scope is looked for.
CheckCached ==
    /\ pc = "check" /\ todo # {}
    /\ LET c == Min(todo)
           k == Key(c)
       IN  IF k \in DOMAIN cache /\ CachedIdentity(cache[k])
           THEN /\ AddCgroup(cache[k].inode, cache[k].path)
                /\ todo' = todo \ {c}
                /\ UNCHANGED <<cache, pc>>
           ELSE /\ cache' = Restrict(cache, DOMAIN cache \ {k})
                /\ pc' = "find"
                /\ UNCHANGED <<podCgroups, todo>>
    /\ UNCHANGED <<scope, observed, cgroupPath, identities, unresolved, view, pod, found,
                   failures, paths, active, missing, builds, moves, seen, sights>>

\* Where each layout is looked at.
Turn(layout) == IF layout = 1 THEN "find" ELSE "find2"

\* The scope is in the first layout that has it when its turn comes, or the
\* container fails.
FindContainerCgroupPath(layout) ==
    /\ pc = Turn(layout)
    /\ LET c == Min(todo)
           candidate == <<layout, c, view[pod].qos>>
       IN  \/ /\ candidate \in DOMAIN scope
              /\ found' = candidate /\ pc' = "stat"
              /\ UNCHANGED <<failures, todo>>
           \/ /\ candidate \notin DOMAIN scope /\ layout = 1
              /\ pc' = Turn(2)
              /\ UNCHANGED <<found, failures, todo>>
           \/ /\ candidate \notin DOMAIN scope /\ layout = 2
              /\ NotFound /\ todo' = todo \ {c} /\ pc' = "check"
              /\ UNCHANGED found
    /\ UNCHANGED <<scope, resolver, view, pod, podCgroups, paths, active, missing,
                   builds, moves, seen, sights>>

\* A second stat gives the identity; the scope may be gone or be another.
StatCgroup ==
    /\ pc = "stat"
    /\ LET c == Min(todo) IN
       /\ todo' = todo \ {c}
       /\ IF found \in DOMAIN scope
          THEN /\ cache' = Extend(cache, Key(c), [path |-> found, inode |-> scope[found]])
               /\ AddCgroup(scope[found], found)
               /\ UNCHANGED failures
          ELSE NotFound /\ UNCHANGED <<cache, podCgroups>>
    /\ found' = {} /\ pc' = "check"
    /\ UNCHANGED <<scope, observed, cgroupPath, identities, unresolved, view, pod, paths,
                   active, missing, builds, moves, seen, sights>>

\* Mutant: a second path of a cgroup ID takes the place of the first.
ConflictsNever == FALSE

\* A cgroup ID of this Pod was found at another path in an earlier Pod.
Conflicts == \E i \in DOMAIN podCgroups \cap DOMAIN paths : podCgroups[i] # paths[i]

RunningCount == Cardinality(view[pod].running) + (IF view[pod].foreign THEN 1 ELSE 0)

\* The Pod's cgroups join the build's, or the build ends with an error.
FinishPod ==
    /\ pc = "check" /\ todo = {}
    /\ IF Conflicts
       THEN Return
       ELSE LET n == Cardinality(DOMAIN podCgroups) IN
            /\ missing' = missing + (IF RunningCount > n THEN RunningCount - n ELSE 0)
            /\ paths' = [i \in DOMAIN paths \cup DOMAIN podCgroups |->
                           IF i \in DOMAIN podCgroups THEN podCgroups[i] ELSE paths[i]]
            /\ podCgroups' = Empty /\ pc' = "pods"
            /\ UNCHANGED <<view, pod, todo, found, failures, active, moves, seen>>
    /\ UNCHANGED <<scope, resolver, builds, sights>>

\* Mutant: cache entries of containers that are gone still authorise.
KeptCached == DOMAIN cache

\* Cache entries of the active containers whose path the build kept.
Kept == {k \in active \cap DOMAIN cache :
           /\ cache[k].inode \in DOMAIN paths
           /\ paths[cache[k].inode] = cache[k].path}

PruneRunningObservations == observed' = Restrict(observed, DOMAIN observed \cap active)

\* Paths and identities are replaced together and the caches pruned.
PublishWorkloadSnapshot ==
    /\ pc = "pods" /\ DOMAIN failures = Pods
    /\ identities' = [i \in {cache[k].inode : k \in Kept} |->
                        LET k == CHOOSE k \in Kept : cache[k].inode = i
                        IN  [container |-> k[1], path |-> cache[k].path]]
    /\ cache' = Restrict(cache, Kept)
    /\ cgroupPath' = paths
    /\ PruneRunningObservations
    /\ unresolved' = missing
    /\ lastOut' = [k \in Keys |-> IF k \in active THEN lastOut[k] ELSE builds]
    /\ firstIn' = [k \in Keys |-> IF k \notin active THEN 0
                                  ELSE IF firstIn[k] = 0 THEN builds ELSE firstIn[k]]
    /\ Return
    /\ UNCHANGED <<scope, builds>>

Next ==
    \/ CreateScope \/ RemoveScope
    \/ Start \/ TakePod \/ CheckCached
    \/ \E layout \in Layouts : FindContainerCgroupPath(layout)
    \/ StatCgroup \/ FinishPod \/ PublishWorkloadSnapshot

Spec == Init /\ [][Next]_vars

(***************************************************************************)
(* What the engine and the telemetry are told.                             *)
(***************************************************************************)
ResolveCgroupPath(i, x) == i \in DOMAIN cgroupPath /\ cgroupPath[i] = x
ValidateWorkloadIdentity(i, id) == i \in DOMAIN identities /\ identities[i] = id

\* Classification times by cgroup ID, the earliest of those cached for it.
ClassificationObservations ==
    LET keys == DOMAIN cache \cap DOMAIN observed IN
    [i \in {cache[k].inode : k \in keys} |->
        Min({observed[k] : k \in {l \in keys : cache[l].inode = i}})]

Published == pc = "pods" /\ pc' = "idle"

(***************************************************************************)
(* Properties.                                                             *)
(***************************************************************************)
\* Every variable has its type, and what is cached or published is the path
\* of the container it is kept for.
TypeOK ==
    /\ DOMAIN scope \subseteq Paths /\ Range(scope) \subseteq Inodes
    /\ DOMAIN cache \subseteq Keys
    /\ \A k \in DOMAIN cache : /\ cache[k].path \in Layouts \X {k[1]} \X {k[2]}
                               /\ cache[k].inode \in Inodes
    /\ DOMAIN observed \subseteq Keys /\ Range(observed) \subseteq 1 .. MaxBuilds
    /\ DOMAIN cgroupPath \subseteq Inodes /\ Range(cgroupPath) \subseteq Paths
    /\ \A i \in DOMAIN identities : identities[i].path[2] = identities[i].container
    /\ unresolved \in Nat /\ missing \in Nat
    /\ view \in Views /\ pod \in Pods /\ todo \subseteq Containers
    /\ pc \in {"idle", "pods", "check", "find", "find2", "stat"}
    /\ DOMAIN failures \subseteq Pods /\ Range(failures) \subseteq Failures
    /\ DOMAIN podCgroups \subseteq Inodes /\ DOMAIN paths \subseteq Inodes
    /\ active \subseteq Keys /\ builds \in 0 .. MaxBuilds /\ moves \in 0 .. MaxMoves

\* The engine attaches only to what was there: every identity a build
\* publishes named a directory that had this very inode at some moment of
\* that build, although the entry may come from a cache filled builds ago and
\* the scope may have been recreated in between.
PublishedWasLive ==
    [][Published => \A i \in DOMAIN identities' : <<identities'[i].path, i>> \in seen]_vars

\* Apply asks for the path and for the identity of every cgroup it attaches:
\* the two answers exist for the same cgroups, name the same directory, and
\* no directory is published for two cgroups.
PathsMatchIdentities ==
    /\ DOMAIN identities = DOMAIN cgroupPath
    /\ \A i \in DOMAIN identities : identities[i].path = cgroupPath[i]
    /\ \A i, j \in DOMAIN cgroupPath : cgroupPath[i] = cgroupPath[j] => i = j

\* A build that is not refused accounts for every running container of its
\* view: it is published, or the telemetry counts a container as unresolved.
EveryRunningAccounted ==
    [][Published =>
         \A p \in Pods : \A c \in view[p].running :
            \/ \E i \in DOMAIN identities' : identities'[i].container = c
            \/ unresolved' > 0]_vars

\* The inode of a scope of c belonged to another scope in the same build.
InodeReused(c) ==
    \E x, y \in seen : x[1][2] = c /\ x[1] # y[1] /\ x[2] = y[2]

\* A running container that is not published has left a resolution failure on
\* its Pod, on which the compiler refuses every candidate in which a policy
\* selects that Pod (ResolutionError, compiler.go 384-395; a Pod that no policy
\* selects is left alone).  The one exception is an inode that changed hands
\* during the build, within a Pod or between two.
MissingFailsPod ==
    [][Published =>
         \A p \in Pods : \A c \in view[p].running :
            \/ \E i \in DOMAIN identities' : identities'[i].container = c
            \/ failures[p] # "none"
            \/ InodeReused(c)]_vars

\* Every authorised cgroup has a time that is not later than the first
\* published build that has had its container without interruption, and not
\* from before the last published build that had it not.
DelaysCounted ==
    \A k \in DOMAIN cache :
       ValidateWorkloadIdentity(cache[k].inode, [container |-> k[1], path |-> cache[k].path]) =>
          /\ ClassificationObservations[cache[k].inode] <= firstIn[k]
          /\ ClassificationObservations[cache[k].inode] > lastOut[k]

\* The watcher gap is measured from the first sight of a container: the agent
\* asks for the times after every published build, and at no other moment
\* (a refused build may leave a cache in which they are mixed up).
DelayFromFirstSight == [][Published => DelaysCounted']_vars

\* What is published hangs together: types, and every path belongs to the
\* identity it is published with (publishWorkloadSnapshot).
PublishedConsistent == TypeOK /\ PathsMatchIdentities

\* A published build tells the truth: what it authorises existed during the
\* build, and the delay it reports counts from the first sight of a container
\* (buildResolutionSnapshot, classificationObservations).
SnapshotTruthful == PublishedWasLive /\ DelayFromFirstSight

\* Nothing that runs is passed over: a build that is published publishes every
\* running container, or counts one as unresolved and has marked the Pod of each
\* that is not published as failed, unless an inode changed hands during the
\* build (buildResolutionSnapshot, resolvePodCgroupsCached).
RunningAccounted == EveryRunningAccounted /\ MissingFailsPod
====
