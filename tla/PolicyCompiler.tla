---------------------------- MODULE PolicyCompiler ----------------------------
(***************************************************************************)
(* CompileNativePolicies (internal/policy/compiler.go) with the validation *)
(* it relies on (internal/policy/native.go): NetworkPolicies and the facts *)
(* of one snapshot become the subjects and rules of the packet programs.   *)
(*                                                                         *)
(* Simplifications: a label selector is the set of labels it matches, or   *)
(* Bad when it cannot be parsed; a pod and a namespace carry one label;    *)
(* metadata is "ok", "bad" or "none"; lists whose order and duplicates the *)
(* code ignores are sets; diagnostics are left out; a port stands for      *)
(* protocol and port, and BadPort for every port the validation refuses.   *)
(* Growing counters are compared with their limits once per policy: they   *)
(* never shrink, so the code's checks after every entry decide the same.   *)
(* Of the snapshots that normalizeResolutionInput refuses, those with      *)
(* duplicate pods or namespaces, empty names, invalid addresses, a zero    *)
(* cgroup or an unknown failure value are left out: the cluster's API and  *)
(* the resolver make none, and they end like the refused ones that are     *)
(* modelled.                                                               *)
(***************************************************************************)
EXTENDS IPBlocks, FiniteSets

CONSTANTS
    Input,          \* [nodeIPs, nsLabel, pods]: one ResolutionInput
    Policies,       \* the sequences of policies to compile
    Bad, BadPort, Absent,
    MaxPolicySubjects, MaxPolicyRules

ASSUME LimitsAssumption == MaxPolicySubjects \in Nat /\ MaxPolicyRules \in Nat

Both == {"egress", "ingress"}
Pods == Input.pods
Cgroups == UNION {p.cgroups : p \in Pods}
AllPolicies == UNION {ToSet(list) : list \in Policies}

\* A snapshot is finite, and so are the lists of a policy; its prefixes are parsed.
ASSUME InputAssumption ==
    /\ IsFiniteSet(Input.nodeIPs) /\ IsFiniteSet(Pods)
    /\ \A p \in Pods : IsFiniteSet(p.cgroups) /\ p.ips \subseteq Addresses

ASSUME PoliciesAssumption ==
    /\ Policies \subseteq Seq(AllPolicies)
    /\ \A policy \in AllPolicies : policy.spec # Absent =>
        /\ policy.spec.types # Absent => policy.spec.types \in Seq(STRING)
        /\ IsFiniteSet(policy.spec.ingress) /\ IsFiniteSet(policy.spec.egress)
        /\ \A rule \in policy.spec.ingress \cup policy.spec.egress :
            /\ IsFiniteSet(rule.peers) /\ IsFiniteSet(rule.ports)
            /\ \A peer \in rule.peers : peer.block # Absent =>
                peer.block.base \in AllPrefixes /\ peer.block.excepts \in Seq(AllPrefixes)

VARIABLES
    policies,   \* the policies to compile, in the order of nativePolicySortKey
    todo,       \* those not yet compiled
    subjects,   \* cgroup -> [isolated, quarantined, ips]
    rules,      \* the ruleKeys
    bypasses,   \* rule entries that node and self bypasses will take
    rejected,   \* the policies refused
    outcome     \* "compiling", "resolution", "capacity", "invalid" or "compiled"

compilerVars == <<policies, todo, subjects, rules, bypasses, rejected, outcome>>

CompilerTypeOK ==
    /\ \E n \in 0 .. Len(policies) : todo = SubSeq(policies, n + 1, Len(policies))
    /\ DOMAIN subjects \subseteq Cgroups
    /\ \A c \in DOMAIN subjects : /\ subjects[c].isolated \subseteq Both
                                  /\ subjects[c].quarantined \subseteq Both
                                  /\ subjects[c].ips \subseteq Addresses
    /\ \A r \in rules : r.cgroup \in Cgroups /\ r.direction \in Both /\ r.peer = Masked(r.peer)
    /\ bypasses \in Nat
    /\ outcome \in {"compiling", "resolution", "capacity", "invalid", "compiled"}

-----------------------------------------------------------------------------
(* validateNativePolicy and its helpers. *)

ValidSelector(sel) == sel # Bad
IsBlock(peer) == peer.block # Absent

ValidPeer(peer) ==
    /\ ~(peer.pods = Absent /\ peer.namespaces = Absent /\ peer.block = Absent)
    /\ IsBlock(peer) => peer.pods = Absent /\ peer.namespaces = Absent
    /\ ValidSelector(peer.pods) /\ ValidSelector(peer.namespaces)
    /\ IsBlock(peer) => ExpandNativeIPBlock(peer.block.base, peer.block.excepts).ok

ValidRule(rule) ==
    /\ rule.peers # {} /\ rule.ports # {}
    /\ \A peer \in rule.peers : ValidPeer(peer)
    /\ BadPort \notin rule.ports

\* policyTypes is a sequence, or Absent.
ValidTypes(spec) ==
    spec.types # Absent =>
        /\ spec.types # << >>
        /\ ToSet(spec.types) \subseteq Both /\ IsInjective(spec.types)
        /\ spec.ingress # {} => "ingress" \in ToSet(spec.types)
        /\ spec.egress # {} => "egress" \in ToSet(spec.types)

ValidateNativePolicy(policy) ==
    /\ policy.metadata = "ok"
    /\ policy.spec # Absent
    /\ policy.spec.selector \notin {Absent, Bad}
    /\ ValidTypes(policy.spec)
    /\ \A rule \in policy.spec.ingress \cup policy.spec.egress : ValidRule(rule)

\* Mutant: a refused policy quarantines the directions it names and no others.
DirectionsAsNamed(policy) ==
    IF policy.spec = Absent THEN Both
    ELSE IF policy.spec.types = Absent THEN {"ingress"}
    ELSE ToSet(policy.spec.types) \cap Both
\* nativePolicyDirections: what a policy isolates, and quarantines when it is refused.
Directions(policy) ==
    LET spec == policy.spec
        implied == {d \in Both : \/ d = "ingress" /\ spec.ingress # {}
                                 \/ d = "egress" /\ spec.egress # {}}
        named == (ToSet(spec.types) \cap Both) \cup implied
    IN  IF spec = Absent THEN Both
        ELSE IF spec.types = Absent THEN {"ingress"} \cup (implied \cap {"egress"})
        ELSE IF named = {} THEN Both ELSE named

-----------------------------------------------------------------------------
(* Selection of subjects and resolution of peers. *)

LocalPods(ns) == {p \in Pods : p.local /\ ~p.host /\ p.ns = ns}

SelectorAvailable(policy) == policy.spec # Absent /\ policy.spec.selector \notin {Absent, Bad}
SelectedLocalPods(policy) ==
    {p \in LocalPods(policy.ns) : p.label \in policy.spec.selector}

\* The pods a refused policy quarantines: all of its namespace, when there is no telling.
Quarantined(policy) ==
    IF SelectorAvailable(policy) THEN SelectedLocalPods(policy) ELSE LocalPods(policy.ns)

PeerPods(policy, peer) ==
    {p \in Pods :
        /\ ~p.host
        /\ peer.pods # Absent => p.label \in peer.pods
        /\ IF peer.namespaces = Absent THEN p.ns = policy.ns
           ELSE Input.nsLabel[p.ns] \in peer.namespaces}

HostPrefix(a) == [addr |-> a, bits |-> Width]
ResolvePeer(policy, peer) ==
    IF IsBlock(peer) THEN ExpandNativeIPBlock(peer.block.base, peer.block.excepts).prefixes
    ELSE {HostPrefix(a) : a \in UNION {p.ips : p \in PeerPods(policy, peer)}}

RulesOf(policy, pods, direction, specRules) ==
    UNION {[cgroup : UNION {p.cgroups : p \in pods}, direction : {direction},
            peer : UNION {ResolvePeer(policy, peer) : peer \in rule.peers},
            port : rule.ports] : rule \in specRules}

-----------------------------------------------------------------------------
(* The compilation. *)

RuleEntryCount == Cardinality(rules) + bypasses

\* normalizeResolutionInput refuses a snapshot without an IPv4 address of the node, a pod
\* of an unknown namespace, and a cgroup of two pods.
Normalized ==
    /\ Input.nodeIPs # {}
    /\ \A p \in Pods : p.ns \in DOMAIN Input.nsLabel
    /\ \A p, q \in Pods : p.cgroups \cap q.cgroups # {} => p = q

CompilerInit ==
    /\ policies \in Policies /\ todo = policies
    /\ subjects = << >> /\ rules = {} /\ rejected = {}
    /\ bypasses = Cardinality(Input.nodeIPs)
    /\ outcome = IF ~Normalized THEN "resolution"
                 ELSE IF RuleEntryCount > MaxPolicyRules THEN "capacity" ELSE "compiling"

\* addSelectedSubjects, for pods whose cgroups are all resolved.
WithSubjects(pods, isolated, quarantinedOf) ==
    [c \in DOMAIN subjects \cup UNION {p.cgroups : p \in pods} |->
        LET p == CHOOSE q \in Pods : c \in q.cgroups
            before == IF c \in DOMAIN subjects THEN subjects[c]
                      ELSE [isolated |-> {}, quarantined |-> {}, ips |-> p.ips]
        IN  IF p \in pods
            THEN [before EXCEPT !.isolated = @ \cup isolated,
                                !.quarantined = @ \cup quarantinedOf[p]]
            ELSE before]

\* The entries that let the addresses of each subject's own Pod pass.
SelfBypasses(subs, cgroups) == UNION {{c} \X subs[c].ips : c \in cgroups}

\* The rest of one policy: the counters are compared with their limits.
Added ==
    /\ bypasses' = bypasses
         + Cardinality(SelfBypasses(subjects', DOMAIN subjects' \ DOMAIN subjects))
    /\ outcome' = IF \/ Cardinality(DOMAIN subjects') > MaxPolicySubjects
                     \/ Cardinality(rules') + bypasses' > MaxPolicyRules
                  THEN "capacity" ELSE "compiling"

Unresolvable(pods) == \E p \in pods : p.failure

CompileRejected ==
    /\ outcome = "compiling" /\ todo # << >>
    /\ LET policy == Head(todo)
           pods == Quarantined(policy)
       IN  /\ ~ValidateNativePolicy(policy)
           /\ ~Unresolvable(pods)
           /\ rejected' = rejected \cup {policy}
           /\ subjects' = WithSubjects(pods, Directions(policy), [p \in pods |-> Directions(policy)])
    /\ rules' = rules
    /\ Added
    /\ todo' = Tail(todo)
    /\ UNCHANGED policies

CompileAccepted ==
    /\ outcome = "compiling" /\ todo # << >>
    /\ LET policy == Head(todo)
           dirs == Directions(policy)
           pods == SelectedLocalPods(policy)
       IN  /\ ValidateNativePolicy(policy)
           /\ ~Unresolvable(pods)
           /\ subjects' = WithSubjects(pods, dirs, [p \in pods |-> IF p.ipv6 THEN dirs ELSE {}])
           /\ rules' = rules
                \cup (IF "ingress" \in dirs
                      THEN RulesOf(policy, pods, "ingress", policy.spec.ingress) ELSE {})
                \cup (IF "egress" \in dirs
                      THEN RulesOf(policy, pods, "egress", policy.spec.egress) ELSE {})
    /\ Added
    /\ todo' = Tail(todo)
    /\ UNCHANGED <<policies, rejected>>

\* A selected pod runs a container whose cgroup is not known: no candidate at all.
CompileFails ==
    /\ outcome = "compiling" /\ todo # << >>
    /\ LET policy == Head(todo)
       IN  Unresolvable(IF ValidateNativePolicy(policy) THEN SelectedLocalPods(policy)
                        ELSE Quarantined(policy))
    /\ outcome' = "resolution"
    /\ UNCHANGED <<policies, todo, subjects, rules, bypasses, rejected>>

\* ValidatePolicySet, on the candidate.
PolicySetValid ==
    /\ Input.nodeIPs # {}
    /\ \A c \in DOMAIN subjects :
        subjects[c].isolated # {} /\ subjects[c].quarantined \subseteq subjects[c].isolated
    /\ \A r \in rules : r.cgroup \in DOMAIN subjects /\ r.port # BadPort
PolicySetFits ==
    /\ Cardinality(DOMAIN subjects) <= MaxPolicySubjects
    /\ Cardinality(rules) + Cardinality(Input.nodeIPs)
         + Cardinality(SelfBypasses(subjects, DOMAIN subjects))
       <= MaxPolicyRules

Finish ==
    /\ outcome = "compiling" /\ todo = << >>
    /\ outcome' = IF ~PolicySetValid THEN "invalid"
                  ELSE IF ~PolicySetFits THEN "capacity" ELSE "compiled"
    /\ UNCHANGED <<policies, todo, subjects, rules, bypasses, rejected>>

CompilerNext == CompileRejected \/ CompileAccepted \/ CompileFails \/ Finish

CompilerSpec == CompilerInit /\ [][CompilerNext]_compilerVars

-----------------------------------------------------------------------------
(* What NetworkPolicies mean, stated on the policies themselves. *)

\* A policy bears on a pod; one that cannot be read bears on its whole namespace.
Concerns(policy, p) ==
    /\ p.local /\ ~p.host /\ p.ns = policy.ns
    /\ (policy.spec # Absent => policy.spec.selector \in {Absent, Bad}
                                \/ p.label \in policy.spec.selector)

\* An accepted policy restricts the types it lists, or by default ingress, and egress if
\* it has egress rules.  A refused one restricts all that it mentions in any way.
Restricts(policy, d) ==
    LET spec == policy.spec
        listed == spec.types # Absent /\ d \in ToSet(spec.types)
        ruled == IF d = "ingress" THEN spec.ingress # {} ELSE spec.egress # {}
        mentionsNone == /\ spec.types # Absent /\ ToSet(spec.types) \cap Both = {}
                        /\ spec.ingress = {} /\ spec.egress = {}
    IN  IF spec = Absent THEN TRUE
        ELSE IF ValidateNativePolicy(policy)
             THEN IF spec.types = Absent THEN d = "ingress" \/ ruled ELSE listed
             ELSE listed \/ ruled \/ mentionsNone \/ (spec.types = Absent /\ d = "ingress")

PeerMeans(policy, peer, a) ==
    IF IsBlock(peer) THEN a \in Wanted(peer.block.base, peer.block.excepts)
    ELSE \E q \in Pods :
            /\ ~q.host /\ a \in q.ips
            /\ (peer.pods = Absent \/ q.label \in peer.pods)
            /\ (IF peer.namespaces = Absent THEN q.ns = policy.ns
                ELSE Input.nsLabel[q.ns] \in peer.namespaces)

Permits(p, d, a, port) ==
    LET bearing == {policy \in ToSet(policies) : Concerns(policy, p) /\ Restricts(policy, d)}
    IN  \/ bearing = {}
        \/ /\ \A policy \in bearing : ValidateNativePolicy(policy)
           /\ ~p.ipv6
           /\ \E policy \in bearing :
                \E rule \in (IF d = "ingress" THEN policy.spec.ingress ELSE policy.spec.egress) :
                    port \in rule.ports /\ \E peer \in rule.peers : PeerMeans(policy, peer, a)

\* What the packet programs make of the compiled set (enforce_packet).
Allows(c, d, a, port) ==
    \/ c \notin DOMAIN subjects
    \/ d \notin subjects[c].isolated
    \/ /\ d \notin subjects[c].quarantined
       /\ \E r \in rules : r.cgroup = c /\ r.direction = d /\ r.port = port /\ Holds(r.peer, a)

PortsUsed ==
    LET used(policy) == IF policy.spec = Absent THEN {}
                        ELSE UNION {r.ports : r \in policy.spec.ingress \cup policy.spec.egress}
    IN  UNION {used(policies[i]) : i \in DOMAIN policies} \ {BadPort}

\* Whatever the order of the policies, the compiled subjects and rules let the packet
\* programs decide as the policies themselves demand for every local container, and
\* where a refused policy or an IPv6 address leaves that open, they deny
\* (CompileNativePolicies).
CompiledMatchesPolicies ==
    outcome = "compiled" =>
        \A p \in {q \in Pods : q.local /\ ~q.host} : \A c \in p.cgroups, d \in Both,
            a \in Addresses, port \in PortsUsed :
                Allows(c, d, a, port) <=> Permits(p, d, a, port)

\* A snapshot with a running container of unknown cgroup is not compiled into a set that
\* would leave that container out, if some policy bears on its pod (addSelectedSubjects).
NoContainerLeftOut ==
    outcome = "compiled" =>
        \A p \in Pods, i \in DOMAIN policies : p.failure => ~Concerns(policies[i], p)

\* The boundary check never refuses what the compiler has produced: the entries counted
\* while compiling are those of the candidate, every rule has its subject, and only
\* isolated directions are quarantined (ValidatePolicySet, ruleEntryCount).
CandidateAlwaysValid ==
    (outcome = "compiling" /\ todo = << >>) => PolicySetValid /\ PolicySetFits

\* The compiler is right: types, the compiled rules let pass what the policies
\* let pass, no container of a selected Pod is left out, and every candidate is
\* one that the engine accepts (CompileNativePolicies).
CompilerCorrect ==
  /\ CompilerTypeOK
  /\ CompiledMatchesPolicies
  /\ NoContainerLeftOut
  /\ CandidateAlwaysValid
==============================================================================
