---------------------------- MODULE WorkloadGuard ----------------------------
(***************************************************************************)
(* The guard on the Kubernetes parent cgroup: no container sends or        *)
(* receives before it is classified.  Sockets of the node's network        *)
(* namespace are exempt, known by the namespace cookie captured when they  *)
(* are created or, if they are older than the capture, by the host-network *)
(* containers node-init has recorded; the agent itself may talk to the API *)
(* servers node-init has found (guard_packet in bpf/engine.c,              *)
(* installGuard in internal/enforcer/guard_linux.go,                       *)
(* internal/cli/node_init_linux.go).                                       *)
(*                                                                         *)
(* Simplifications: a container is its cgroup; only host-network ones are  *)
(* given sockets, one at a time, since the cookie of another namespace     *)
(* never matches; cgroup identifiers are not reused within a boot; one     *)
(* parent is guarded; the reader protocol of the classification lookup is  *)
(* that of PolicySlots; program generations and recovery are in            *)
(* EnforcementPins.                                                        *)
(* Records are taken to be complete and of this node and boot.  Peers are  *)
(* added one by one, the two directions of a peer in one step; removing    *)
(* the old ones, and pruning and recording host owners, are one step each. *)
(***************************************************************************)
EXTENDS FiniteSets

CONSTANTS
    Hosts,      \* host-network containers
    Workloads,  \* ordinary containers
    Agents,     \* containers of the agent's pod, ordinary ones too
    Peers,      \* addresses and ports of API servers and others
    None

Containers == Hosts \cup Workloads \cup Agents

ASSUME HostsAreApart == Hosts \cap (Workloads \cup Agents) = {}
ASSUME NoneIsNoContainer == None \notin Containers

Directional == {"egress", "ingress"}
Kinds == {"syn", "synack", "ack", "udp", "malformed"}
Packets == [dir : Directional, peer : Peers, kind : Kinds]

VARIABLES
    life,       \* "absent", "alive" or "dead"
    socket,     \* per host-network container, "none", "plain" or "captured"
    born,       \* history: whether a directional guard was attached when it was created
    api,        \* the API servers of the moment
    scan,       \* what a running node-init has found, or None
    record,     \* the bootstrap record, or None
    owners,     \* host_owners
    peers,      \* bootstrap_peers
    config,     \* guard_config: [cookie, bootstrap]
    links,      \* guard links attached to the parent
    classified, \* workload_class of the active slot
    agent       \* [pc, self, record]: the agent process and the record it has loaded

node == <<life, socket, born, api>>
tables == <<owners, peers, config, links, classified>>
vars == <<node, scan, record, tables, agent>>

Down == [pc |-> "down", self |-> None, record |-> None]
Records == [hosts : SUBSET Hosts, peers : SUBSET Peers]

TypeOK ==
    /\ life \in [Containers -> {"absent", "alive", "dead"}]
    /\ socket \in [Hosts -> {"none", "plain", "captured"}]
    /\ born \in [Hosts -> BOOLEAN]
    /\ api \subseteq Peers /\ api # {}
    /\ scan \in Records \cup {None} /\ record \in Records \cup {None}
    /\ owners \subseteq Hosts /\ peers \subseteq Peers
    /\ config.cookie \in BOOLEAN /\ config.bootstrap \in Agents \cup {None}
    /\ links \subseteq Directional \cup {"socket"}
    /\ classified \subseteq Workloads \cup Agents
    /\ agent.pc \in {"down", "prune", "clearPeers", "putPeers", "putOwners", "putConfig",
                     "socket", "egress", "ingress", "running"}

Init ==
    /\ life = [c \in Containers |-> "absent"]
    /\ socket = [c \in Hosts |-> "none"]
    /\ born = [c \in Hosts |-> FALSE]
    /\ api \in (SUBSET Peers) \ {{}}
    /\ scan = None /\ record = None
    /\ owners = {} /\ peers = {}
    /\ config = [cookie |-> FALSE, bootstrap |-> None]
    /\ links = {} /\ classified = {}
    /\ agent = Down

-----------------------------------------------------------------------------
(* The node. *)

Start(c) ==
    /\ life[c] = "absent"
    /\ life' = [life EXCEPT ![c] = "alive"]
    /\ UNCHANGED <<socket, born, api, scan, record, tables, agent>>

\* The container of the agent ends with its process.
End(c) ==
    /\ life[c] = "alive"
    /\ life' = [life EXCEPT ![c] = "dead"]
    /\ socket' = [h \in Hosts |-> IF h = c THEN "none" ELSE socket[h]]
    /\ agent' = IF agent.self = c THEN Down ELSE agent
    /\ UNCHANGED <<born, api, scan, record, tables>>

\* ztap_socket_namespace runs when the capture is attached.
CreateSocket(h) ==
    /\ life[h] = "alive"
    /\ socket' = [socket EXCEPT ![h] = IF "socket" \in links THEN "captured" ELSE "plain"]
    /\ born' = [born EXCEPT ![h] = links \cap Directional # {}]
    /\ UNCHANGED <<life, api, scan, record, tables, agent>>

ApiMoves ==
    /\ api' \in (SUBSET Peers) \ {{}, api}
    /\ UNCHANGED <<life, socket, born, scan, record, tables, agent>>

-----------------------------------------------------------------------------
(* node-init, which may run at any time. *)

\* scanBootstrapHostNetworkIdentities: what runs in the cgroups of host-network pods.
ScanHostNetworkIdentities == {h \in Hosts : life[h] = "alive"}

\* initializeNodeBootstrap asks the API and looks at the cgroups of what it lists ...
Scan ==
    /\ scan = None
    /\ scan' = [hosts |-> ScanHostNetworkIdentities, peers |-> api]
    /\ UNCHANGED <<node, record, tables, agent>>

\* ... and replaces the record by a renamed file, or fails before that.
WriteNodeBootstrap ==
    /\ scan # None
    /\ record' \in {scan, record}
    /\ scan' = None
    /\ UNCHANGED <<node, tables, agent>>

-----------------------------------------------------------------------------
(* The agent starts: installGuard, in the order of its writes. *)

\* loadNodeGuardBootstrap; the node lock admits one agent.
LoadNodeGuardBootstrap(a) ==
    /\ agent.pc = "down" /\ life[a] = "alive"
    /\ record # None
    /\ agent' = [pc |-> "prune", self |-> a, record |-> record]
    /\ UNCHANGED <<node, scan, record, tables>>

\* Mutant: host owners start anew, as bootstrap peers do.
PruneAllHostOwners ==
    /\ agent.pc = "prune"
    /\ owners' = {}
    /\ agent' = [agent EXCEPT !.pc = "clearPeers"]
    /\ UNCHANGED <<node, scan, record, peers, config, links, classified>>
PruneDeadHostOwners ==
    /\ agent.pc = "prune"
    /\ owners' = {h \in owners : life[h] = "alive"}
    /\ agent' = [agent EXCEPT !.pc = "clearPeers"]
    /\ UNCHANGED <<node, scan, record, peers, config, links, classified>>

\* Mutant: the peers of the last agent are kept.
ClearPeersNot ==
    /\ agent.pc = "clearPeers"
    /\ agent' = [agent EXCEPT !.pc = "putPeers"]
    /\ UNCHANGED <<node, scan, record, tables>>
ClearPeers ==
    /\ agent.pc = "clearPeers"
    /\ peers' = {}
    /\ agent' = [agent EXCEPT !.pc = "putPeers"]
    /\ UNCHANGED <<node, scan, record, owners, config, links, classified>>

PutPeers ==
    /\ agent.pc = "putPeers"
    /\ \E p \in agent.record.peers \ peers : peers' = peers \cup {p}
    /\ UNCHANGED <<node, scan, record, owners, config, links, classified, agent>>
PeersComplete ==
    /\ agent.pc = "putPeers" /\ agent.record.peers \subseteq peers
    /\ agent' = [agent EXCEPT !.pc = "putOwners"]
    /\ UNCHANGED <<node, scan, record, tables>>

\* Recorded containers that are dead by now are passed over.
PutHostOwners ==
    /\ agent.pc = "putOwners"
    /\ owners' = owners \cup {h \in agent.record.hosts : life[h] = "alive"}
    /\ agent' = [agent EXCEPT !.pc = "putConfig"]
    /\ UNCHANGED <<node, scan, record, peers, config, links, classified>>

PutConfig ==
    /\ agent.pc = "putConfig"
    /\ config' = [cookie |-> TRUE, bootstrap |-> agent.self]
    /\ agent' = [agent EXCEPT !.pc = "socket"]
    /\ UNCHANGED <<node, scan, record, owners, peers, links, classified>>

\* installParentGuard: the capture first, then the two directions.
AfterLink == [socket |-> "egress", egress |-> "ingress", ingress |-> "running"]
\* A link that is there already gets the new program in place.
InstallLink ==
    /\ agent.pc \in {"socket", "egress", "ingress"}
    /\ links' = links \cup {agent.pc}
    /\ agent' = [agent EXCEPT !.pc = AfterLink[agent.pc]]
    /\ UNCHANGED <<node, scan, record, owners, peers, config, classified>>

\* A check or a write fails, or the process dies, at any point.
AgentDies ==
    /\ agent.pc # "down"
    /\ life' = [life EXCEPT ![agent.self] = "dead"]
    /\ agent' = Down
    /\ UNCHANGED <<socket, born, api, scan, record, tables>>

\* A policy with its classification is committed.
Commit ==
    /\ agent.pc = "running"
    /\ classified' \in SUBSET {c \in Workloads \cup Agents : life[c] = "alive"}
    /\ UNCHANGED <<node, scan, record, owners, peers, config, links, agent>>

Next ==
    \/ \E c \in Containers : Start(c) \/ End(c)
    \/ \E h \in Hosts : CreateSocket(h)
    \/ ApiMoves \/ Scan \/ WriteNodeBootstrap
    \/ \E a \in Agents : LoadNodeGuardBootstrap(a)
    \/ PruneDeadHostOwners \/ ClearPeers \/ PutPeers \/ PeersComplete
    \/ PutHostOwners \/ PutConfig \/ InstallLink
    \/ AgentDies \/ Commit

Spec == Init /\ [][Next]_vars

-----------------------------------------------------------------------------
(* guard_packet *)

\* The agent before its classification: TCP to the API servers, and their replies.
BootstrapAllows(packet) ==
    /\ packet.kind \in {"syn", "synack", "ack"}
    /\ packet.dir = "ingress" => packet.kind \in {"ack", "synack"}
    /\ packet.peer \in peers

Exempt(c, packet) ==
    /\ config.cookie
    /\ \/ c \in Hosts /\ socket[c] = "captured"
       \/ c \in owners
       \/ c = config.bootstrap /\ BootstrapAllows(packet)

Passes(c, packet) ==
    packet.dir \in links => Exempt(c, packet) \/ c \in classified

-----------------------------------------------------------------------------
(* Properties. *)

\* Under the guard a live container that is not classified exchanges nothing, save the
\* running agent's TCP connections to the API servers of the record it was started with,
\* whatever earlier agents, their records and their crashes have left behind
\* (guard_packet, installGuard).
UnclassifiedBlocked ==
    \A c \in (Workloads \cup Agents) \ classified, packet \in Packets :
        (life[c] = "alive" /\ packet.dir \in links /\ Passes(c, packet)) =>
            /\ c = agent.self
            /\ packet.peer \in agent.record.peers
            /\ packet.kind \in {"syn", "synack", "ack"}
            /\ packet.dir = "ingress" => packet.kind # "syn"

\* A host-network socket is never cut off: neither one created since a guard could block
\* it, nor any socket of a container that an installation has recorded, through restarts of
\* the agent and stale records (installParentGuard, pruneDeadHostOwners).
HostTrafficFlows ==
    \A h \in Hosts : (life[h] = "alive" /\ socket[h] # "none" /\ (born[h] \/ h \in owners)) =>
        \A packet \in Packets : Passes(h, packet)

\* A recorded host-network container keeps its exemption while it lives
\* (pruneDeadHostOwners).
OwnersKeptWhileAlive == [][\A h \in owners : life'[h] = "alive" => h \in owners']_vars

\* An agent that has installed its guard reaches the API servers of its record before it
\* is classified (installGuard, guard_packet).
AgentReachesAPI ==
    agent.pc \in {"socket", "egress", "ingress", "running"} =>
        \A p \in agent.record.peers :
            /\ Passes(agent.self, [dir |-> "egress", peer |-> p, kind |-> "syn"])
            /\ Passes(agent.self, [dir |-> "ingress", peer |-> p, kind |-> "synack"])
            /\ Passes(agent.self, [dir |-> "ingress", peer |-> p, kind |-> "ack"])

\* What the guard is for, at every moment between two of its writes: a workload
\* that no policy has classified is blocked, the host's own traffic flows, and
\* the agent reaches the API server (installGuard, guard_packet).
GuardExact ==
  TypeOK /\ UnclassifiedBlocked /\ HostTrafficFlows /\ AgentReachesAPI
==============================================================================
