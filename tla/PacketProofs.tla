------------------------------ MODULE PacketProofs ------------------------------
(***************************************************************************)
(* Proofs about what decides on a packet.                                  *)
(*                                                                         *)
(* WorkloadGuard, for any containers and peers: at every moment of an      *)
(* installation, and after any crash of an agent, the guard blocks what is *)
(* not classified, lets the host's traffic pass and lets the agent reach   *)
(* its API servers.  PacketParser, for any packet: valid is what has its   *)
(* headers whole.  PacketDecision, for any pods, policies and packets: the *)
(* verdict is the documented one after any history.  RuleKeys, for any     *)
(* widths of the fields and any policies: the trie answers as the rules    *)
(* of the slot do.  BlockExpansion, for addresses of any width and any     *)
(* ipBlocks: an expansion is exact and the smallest one.  PolicyCompiler,  *)
(* for any snapshot and policies: the compiled set decides as the policies *)
(* do.                                                                     *)
(***************************************************************************)
EXTENDS WorkloadGuard, PacketParser, PacketDecision, RuleKeys, BlockExpansion, PolicyCompiler,
        FiniteSetTheorems, WellFoundedInduction, TLAPS

(***************************************************************************)
(* WorkloadGuard.                                                          *)
(***************************************************************************)
\* The types that TypeOK leaves open.
Shapes ==
    /\ config \in [cookie : BOOLEAN, bootstrap : Agents \cup {None}]
    /\ agent \in [pc : {"down", "prune", "clearPeers", "putPeers", "putOwners", "putConfig",
                        "socket", "egress", "ingress", "running"},
                  self : Agents \cup {None}, record : Records \cup {None}]

\* The process lives in its container, and has a record.
AgentLives ==
    /\ agent.pc # "down" => agent.self \in Agents /\ life[agent.self] = "alive"
    /\ agent.pc # "down" => agent.record \in Records
    /\ agent.pc = "down" => agent.self = None

\* The peers in the map are those of the record the agent was started with,
\* from the moment they are written.
PeersOfRecord ==
    /\ agent.pc = "putPeers" => peers \subseteq agent.record.peers
    /\ agent.pc \in {"putOwners", "putConfig", "socket", "egress", "ingress", "running"}
         => peers = agent.record.peers

\* The container that the configuration exempts is dead unless it is the one of
\* the agent that wrote the configuration: a container never comes back.
BootstrapIsSelf ==
    /\ agent.pc \in {"socket", "egress", "ingress", "running"}
         => config.cookie /\ config.bootstrap = agent.self
    /\ agent.pc \in {"prune", "clearPeers", "putPeers", "putOwners", "putConfig"}
         => config.bootstrap # agent.self
    /\ config.bootstrap # None /\ config.bootstrap # agent.self
         => life[config.bootstrap] = "dead"

\* The capture is attached before the directions, and all of them after the
\* configuration.
LinksInOrder ==
    /\ links # {} => config.cookie
    /\ links \cap Directional # {} => "socket" \in links
    /\ agent.pc \in {"egress", "ingress", "running"} => "socket" \in links

\* A socket created under a directional guard was captured.
SocketsCaptured ==
    \A h \in Hosts : born[h] /\ socket[h] # "none" => socket[h] = "captured"

IInv ==
    /\ TypeOK
    /\ Shapes
    /\ AgentLives
    /\ PeersOfRecord
    /\ BootstrapIsSelf
    /\ LinksInOrder
    /\ SocketsCaptured

-----------------------------------------------------------------------------
(* Every step preserves the invariant: one lemma per action.               *)

\* A container starts once.
LEMMA StartPreserves ==
  ASSUME IInv, NEW c \in Containers, Start(c)
  PROVE  IInv'
BY DEF IInv, TypeOK, Shapes, AgentLives, PeersOfRecord, BootstrapIsSelf, LinksInOrder,
   SocketsCaptured, Directional, Start, node, tables

\* A container ends with the process and the sockets in it.
LEMMA EndPreserves ==
  ASSUME IInv, NEW c \in Containers, End(c)
  PROVE  IInv'
<1> USE DEF End, node, tables
<1>1. TypeOK'
  BY DEF IInv, TypeOK, Directional, Down
<1>2. Shapes'
  BY DEF IInv, TypeOK, Shapes, Down
<1>3. AgentLives'
  BY NoneIsNoContainer DEF IInv, TypeOK, Shapes, AgentLives, Containers, Down
<1>4. PeersOfRecord'
  BY DEF IInv, Shapes, PeersOfRecord, Down
<1>5. BootstrapIsSelf'
  BY NoneIsNoContainer DEF IInv, TypeOK, Shapes, AgentLives, BootstrapIsSelf, Containers,
     Down
<1>6. LinksInOrder'
  BY DEF IInv, LinksInOrder, Directional, Down
<1>7. SocketsCaptured'
  BY DEF IInv, SocketsCaptured
<1> QED
  BY <1>1, <1>2, <1>3, <1>4, <1>5, <1>6, <1>7 DEF IInv

\* A socket created under a directional guard is captured.
LEMMA CreateSocketPreserves ==
  ASSUME IInv, NEW h \in Hosts, CreateSocket(h)
  PROVE  IInv'
<1> USE DEF CreateSocket, node, tables
<1>1. SocketsCaptured'
  <2>1. /\ "socket" \notin links => links \cap Directional = {}
        /\ \A g \in Hosts \ {h} : socket'[g] = socket[g] /\ born'[g] = born[g]
        /\ socket'[h] = IF "socket" \in links THEN "captured" ELSE "plain"
        /\ born'[h] = (links \cap Directional # {})
    BY DEF IInv, TypeOK, LinksInOrder
  <2> QED
    BY <2>1 DEF IInv, SocketsCaptured
<1>2. /\ TypeOK' /\ Shapes' /\ AgentLives' /\ PeersOfRecord' /\ BootstrapIsSelf'
      /\ LinksInOrder'
  BY DEF IInv, TypeOK, Shapes, AgentLives, PeersOfRecord, BootstrapIsSelf, LinksInOrder,
     Directional
<1> QED
  BY <1>1, <1>2 DEF IInv

\* The API servers move without the guard.
LEMMA ApiMovesPreserves ==
  ASSUME IInv, ApiMoves
  PROVE  IInv'
BY DEF IInv, TypeOK, Shapes, AgentLives, PeersOfRecord, BootstrapIsSelf, LinksInOrder,
   SocketsCaptured, Directional, ApiMoves, node, tables

\* node-init looks at the node.
LEMMA ScanPreserves ==
  ASSUME IInv, Scan
  PROVE  IInv'
<1> USE DEF ScanHostNetworkIdentities, Scan, node, tables
<1>1. TypeOK'
  BY DEF IInv, TypeOK, Directional, Records
<1>2. /\ Shapes' /\ AgentLives' /\ PeersOfRecord' /\ BootstrapIsSelf' /\ LinksInOrder'
      /\ SocketsCaptured'
  BY DEF IInv, Shapes, AgentLives, PeersOfRecord, BootstrapIsSelf, LinksInOrder,
     SocketsCaptured, Directional
<1> QED
  BY <1>1, <1>2 DEF IInv

\* node-init replaces the record.
LEMMA WriteNodeBootstrapPreserves ==
  ASSUME IInv, WriteNodeBootstrap
  PROVE  IInv'
BY DEF IInv, TypeOK, Shapes, AgentLives, PeersOfRecord, BootstrapIsSelf, LinksInOrder,
   SocketsCaptured, Directional, WriteNodeBootstrap, node, tables

\* A new agent lives in a container that no configuration names.
LEMMA LoadNodeGuardBootstrapPreserves ==
  ASSUME IInv, NEW a \in Agents, LoadNodeGuardBootstrap(a)
  PROVE  IInv'
<1> USE DEF LoadNodeGuardBootstrap, node, tables
<1>1. Shapes' /\ AgentLives'
  BY DEF IInv, TypeOK, Shapes, AgentLives
<1>2. BootstrapIsSelf'
  BY NoneIsNoContainer DEF IInv, TypeOK, Shapes, AgentLives, BootstrapIsSelf, Containers,
     Down
<1>3. TypeOK' /\ PeersOfRecord' /\ LinksInOrder' /\ SocketsCaptured'
  BY DEF IInv, TypeOK, PeersOfRecord, LinksInOrder, SocketsCaptured, Directional
<1> QED
  BY <1>1, <1>2, <1>3 DEF IInv

\* Only dead owners go.
LEMMA PruneDeadHostOwnersPreserves ==
  ASSUME IInv, PruneDeadHostOwners
  PROVE  IInv'
BY DEF IInv, TypeOK, Shapes, AgentLives, PeersOfRecord, BootstrapIsSelf, LinksInOrder,
   SocketsCaptured, Directional, PruneDeadHostOwners, node, tables

\* The peers of the last agent go.
LEMMA ClearPeersPreserves ==
  ASSUME IInv, ClearPeers
  PROVE  IInv'
BY DEF IInv, TypeOK, Shapes, AgentLives, PeersOfRecord, BootstrapIsSelf, LinksInOrder,
   SocketsCaptured, Directional, ClearPeers, node, tables

\* The peers of the record are written.
LEMMA PutPeersPreserves ==
  ASSUME IInv, PutPeers
  PROVE  IInv'
<1> USE DEF PutPeers, node, tables
<1>1. TypeOK'
  BY DEF IInv, TypeOK, Shapes, AgentLives, Directional, Records
<1>2. /\ Shapes' /\ AgentLives' /\ PeersOfRecord' /\ BootstrapIsSelf' /\ LinksInOrder'
      /\ SocketsCaptured'
  BY DEF IInv, Shapes, AgentLives, PeersOfRecord, BootstrapIsSelf, LinksInOrder,
     SocketsCaptured, Directional
<1> QED
  BY <1>1, <1>2 DEF IInv

\* All of them are.
LEMMA PeersCompletePreserves ==
  ASSUME IInv, PeersComplete
  PROVE  IInv'
<1> USE DEF PeersComplete, node, tables
<1>1. PeersOfRecord'
  BY DEF IInv, TypeOK, Shapes, AgentLives, PeersOfRecord, Records
<1>2. /\ TypeOK' /\ Shapes' /\ AgentLives' /\ BootstrapIsSelf' /\ LinksInOrder'
      /\ SocketsCaptured'
  BY DEF IInv, TypeOK, Shapes, AgentLives, BootstrapIsSelf, LinksInOrder, SocketsCaptured,
     Directional
<1> QED
  BY <1>1, <1>2 DEF IInv

\* The host-network containers of the record are added.
LEMMA PutHostOwnersPreserves ==
  ASSUME IInv, PutHostOwners
  PROVE  IInv'
<1> USE DEF PutHostOwners, node, tables
<1>1. TypeOK'
  BY DEF IInv, TypeOK, Shapes, AgentLives, Directional, Records
<1>2. /\ Shapes' /\ AgentLives' /\ PeersOfRecord' /\ BootstrapIsSelf' /\ LinksInOrder'
      /\ SocketsCaptured'
  BY DEF IInv, Shapes, AgentLives, PeersOfRecord, BootstrapIsSelf, LinksInOrder,
     SocketsCaptured, Directional
<1> QED
  BY <1>1, <1>2 DEF IInv

\* The configuration names the agent.
LEMMA PutConfigPreserves ==
  ASSUME IInv, PutConfig
  PROVE  IInv'
<1> USE DEF PutConfig, node, tables
<1>1. TypeOK'
  BY DEF IInv, TypeOK, Shapes, AgentLives, Directional, Records
<1>2. /\ Shapes' /\ AgentLives' /\ PeersOfRecord' /\ BootstrapIsSelf' /\ LinksInOrder'
      /\ SocketsCaptured'
  BY DEF IInv, Shapes, AgentLives, PeersOfRecord, BootstrapIsSelf, LinksInOrder,
     SocketsCaptured, Directional
<1> QED
  BY <1>1, <1>2 DEF IInv

\* The capture, then the directions.
LEMMA InstallLinkPreserves ==
  ASSUME IInv, InstallLink
  PROVE  IInv'
<1> USE DEF InstallLink, node, tables
<1>1. TypeOK'
  BY DEF IInv, TypeOK, Shapes, AgentLives, Directional, AfterLink
<1>2. Shapes'
  BY DEF IInv, TypeOK, Shapes, AfterLink
<1>3. AgentLives'
  BY DEF IInv, AgentLives, AfterLink
<1>4. BootstrapIsSelf'
  BY DEF IInv, BootstrapIsSelf, AfterLink
<1>5. LinksInOrder'
  BY DEF IInv, BootstrapIsSelf, LinksInOrder, Directional
<1>6. PeersOfRecord' /\ SocketsCaptured'
  BY DEF IInv, PeersOfRecord, SocketsCaptured
<1> QED
  BY <1>1, <1>2, <1>3, <1>4, <1>5, <1>6 DEF IInv

\* The container of a dead agent is dead.
LEMMA AgentDiesPreserves ==
  ASSUME IInv, AgentDies
  PROVE  IInv'
<1> USE DEF AgentDies, node, tables
<1>1. TypeOK'
  BY DEF IInv, TypeOK, AgentLives, Directional, Containers, Down
<1>2. Shapes'
  BY DEF IInv, TypeOK, Shapes, Down
<1>3. AgentLives'
  BY NoneIsNoContainer DEF IInv, TypeOK, Shapes, AgentLives, Containers, Down
<1>4. PeersOfRecord'
  BY DEF IInv, Shapes, PeersOfRecord, Down
<1>5. BootstrapIsSelf'
  BY NoneIsNoContainer DEF IInv, TypeOK, Shapes, AgentLives, BootstrapIsSelf, Containers,
     Down
<1>6. LinksInOrder'
  BY DEF IInv, LinksInOrder, Directional, Down
<1>7. SocketsCaptured'
  BY DEF IInv, SocketsCaptured
<1> QED
  BY <1>1, <1>2, <1>3, <1>4, <1>5, <1>6, <1>7 DEF IInv

\* A classification is committed.
LEMMA CommitPreserves ==
  ASSUME IInv, Commit
  PROVE  IInv'
BY DEF IInv, TypeOK, Shapes, AgentLives, PeersOfRecord, BootstrapIsSelf, LinksInOrder,
   SocketsCaptured, Directional, Commit, node, tables

-----------------------------------------------------------------------------
\* A node without a guard satisfies the invariant.
LEMMA InitEstablishes == Init => IInv
<1> SUFFICES ASSUME Init
             PROVE  IInv
  OBVIOUS
<1>1. TypeOK /\ Shapes
  BY DEF Init, TypeOK, Shapes, Down
<1>2. AgentLives /\ PeersOfRecord /\ BootstrapIsSelf /\ LinksInOrder /\ SocketsCaptured
  BY DEF Init, AgentLives, PeersOfRecord, BootstrapIsSelf, LinksInOrder, SocketsCaptured, Down
<1> QED
  BY <1>1, <1>2 DEF IInv

\* Stuttering keeps what the invariant is about.
LEMMA StutterPreserves ==
  ASSUME IInv, UNCHANGED vars
  PROVE  IInv'
BY DEF IInv, TypeOK, Shapes, AgentLives, PeersOfRecord, BootstrapIsSelf, LinksInOrder,
   SocketsCaptured, vars, node, tables

\* Every step of the node, of node-init and of the agent preserves the invariant.
LEMMA StepPreserves == IInv /\ [Next]_vars => IInv'
<1> SUFFICES ASSUME IInv, [Next]_vars
             PROVE  IInv'
  OBVIOUS
<1>1. CASE \/ \E c \in Containers : Start(c) \/ End(c)
           \/ \E h \in Hosts : CreateSocket(h)
           \/ ApiMoves \/ Scan \/ WriteNodeBootstrap
  BY <1>1, StartPreserves, EndPreserves, CreateSocketPreserves, ApiMovesPreserves,
     ScanPreserves, WriteNodeBootstrapPreserves
<1>2. CASE \/ \E a \in Agents : LoadNodeGuardBootstrap(a)
           \/ PruneDeadHostOwners \/ ClearPeers \/ PutPeers \/ PeersComplete
  BY <1>2, LoadNodeGuardBootstrapPreserves, PruneDeadHostOwnersPreserves,
     ClearPeersPreserves, PutPeersPreserves, PeersCompletePreserves
<1>3. CASE PutHostOwners \/ PutConfig \/ InstallLink \/ AgentDies \/ Commit
  BY <1>3, PutHostOwnersPreserves, PutConfigPreserves, InstallLinkPreserves,
     AgentDiesPreserves, CommitPreserves
<1>4. CASE UNCHANGED vars
  BY <1>4, StutterPreserves
<1> QED
  BY <1>1, <1>2, <1>3, <1>4 DEF Next

\* The inductive invariant of the guard's installation.
THEOREM Invariant == Spec => []IInv
BY InitEstablishes, StepPreserves, PTL DEF Spec

-----------------------------------------------------------------------------
(* What the invariant says about guard_packet.                             *)

\* A container that is no host-network one passes unclassified only as the
\* agent of the configuration.
LEMMA BlocksUnclassified == IInv => UnclassifiedBlocked
<1> SUFFICES ASSUME IInv,
                    NEW c \in (Workloads \cup Agents) \ classified, NEW packet \in Packets,
                    life[c] = "alive", packet.dir \in links, Passes(c, packet)
             PROVE  /\ c = agent.self
                    /\ packet.peer \in agent.record.peers
                    /\ packet.kind \in {"syn", "synack", "ack"}
                    /\ packet.dir = "ingress" => packet.kind # "syn"
  BY DEF UnclassifiedBlocked
<1>1. c \notin Hosts /\ c \notin owners /\ c # None
  BY HostsAreApart, NoneIsNoContainer DEF IInv, TypeOK, Containers
<1>2. c = config.bootstrap /\ BootstrapAllows(packet)
  BY <1>1 DEF Passes, Exempt
<1>3. c = agent.self /\ agent.pc \in {"socket", "egress", "ingress", "running"}
  BY <1>1, <1>2 DEF IInv, Shapes, AgentLives, BootstrapIsSelf
<1> QED
  BY <1>2, <1>3 DEF IInv, PeersOfRecord, BootstrapAllows

\* A host-network socket is captured, or its container recorded.
LEMMA HostTrafficPasses == IInv => HostTrafficFlows
BY DEF IInv, TypeOK, LinksInOrder, SocketsCaptured, HostTrafficFlows, Passes, Exempt

\* The configuration and the peers are in place before the first link.
LEMMA AgentPasses == IInv => AgentReachesAPI
BY DEF IInv, PeersOfRecord, BootstrapIsSelf, AgentReachesAPI, Passes, Exempt, BootstrapAllows

\* At every moment between two writes of an installation, and whatever earlier
\* agents, records and crashes have left behind: an unclassified container is
\* blocked but for the agent's connections to its API servers, no socket of the
\* host is cut off, and the agent reaches the API servers of its record; for any
\* number of containers and peers (installGuard, guard_packet).
THEOREM GuardIsExact == Spec => []GuardExact
<1>1. IInv => GuardExact
  BY BlocksUnclassified, HostTrafficPasses, AgentPasses DEF IInv, GuardExact
<1> QED
  BY <1>1, Invariant, PTL

\* No installation takes the exemption of a recorded host-network container
\* that still lives (pruneDeadHostOwners).
THEOREM OwnersAreKept == Spec => OwnersKeptWhileAlive
<1>1. IInv /\ [Next]_vars => [\A h \in owners : life'[h] = "alive" => h \in owners']_vars
  BY DEF Next, Start, End, CreateSocket, ApiMoves, Scan, WriteNodeBootstrap,
     LoadNodeGuardBootstrap, PruneDeadHostOwners, ClearPeers, PutPeers, PeersComplete,
     PutHostOwners, PutConfig, InstallLink, AgentDies, Commit, node, tables, vars
<1> QED
  BY <1>1, Invariant, PTL DEF Spec, OwnersKeptWhileAlive

(***************************************************************************)
(* PacketParser.                                                           *)
(***************************************************************************)
\* The packet is one there can be, and its status is what the parser returns for it.
ParserInv ==
    /\ skb \in Skbs
    /\ status \in {"new", ParsePacket(skb)}

\* A packet has been parsed by parse_packet or not at all.
LEMMA ParserInvariant == ParserSpec => []ParserInv
<1>1. ParserInit => ParserInv
  BY DEF ParserInit, ParserInv
<1>2. ParserInv /\ [ParserNext]_parserVars => ParserInv'
  BY DEF ParserInv, ParserNext, Parse, parserVars
<1> QED
  BY <1>1, <1>2, PTL DEF ParserSpec

\* The fields of the packet at hand have their types.
LEMMA SkbTypes ==
    ASSUME ParserInv
    PROVE  /\ skb.len \in Nat /\ skb.total \in Nat /\ skb.gso \in Nat
           /\ skb.offset \in Nat /\ skb.udpLength \in Nat
           /\ skb.ihl \in 0 .. 15 /\ skb.frag \in BOOLEAN
  BY SkbAssumption DEF ParserInv

\* What parse_packet has checked of a packet it calls valid.
LEMMA ValidChecks ==
    ASSUME ParserInv, status = "valid"
    PROVE  /\ IPv4LengthsFit(skb) /\ ~skb.frag
           /\ \/ skb.proto = "tcp" /\ TransportFits(skb, TCPHeader, skb.offset * 4)
              \/ skb.proto = "udp" /\ TransportFits(skb, UDPHeader, skb.udpLength)
<1>1. ParsePacket(skb) = "valid"
  BY DEF ParserInv
<1>2. skb.len >= 1
  BY <1>1, SkbTypes DEF ParsePacket
<1>3. skb.version = 4
  BY <1>1, <1>2, SkbTypes DEF ParsePacket
<1> HIDE DEF ParserInv
<1> QED
  BY <1>1, <1>2, <1>3, SkbTypes DEF ParsePacket

\* Every byte of a valid packet's headers lies in the packet.
LEMMA ValidWhole ==
    ASSUME ParserInv
    PROVE  ValidIsWhole
<1> SUFFICES ASSUME status = "valid"
             PROVE  /\ TransportBytes # {}
                    /\ TransportBytes \subseteq IPv4Header .. skb.len - 1
                    /\ (skb.gso <= 1 \/ skb.proto # "tcp"
                          \/ skb.total >= HeaderLength(skb) + TCPHeader) =>
                           TransportBytes \subseteq IPv4Header .. skb.total - 1
                    /\ ~skb.frag
  BY DEF ValidIsWhole
<1> DEFINE H == HeaderLength(skb)
           L == IF skb.proto = "tcp" THEN skb.offset * 4 ELSE skb.udpLength
<1>1. H \in Nat /\ L \in Nat /\ TotalLength(skb) \in Nat
  BY SkbTypes DEF HeaderLength, TotalLength
<1>2. H >= 20 /\ TotalLength(skb) <= skb.len
  BY ValidChecks DEF IPv4LengthsFit, IPv4Header
<1>3. L >= 8 /\ L <= TotalLength(skb) - H
  BY ValidChecks, SkbTypes DEF TransportFits, TCPHeader, UDPHeader
<1>4. TransportBytes = H .. H + L - 1
  BY DEF TransportBytes
<1>5. (skb.gso <= 1 \/ skb.proto # "tcp" \/ skb.total >= H + TCPHeader)
        => TotalLength(skb) = skb.total
  BY SkbTypes DEF TotalLength, TCPHeader, HeaderLength
<1>6. ~skb.frag
  BY ValidChecks
<1> HIDE DEF H, L
<1>7. H \in TransportBytes
  BY <1>1, <1>3, <1>4
<1>8. TransportBytes \subseteq 20 .. TotalLength(skb) - 1
  BY <1>1, <1>2, <1>3, <1>4
<1>9. TransportBytes \subseteq 20 .. skb.len - 1
  BY <1>1, <1>2, <1>8, SkbTypes
<1> QED
  BY <1>5, <1>6, <1>7, <1>8, <1>9 DEF IPv4Header, H

\* No well-formed packet is refused.
LEMMA WellFormedValid ==
    ASSUME ParserInv
    PROVE  WellFormedIsValid
<1> SUFFICES ASSUME status # "new", skb.version = 4, ~skb.frag, skb.proto \in {"tcp", "udp"},
                    skb.ihl >= 5, skb.total <= skb.len,
                    TransportBytes \subseteq 0 .. skb.total - 1,
                    IF skb.proto = "tcp" THEN skb.offset >= 5 ELSE skb.udpLength >= UDPHeader
             PROVE  status = "valid"
  BY DEF WellFormedIsValid
<1> DEFINE H == HeaderLength(skb)
           L == IF skb.proto = "tcp" THEN skb.offset * 4 ELSE skb.udpLength
<1>1. /\ H \in Nat /\ L \in Nat /\ H >= 20 /\ H <= 60 /\ L >= 8
      /\ skb.proto = "tcp" => L >= 20 /\ L = skb.offset * 4
      /\ skb.proto = "udp" => L = skb.udpLength
  BY SkbTypes DEF HeaderLength, UDPHeader
<1>2. TransportBytes = H .. H + L - 1
  BY DEF TransportBytes
<1>3. status = ParsePacket(skb)
  BY DEF ParserInv
<1>4. TotalLength(skb) = IF skb.proto = "tcp" /\ skb.gso > 1 /\ skb.total < H + 20
                         THEN skb.len ELSE skb.total
  BY DEF TotalLength, TCPHeader
<1> HIDE DEF H, L, ParserInv
<1>5. H + L - 1 \in TransportBytes
  BY <1>1, <1>2
<1>6. H + L <= skb.total
  BY <1>1, <1>5, SkbTypes
<1>7. TotalLength(skb) = skb.total
  BY <1>1, <1>4, <1>6, SkbTypes
<1>8. IPv4LengthsFit(skb) /\ Loads(skb, 0, IPv4Header) /\ skb.len >= 1
  BY <1>1, <1>6, <1>7, SkbTypes DEF IPv4LengthsFit, IPv4Header, Loads, H
<1>9. CASE skb.proto = "tcp"
  <2>1. TransportFits(skb, TCPHeader, skb.offset * 4)
    BY <1>1, <1>6, <1>7, <1>9, SkbTypes DEF TransportFits, TCPHeader, Loads, H
  <2> QED
    BY <1>3, <1>8, <1>9, <2>1, SkbTypes DEF ParsePacket
<1>10. CASE skb.proto = "udp"
  <2>1. TransportFits(skb, UDPHeader, skb.udpLength)
    BY <1>1, <1>6, <1>7, <1>10, SkbTypes DEF TransportFits, UDPHeader, Loads, H
  <2> QED
    BY <1>3, <1>8, <1>10, <2>1, SkbTypes DEF ParsePacket
<1> QED
  BY <1>9, <1>10

\* Of every packet there can be: a valid one has its headers whole and where they are read,
\* and a well-formed one is valid (parse_packet).
THEOREM ParserExactAlways == ParserSpec => []ParserExact
<1>1. ParserInv => ParserExact
  BY ValidWhole, WellFormedValid DEF ParserExact
<1> QED
  BY <1>1, ParserInvariant, PTL

(***************************************************************************)
(* PacketDecision.                                                         *)
(***************************************************************************)
\* A conversation has these fields and no other.
WellFormed(c) == c = [peer |-> c.peer, proto |-> c.proto, own |-> c.own, theirs |-> c.theirs]

\* The key of a conversation's reply state at one end, in this epoch.
ReplyKey(p, c) ==
    [epoch |-> epoch, pod |-> p, source |-> c.peer, destination |-> p,
     sport |-> c.theirs, dport |-> c.own, proto |-> c.proto, dir |-> "ingress"]

\* The conversation of a key, at the end it was kept for.
KeptFor(k) == [peer |-> k.source, proto |-> k.proto, own |-> k.dport, theirs |-> k.sport]

\* A key has these fields, is oriented as ingress and is no newer than the policy.
KeysWellFormed ==
    \A k \in conn :
        /\ k.epoch \in Nat /\ k.epoch <= epoch
        /\ k.pod \in Endpoints /\ k.dir = "ingress" /\ k.destination = k.pod
        /\ k = [epoch |-> k.epoch, pod |-> k.pod, source |-> k.source,
                destination |-> k.destination, sport |-> k.sport, dport |-> k.dport,
                proto |-> k.proto, dir |-> k.dir]

\* The conversations that rules have opened in this epoch are those with reply state.
GrantedHaveState ==
    \A p \in Endpoints : \A c \in granted[p] : WellFormed(c) /\ ReplyKey(p, c) \in conn
StateIsGranted ==
    \A k \in conn : k.epoch = epoch => KeptFor(k) \in granted[k.pod]

\* The inductive invariant of PacketDecision.
VerdictInv ==
    /\ policy \in PolicySets
    /\ epoch \in 1 .. MaxEpoch
    /\ granted = [p \in Endpoints |-> granted[p]]
    /\ KeysWellFormed
    /\ GrantedHaveState
    /\ StateIsGranted

\* Both hooks of a pod look for one key: reversed at egress, as it is at ingress.
LEMMA KeyOfConversation ==
    ASSUME NEW pod, NEW dir \in Hooks, NEW pkt, Sees(pod, dir, pkt)
    PROVE  /\ KeyOf(pod, dir, pkt) = ReplyKey(pod, Conversation(dir, pkt))
           /\ WellFormed(Conversation(dir, pkt))
<1>1. CASE dir = "egress"
  BY <1>1 DEF Sees, KeyOf, StateKey, ReverseKey, ConnectionKey, ReplyKey, Conversation,
              PeerOf, WellFormed
<1>2. CASE dir = "ingress"
  BY <1>2 DEF Sees, KeyOf, StateKey, ConnectionKey, ReplyKey, Conversation, PeerOf, WellFormed
<1> QED
  BY <1>1, <1>2 DEF Hooks

\* Conversations and keys of this epoch are one to one.
LEMMA KeptForReplyKey ==
    ASSUME NEW p, NEW c, WellFormed(c)
    PROVE  KeptFor(ReplyKey(p, c)) = c
  BY DEF KeptFor, ReplyKey, WellFormed

\* And back: a key of this epoch is that of its conversation.
LEMMA ReplyKeyKeptFor ==
    ASSUME KeysWellFormed, NEW k \in conn, k.epoch = epoch
    PROVE  ReplyKey(k.pod, KeptFor(k)) = k /\ WellFormed(KeptFor(k))
  BY DEF KeptFor, ReplyKey, WellFormed, KeysWellFormed

\* The fields of a conversation's key.
LEMMA ReplyKeyFields ==
    ASSUME NEW p, NEW c
    PROVE  /\ ReplyKey(p, c).epoch = epoch /\ ReplyKey(p, c).pod = p
           /\ ReplyKey(p, c).dir = "ingress" /\ ReplyKey(p, c).destination = p
           /\ LET k == ReplyKey(p, c)
              IN  k = [epoch |-> k.epoch, pod |-> k.pod, source |-> k.source,
                       destination |-> k.destination, sport |-> k.sport, dport |-> k.dport,
                       proto |-> k.proto, dir |-> k.dir]
  BY DEF ReplyKey

\* A reset ends a conversation at both places.
LEMMA ConversationEnds ==
    ASSUME VerdictInv, NEW pod \in Endpoints, NEW c, WellFormed(c),
           conn' = conn \ {ReplyKey(pod, c)},
           granted' = [granted EXCEPT ![pod] = @ \ {c}],
           UNCHANGED <<policy, epoch>>
    PROVE  VerdictInv'
<1> USE DEF VerdictInv
<1>1. KeysWellFormed'
  BY DEF KeysWellFormed
<1>2. GrantedHaveState'
  <2> SUFFICES ASSUME NEW p \in Endpoints, NEW d \in granted'[p]
               PROVE  WellFormed(d) /\ ReplyKey(p, d) \in conn'
    BY DEF GrantedHaveState, ReplyKey, WellFormed
  <2>1. d \in granted[p] /\ (p = pod => d # c)
    OBVIOUS
  <2>2. WellFormed(d) /\ ReplyKey(p, d) \in conn
    BY <2>1 DEF GrantedHaveState
  <2>3. ReplyKey(p, d) # ReplyKey(pod, c)
    BY <2>1, <2>2, KeptForReplyKey, ReplyKeyFields
  <2> QED
    BY <2>2, <2>3
<1>3. StateIsGranted'
  <2> SUFFICES ASSUME NEW k \in conn', k.epoch = epoch
               PROVE  KeptFor(k) \in granted'[k.pod]
    BY DEF StateIsGranted, KeptFor
  <2>1. KeptFor(k) \in granted[k.pod] /\ k.pod \in Endpoints
    BY DEF StateIsGranted, KeysWellFormed
  <2>2. k.pod = pod => KeptFor(k) # c
    BY ReplyKeyKeptFor
  <2> QED
    BY <2>1, <2>2
<1>4. granted' = [p \in Endpoints |-> granted'[p]]
  OBVIOUS
<1> QED
  BY <1>1, <1>2, <1>3, <1>4

\* What a rule lets pass opens a conversation at both places.
LEMMA ConversationOpens ==
    ASSUME VerdictInv, NEW pod \in Endpoints, NEW c, WellFormed(c),
           conn' = conn \cup {ReplyKey(pod, c)},
           granted' = [granted EXCEPT ![pod] = @ \cup {c}],
           UNCHANGED <<policy, epoch>>
    PROVE  VerdictInv'
<1> USE DEF VerdictInv
<1>1. KeysWellFormed'
  <2> SUFFICES ASSUME NEW k \in conn'
               PROVE  /\ k.epoch \in Nat /\ k.epoch <= epoch
                      /\ k.pod \in Endpoints /\ k.dir = "ingress" /\ k.destination = k.pod
                      /\ k = [epoch |-> k.epoch, pod |-> k.pod, source |-> k.source,
                              destination |-> k.destination, sport |-> k.sport,
                              dport |-> k.dport, proto |-> k.proto, dir |-> k.dir]
    BY DEF KeysWellFormed
  <2>1. CASE k \in conn
    BY <2>1 DEF KeysWellFormed
  <2>2. CASE k = ReplyKey(pod, c)
    BY <2>2, ReplyKeyFields, VerdictAssumption
  <2> QED
    BY <2>1, <2>2
<1>2. GrantedHaveState'
  <2> SUFFICES ASSUME NEW p \in Endpoints, NEW d \in granted'[p]
               PROVE  WellFormed(d) /\ ReplyKey(p, d) \in conn'
    BY DEF GrantedHaveState, ReplyKey, WellFormed
  <2>1. d \in granted[p] \/ (p = pod /\ d = c)
    OBVIOUS
  <2> QED
    BY <2>1 DEF GrantedHaveState
<1>3. StateIsGranted'
  <2> SUFFICES ASSUME NEW k \in conn', k.epoch = epoch
               PROVE  KeptFor(k) \in granted'[k.pod]
    BY DEF StateIsGranted, KeptFor
  <2>1. CASE k \in conn
    <3>1. KeptFor(k) \in granted[k.pod] /\ k.pod \in Endpoints
      BY <2>1 DEF StateIsGranted, KeysWellFormed
    <3> QED
      BY <3>1
  <2>2. CASE k = ReplyKey(pod, c)
    BY <2>2, KeptForReplyKey, ReplyKeyFields
  <2> QED
    BY <2>1, <2>2
<1>4. granted' = [p \in Endpoints |-> granted'[p]]
  OBVIOUS
<1> QED
  BY <1>1, <1>2, <1>3, <1>4

\* A verdict that leaves the reply state alone.
LEMMA VerdictStutter ==
    ASSUME VerdictInv, UNCHANGED verdictVars
    PROVE  VerdictInv'
  BY DEF VerdictInv, verdictVars, KeysWellFormed, GrantedHaveState, StateIsGranted, ReplyKey,
         KeptFor, WellFormed

\* An entry that goes takes its conversation along, if it is one of this epoch.
LEMMA ForgetStep ==
    ASSUME VerdictInv, NEW key \in conn, Forget(key)
    PROVE  VerdictInv'
<1> DEFINE c == KeptFor(key)
<1>1. CASE key.epoch = epoch
  <2>1. ReplyKey(key.pod, c) = key /\ WellFormed(c) /\ key.pod \in Endpoints
    BY <1>1, ReplyKeyKeptFor DEF VerdictInv, KeysWellFormed
  <2>2. granted' = [granted EXCEPT ![key.pod] = {g \in @ : ~(key.epoch = epoch /\ g = c)}]
    BY DEF Forget, KeptFor
  <2> HIDE DEF c
  <2>3. granted' = [granted EXCEPT ![key.pod] = @ \ {c}]
    BY <1>1, <2>2
  <2> QED
    BY <2>1, <2>3, ConversationEnds DEF Forget
<1>2. CASE key.epoch # epoch
  <2>1. granted' = granted
    BY <1>2 DEF Forget, VerdictInv
  <2>2. KeysWellFormed' /\ StateIsGranted'
    BY <2>1 DEF Forget, VerdictInv, KeysWellFormed, StateIsGranted, KeptFor
  <2>3. GrantedHaveState'
    <3> SUFFICES ASSUME NEW p \in Endpoints, NEW d \in granted[p]
                 PROVE  WellFormed(d) /\ ReplyKey(p, d) \in conn'
      BY <2>1 DEF GrantedHaveState, ReplyKey, WellFormed, Forget
    <3>1. WellFormed(d) /\ ReplyKey(p, d) \in conn /\ ReplyKey(p, d).epoch = epoch
      BY ReplyKeyFields DEF VerdictInv, GrantedHaveState
    <3> QED
      BY <3>1, <1>2 DEF Forget
  <2> QED
    BY <2>1, <2>2, <2>3 DEF Forget, VerdictInv
<1> QED
  BY <1>1, <1>2

\* A commit closes every conversation: no key has the new epoch.
LEMMA CommitStep ==
    ASSUME VerdictInv, CommitPolicy
    PROVE  VerdictInv'
<1>1. policy' \in PolicySets /\ epoch' \in 1 .. MaxEpoch /\ epoch' = epoch + 1 /\ epoch \in Nat
  BY VerdictAssumption DEF VerdictInv, CommitPolicy
<1>2. KeysWellFormed'
  BY <1>1 DEF VerdictInv, CommitPolicy, KeysWellFormed
<1>3. GrantedHaveState'
  BY DEF CommitPolicy, GrantedHaveState
<1>4. StateIsGranted'
  <2> SUFFICES ASSUME NEW k \in conn, k.epoch = epoch'
               PROVE  FALSE
    BY DEF StateIsGranted, CommitPolicy
  <2> QED
    BY <1>1 DEF VerdictInv, KeysWellFormed
<1>5. granted' = [p \in Endpoints |-> granted'[p]]
  BY DEF CommitPolicy
<1> QED
  BY <1>1, <1>2, <1>3, <1>4, <1>5 DEF VerdictInv

\* In any history, what rules have opened under this policy is what has reply state.
LEMMA VerdictInvariant == VerdictSpec => []VerdictInv
<1>1. VerdictInit => VerdictInv
  BY VerdictAssumption DEF VerdictInit, VerdictInv, KeysWellFormed, GrantedHaveState,
     StateIsGranted
<1>2. ASSUME VerdictInv, [VerdictNext]_verdictVars
      PROVE  VerdictInv'
  <2>1. ASSUME NEW pod \in Endpoints, NEW dir \in Hooks, NEW pkt \in Traffic,
               Sees(pod, dir, pkt), AllowReply(pod, dir, pkt) \/ AllowByRule(pod, dir, pkt)
        PROVE  VerdictInv'
    <3>1. /\ KeyOf(pod, dir, pkt) = ReplyKey(pod, Conversation(dir, pkt))
          /\ WellFormed(Conversation(dir, pkt))
      BY <2>1, KeyOfConversation
    <3>2. CASE Reset(pkt)
      <4>1. /\ conn' = conn \ {ReplyKey(pod, Conversation(dir, pkt))}
            /\ granted' = [granted EXCEPT ![pod] = @ \ {Conversation(dir, pkt)}]
            /\ UNCHANGED <<policy, epoch>>
        BY <2>1, <3>1, <3>2 DEF AllowReply, AllowByRule
      <4> QED
        BY <1>2, <3>1, <4>1, ConversationEnds
    <3>3. CASE ~Reset(pkt) /\ AllowReply(pod, dir, pkt)
      BY <1>2, <3>3, VerdictStutter DEF AllowReply, verdictVars
    <3>4. CASE ~Reset(pkt) /\ AllowByRule(pod, dir, pkt)
      BY <1>2, <3>1, <3>4, ConversationOpens DEF AllowByRule
    <3> QED
      BY <2>1, <3>2, <3>3, <3>4
  <2>2. ASSUME NEW pod \in Endpoints, NEW dir \in Hooks, NEW pkt \in Traffic,
               Decide(pod, dir, pkt)
        PROVE  VerdictInv'
    BY <1>2, <2>2, VerdictStutter DEF Decide
  <2> QED
    BY <1>2, <2>1, <2>2, ForgetStep, CommitStep, VerdictStutter DEF VerdictNext
<1> QED
  BY <1>1, <1>2, PTL DEF VerdictSpec

\* Reply state lets a packet pass exactly if its conversation has been opened.
LEMMA ConnectionIsGranted ==
    ASSUME VerdictInv, NEW pod \in Endpoints, NEW dir \in Hooks, NEW pkt, Sees(pod, dir, pkt)
    PROVE  ConnectionAllows(pod, dir, pkt)
             <=> ~NewHandshake(pkt) /\ Conversation(dir, pkt) \in granted[pod]
<1>1. /\ KeyOf(pod, dir, pkt) = ReplyKey(pod, Conversation(dir, pkt))
      /\ WellFormed(Conversation(dir, pkt))
  BY KeyOfConversation
<1>2. Conversation(dir, pkt) \in granted[pod] => KeyOf(pod, dir, pkt) \in conn
  BY <1>1 DEF VerdictInv, GrantedHaveState
<1>3. KeyOf(pod, dir, pkt) \in conn => Conversation(dir, pkt) \in granted[pod]
  <2> SUFFICES ASSUME KeyOf(pod, dir, pkt) \in conn
               PROVE  Conversation(dir, pkt) \in granted[pod]
    OBVIOUS
  <2> DEFINE k == ReplyKey(pod, Conversation(dir, pkt))
  <2>1. k \in conn
    BY <1>1
  <2>2. k.epoch = epoch /\ k.pod = pod /\ KeptFor(k) = Conversation(dir, pkt)
    BY <1>1, KeptForReplyKey, ReplyKeyFields
  <2> HIDE DEF k
  <2> QED
    BY <2>1, <2>2 DEF VerdictInv, StateIsGranted
<1> QED
  BY <1>2, <1>3 DEF ConnectionAllows

\* The lookup of a rule finds one exactly if a rule names the hook, the peer, the protocol
\* and the port.
LEMMA RuleFound ==
    ASSUME VerdictInv, NEW pod \in Endpoints, NEW dir, NEW pkt, policy[pod] # NoSubject
    PROVE  RuleAllows(pod, dir, pkt) <=>
             \E r \in policy[pod].rules :
                 /\ r.dir = dir /\ r.peer = PeerOf(dir, pkt)
                 /\ r.proto = pkt.proto /\ r.port = pkt.dport
<1>1. \A r \in policy[pod].rules :
          r = [dir |-> r.dir, peer |-> r.peer, proto |-> r.proto, port |-> r.port]
  BY VerdictAssumption DEF VerdictInv
<1> HIDE DEF PeerOf
<1> QED
  BY <1>1 DEF RuleAllows

\* The first test that applies decides as documented.
LEMMA Documentation ==
    ASSUME VerdictInv
    PROVE  VerdictsAsDocumented
<1> SUFFICES ASSUME NEW pod \in Endpoints, NEW dir \in Hooks, NEW pkt \in Traffic,
                    Sees(pod, dir, pkt)
             PROVE  Allowed(pod, dir, pkt) <=> Documented(pod, dir, pkt)
  BY DEF VerdictsAsDocumented
<1>1. CASE policy[pod] = NoSubject
  BY <1>1 DEF Allowed, Reason, AllowingReasons, Documented
<1>2. CASE policy[pod] # NoSubject /\ dir \notin policy[pod].isolated
  BY <1>2 DEF Allowed, Reason, AllowingReasons, Documented
<1>3. CASE policy[pod] # NoSubject /\ dir \in policy[pod].isolated
  <2>1. CASE Bypassed(pod, dir, pkt)
    BY <1>3, <2>1 DEF Bypassed, Allowed, Reason, AllowingReasons, Documented
  <2>2. CASE ~Bypassed(pod, dir, pkt) /\ dir \in policy[pod].quarantined
    BY <1>3, <2>2 DEF Bypassed, Allowed, Reason, AllowingReasons, Documented
  <2>3. CASE ~Bypassed(pod, dir, pkt) /\ dir \notin policy[pod].quarantined /\ pkt.form # "valid"
    <3>1. ~Documented(pod, dir, pkt)
      BY <1>3, <2>3 DEF Documented
    <3>2. Reason(pod, dir, pkt) = pkt.form
      BY <1>3, <2>3 DEF Reason
    <3>3. pkt.form \notin AllowingReasons
      BY <2>3, VerdictAssumption DEF AllowingReasons
    <3> QED
      BY <3>1, <3>2, <3>3 DEF Allowed
  <2>4. CASE ~Bypassed(pod, dir, pkt) /\ dir \notin policy[pod].quarantined /\ pkt.form = "valid"
    <3>1. Allowed(pod, dir, pkt)
            <=> ConnectionAllows(pod, dir, pkt) \/ RuleAllows(pod, dir, pkt)
      BY <1>3, <2>4 DEF Allowed, Reason, AllowingReasons
    <3>2. Documented(pod, dir, pkt) <=>
            \/ \E r \in policy[pod].rules :
                 /\ r.dir = dir /\ r.peer = PeerOf(dir, pkt)
                 /\ r.proto = pkt.proto /\ r.port = pkt.dport
            \/ ~NewHandshake(pkt) /\ Conversation(dir, pkt) \in granted[pod]
      BY <1>3, <2>4 DEF Documented, Bypassed
    <3> QED
      BY <1>3, <3>1, <3>2, ConnectionIsGranted, RuleFound
  <2> QED
    BY <2>1, <2>2, <2>3, <2>4
<1> QED
  BY <1>1, <1>2, <1>3

\* What comes back passes both ends.
LEMMA RepliesPass ==
    ASSUME VerdictInv
    PROVE  RepliesPassBothEnds
<1> SUFFICES ASSUME NEW there \in Traffic, NEW back \in Traffic,
                    back.src = there.dst, back.dst = there.src,
                    back.sport = there.dport, back.dport = there.sport,
                    back.proto = there.proto, {back.src, back.dst} \subseteq Endpoints,
                    back.form = "valid", ~NewHandshake(back),
                    Conversation("egress", there) \in granted[there.src],
                    Conversation("ingress", there) \in granted[there.dst],
                    \A p \in {there.src, there.dst} : policy[p].quarantined = {}
             PROVE  Allowed(back.src, "egress", back) /\ Allowed(back.dst, "ingress", back)
  BY DEF RepliesPassBothEnds
<1>1. /\ Conversation("egress", back) = Conversation("ingress", there)
      /\ Conversation("ingress", back) = Conversation("egress", there)
  BY DEF Conversation, PeerOf
<1>2. Sees(back.src, "egress", back) /\ Sees(back.dst, "ingress", back)
  BY DEF Sees
<1>3. ConnectionAllows(back.src, "egress", back) /\ ConnectionAllows(back.dst, "ingress", back)
  BY <1>1, <1>2, ConnectionIsGranted DEF Hooks
<1>4. Reason(back.src, "egress", back) \in {"no subject", "unisolated", "bypass", "connection"}
  BY <1>3 DEF Reason
<1>5. Reason(back.dst, "ingress", back) \in {"no subject", "unisolated", "bypass", "connection"}
  BY <1>3 DEF Reason
<1> QED
  BY <1>4, <1>5 DEF Allowed, AllowingReasons

\* For any pods, policies and packets, and after any history: a packet passes a hook exactly
\* if the policy of the moment, the exceptions for the node and the pod itself, or a
\* conversation that a rule has opened under that policy let it, and replies pass both ends
\* (enforce_packet).
THEOREM VerdictsExactAlways == VerdictSpec => []VerdictsExact
<1>1. VerdictInv => VerdictsExact
  BY Documentation, RepliesPass DEF VerdictsExact, VerdictTypeOK, VerdictInv, KeysWellFormed
<1> QED
  BY <1>1, VerdictInvariant, PTL

(***************************************************************************)
(* RuleKeys.                                                               *)
(***************************************************************************)
\* Division with remainder, the lemma under every field of a key.
LEMMA Quotient ==
    ASSUME NEW q \in Nat, NEW m \in Nat \ {0}, NEW r \in Nat, r < m
    PROVE  (q * m + r) \div m = q /\ (q * m + r) % m = r
<1> DEFINE a == q * m + r
           d == a \div m
           e == a % m
<1>1. a \in Nat /\ d \in Int /\ e \in Int
  OBVIOUS
<1>2. a = m * d + e /\ 0 <= e /\ e < m
  BY <1>1
<1> HIDE DEF d, e
<1>3. m * (q - d) = e - r
  BY <1>1, <1>2
<1>4. ~(q - d >= 1)
  <2> SUFFICES ASSUME q - d >= 1 PROVE FALSE
    OBVIOUS
  <2>1. m * (q - d) >= m
    BY <1>1
  <2> QED
    BY <1>1, <1>2, <1>3, <2>1
<1>5. ~(d - q >= 1)
  <2> SUFFICES ASSUME d - q >= 1 PROVE FALSE
    OBVIOUS
  <2>1. m * (d - q) >= m
    BY <1>1
  <2>2. m * (q - d) = 0 - m * (d - q)
    BY <1>1
  <2> QED
    BY <1>1, <1>2, <1>3, <2>1, <2>2
<1>6. q = d
  BY <1>1, <1>4, <1>5
<1>7. e = r
  BY <1>1, <1>2, <1>6
<1> QED
  BY <1>6, <1>7 DEF d, e

\* The same of a number that is known to have this form.
LEMMA QuotientOf ==
    ASSUME NEW w, NEW q \in Nat, NEW m \in Nat \ {0}, NEW r \in Nat, r < m, w = q * m + r
    PROVE  w \div m = q /\ w % m = r
  BY Quotient, Zenon

\* The widths of the fields add up.
LEMMA Widths ==
    /\ 2 ^ PortBits \in Nat \ {0} /\ 2 ^ ProtoBits \in Nat \ {0} /\ 2 ^ GapBits \in Nat \ {0}
    /\ 2 ^ DirectionBit \in Nat \ {0} /\ 2 ^ SlotBit \in Nat \ {0}
    /\ 2 ^ (PortBits + ProtoBits) = 2 ^ PortBits * 2 ^ ProtoBits
    /\ 2 ^ DirectionBit = 2 ^ PortBits * 2 ^ ProtoBits * 2 ^ GapBits
    /\ 2 ^ SlotBit = 2 ^ DirectionBit * 2
    /\ 2 ^ (SlotBit + 1) = 2 ^ SlotBit * 2
    /\ PortBits \in Nat /\ ProtoBits \in Nat /\ GapBits \in Nat
<1>1. PortBits \in Nat /\ ProtoBits \in Nat /\ GapBits \in Nat /\ AddressBits \in Nat
  BY KeysAssumption
<1>2. /\ PortBits \in 0 .. SlotBit /\ ProtoBits \in 0 .. SlotBit /\ GapBits \in 0 .. SlotBit
      /\ PortBits + ProtoBits \in 0 .. SlotBit /\ DirectionBit \in 0 .. SlotBit
      /\ SlotBit \in 0 .. SlotBit /\ 1 \in 0 .. SlotBit
      /\ SlotBit = DirectionBit + 1 /\ DirectionBit = (PortBits + ProtoBits) + GapBits
      /\ 0 .. SlotBit \subseteq 0 .. SlotBit + 1 + AddressBits
  BY <1>1 DEF SlotBit, DirectionBit
<1> HIDE DEF SlotBit, DirectionBit
<1>3. \A n \in 0 .. SlotBit : 2 ^ n \in Nat \ {0}
  BY <1>2, PowersOfTwo
<1>4. 2 ^ (PortBits + ProtoBits) = 2 ^ PortBits * 2 ^ ProtoBits
  BY <1>2, PowersOfTwo
<1>5. 2 ^ DirectionBit = 2 ^ (PortBits + ProtoBits) * 2 ^ GapBits
  BY <1>2, PowersOfTwo
<1>6. \A m \in 0 .. SlotBit : 2 ^ (m + 1) = 2 ^ m * 2
  <2>1. \A m \in 0 .. SlotBit : 2 ^ (m + 1) = 2 ^ m * 2 ^ 1
    BY <1>2, PowersOfTwo, Zenon
  <2>2. 2 ^ 1 = 2
    BY PowersOfTwo, Zenon
  <2> QED
    BY <2>1, <2>2, Zenon
<1>7. 2 ^ SlotBit = 2 ^ DirectionBit * 2 /\ 2 ^ (SlotBit + 1) = 2 ^ SlotBit * 2
  BY <1>2, <1>6
<1> QED
  BY <1>1, <1>2, <1>3, <1>4, <1>5, <1>6, <1>7

\* A word gives back the fields it was made of.
LEMMA MetaFields ==
    ASSUME NEW s \in Slots, NEW d \in {Egress, Ingress}, NEW t \in Protocols, NEW p \in Ports
    PROVE  /\ Meta(s, d, t, p) \in 0 .. 2 ^ (SlotBit + 1) - 1
           /\ Meta(s, d, t, p) \div 2 ^ SlotBit = s
           /\ (Meta(s, d, t, p) \div 2 ^ DirectionBit) % 2 = d
           /\ (Meta(s, d, t, p) \div 2 ^ PortBits) % 2 ^ ProtoBits = t
           /\ Meta(s, d, t, p) % 2 ^ PortBits = p
           /\ (Meta(s, d, t, p) \div 2 ^ (PortBits + ProtoBits)) % 2 ^ GapBits = 0
<1> DEFINE w == Meta(s, d, t, p)
<1>1. s \in 0 .. 1 /\ d \in 0 .. 1
  BY DEF Slots, Egress, Ingress
<1>2. t \in 0 .. 2 ^ ProtoBits - 1
  BY KeysAssumption
<1>3. p \in 0 .. 2 ^ PortBits - 1
  BY Widths DEF Ports
<1>4. w = s * 2 ^ SlotBit + d * 2 ^ DirectionBit + t * 2 ^ PortBits + p
  BY DEF Meta
<1> DEFINE P == 2 ^ PortBits
           R == 2 ^ ProtoBits
           G == 2 ^ GapBits
           D == 2 ^ DirectionBit
           S == 2 ^ SlotBit
<1> HIDE DEF DirectionBit, SlotBit
<1>5. /\ P \in Nat \ {0} /\ R \in Nat \ {0} /\ G \in Nat \ {0} /\ D \in Nat /\ S \in Nat
      /\ D = P * R * G /\ S = D * 2
  BY Widths
<1>6. w = s * S + d * D + t * P + p
  BY <1>4
<1>7. t \in 0 .. R - 1 /\ p \in 0 .. P - 1
  BY <1>2, <1>3
<1> HIDE DEF P, R, G, D, S, w
<1>8. w \in Nat
  <2>1. s * S \in Nat /\ d * D \in Nat /\ t * P \in Nat /\ p \in Nat
    BY <1>1, <1>5, <1>7
  <2> QED
    BY <1>6, <2>1
<1>9. /\ w \div S = s
      /\ (w \div D) % 2 = d
      /\ (w \div P) % R = t
      /\ w % P = p
      /\ (w \div (P * R)) % G = 0
      /\ w <= S * 2 - 1
  <2> DEFINE low == t * P + p
             PR == P * R
  <2>1. low \in Nat /\ PR \in Nat \ {0} /\ low <= PR - 1
    <3>1. low \in Nat /\ PR \in Nat
      BY <1>5, <1>7
    <3>2. t * P <= (R - 1) * P
      BY <1>5, <1>7
    <3>3. (R - 1) * P = PR - P
      BY <1>5
    <3>4. PR # 0
      BY <1>5
    <3> QED
      BY <1>5, <1>7, <3>1, <3>2, <3>3, <3>4
  <2>2. PR <= D /\ D = PR * G /\ D # 0
    BY <1>5, <2>1
  <2> DEFINE r == d * D + low
  <2>3. w = s * S + r /\ r \in Nat /\ r < S /\ S \in Nat \ {0} /\ s \in Nat /\ s * S <= S
    <3>1. w = s * S + d * D + low
      <4>1. s * S \in Nat /\ d * D \in Nat /\ t * P \in Nat /\ p \in Nat
        BY <1>1, <1>5, <1>7
      <4> QED
        BY <1>6, <4>1
    <3>2. s * S \in Nat /\ d * D \in Nat /\ d * D <= D /\ s * S <= S
      BY <1>1, <1>5
    <3> HIDE DEF low, PR
    <3> QED
      BY <1>1, <1>5, <2>1, <2>2, <3>1, <3>2
  <2>4. w \div S = s
    <3> HIDE DEF r
    <3> QED
      BY <2>3, QuotientOf, Zenon
  <2> DEFINE sd == s * 2 + d
             h == sd * G
             X == h * R + t
  <2>5. sd \in Nat /\ w = sd * D + low
    <3>1. sd * D = s * S + d * D
      BY <1>1, <1>5
    <3> QED
      BY <1>1, <1>5, <2>1, <2>3, <3>1
  <2>6. (w \div D) % 2 = d
    <3>1. w \div D = sd
      <4>1. sd \in Nat /\ D \in Nat \ {0} /\ low \in Nat /\ low < D
        BY <1>5, <2>1, <2>2, <2>5
      <4> HIDE DEF low, sd
      <4> QED
        BY <2>5, <4>1, QuotientOf, Zenon
    <3>2. sd % 2 = d
      BY <1>1
    <3> HIDE DEF sd
    <3> QED
      BY <3>1, <3>2
  <2>7. /\ h \in Nat /\ X \in Nat /\ R \in Nat \ {0} /\ P \in Nat \ {0}
        /\ p \in Nat /\ p < P /\ t \in Nat /\ t < R
    <3> HIDE DEF sd
    <3>1. h \in Nat
      BY <1>5, <2>5
    <3> HIDE DEF h
    <3> QED
      BY <1>5, <1>7, <3>1
  <2>8. (w \div P) % R = t /\ w % P = p
    <3>1. w = X * P + p
      <4>1. sd * D = h * R * P
        <5> HIDE DEF sd
        <5> QED
          BY <1>5, <2>5
      <4>2. w = sd * D + t * P + p /\ sd * D \in Nat /\ t * P \in Nat
        <5> HIDE DEF sd
        <5> QED
          BY <1>5, <1>7, <2>5
      <4>3. X * P = h * R * P + t * P
        <5> HIDE DEF h
        <5> QED
          BY <2>7
      <4> HIDE DEF X, h, sd
      <4> QED
        BY <4>1, <4>2, <4>3, <2>7
    <3>2. X % R = t
      <4> HIDE DEF h
      <4>1. X = h * R + t
        OBVIOUS
      <4> HIDE DEF X
      <4> QED
        BY <2>7, <4>1, QuotientOf, Zenon
    <3>3. w \div P = X /\ w % P = p
      <4> HIDE DEF X, h
      <4> QED
        BY <2>7, <3>1, QuotientOf, Zenon
    <3> QED
      BY <3>2, <3>3, Zenon
  <2>9. (w \div PR) % G = 0
    <3>1. sd * D = h * PR
      <4> HIDE DEF sd, PR
      <4> QED
        BY <1>5, <2>1, <2>2, <2>5
    <3>2. low < PR /\ w = h * PR + low
      <4> HIDE DEF sd, PR, h, low
      <4> QED
        BY <2>1, <2>5, <2>7, <3>1
    <3>3. w \div PR = h
      <4> HIDE DEF sd, PR, h, low
      <4> QED
        BY <2>1, <2>7, <3>2, QuotientOf, Zenon
    <3>4. h % G = 0
      <4> HIDE DEF sd
      <4>1. h = sd * G + 0 /\ 0 < G /\ 0 \in Nat /\ G \in Nat \ {0}
        BY <1>5, <2>5
      <4> HIDE DEF h
      <4> QED
        BY <2>5, <4>1, QuotientOf, Zenon
    <3> QED
      BY <3>3, <3>4, Zenon
  <2>10. w <= S * 2 - 1
    <3> HIDE DEF r
    <3> QED
      BY <2>3, <1>1
  <2> QED
    BY <2>6, <2>8, <2>9, <2>10, <2>4
<1>10. /\ w \div 2 ^ SlotBit = s
      /\ (w \div 2 ^ DirectionBit) % 2 = d
      /\ (w \div 2 ^ PortBits) % 2 ^ ProtoBits = t
      /\ w % 2 ^ PortBits = p
      /\ (w \div (2 ^ PortBits * 2 ^ ProtoBits)) % 2 ^ GapBits = 0
      /\ w <= 2 ^ SlotBit * 2 - 1
  BY <1>9 DEF P, R, G, D, S
<1>11. w \in 0 .. 2 ^ (SlotBit + 1) - 1
  BY <1>8, <1>10, Widths
<1> QED
  BY <1>10, <1>11, Widths DEF w

\* The bits of an address that a prefix leaves out.
LEMMA TailBits ==
    ASSUME NEW n \in 0 .. AddressBits
    PROVE  2 ^ (AddressBits - n) \in Nat \ {0} /\ AddressBits \in Nat /\ Fixed \in Nat
<1>1. AddressBits \in Nat /\ Fixed \in Nat
  BY KeysAssumption
<1>2. AddressBits - n \in 0 .. SlotBit + 1 + AddressBits
  BY <1>1, Widths DEF SlotBit, DirectionBit
<1>3. 2 ^ (AddressBits - n) \in Nat \ {0}
  BY <1>2, PowersOfTwo, Zenon
<1> QED
  BY <1>1, <1>3, Zenon

\* Rounding down to a multiple.
LEMMA Remainder ==
    ASSUME NEW a \in Nat, NEW m \in Nat \ {0}
    PROVE  /\ a \div m \in Nat /\ (a \div m) * m \in Nat
           /\ (a \div m) * m <= a
<1> DEFINE q == a \div m
           e == a % m
<1>1. q \in Int /\ e \in Int
  OBVIOUS
<1>2. a = m * q + e /\ 0 <= e /\ e < m
  BY <1>1
<1> HIDE DEF q, e
<1>3. q \in Nat
  <2> SUFFICES ASSUME q <= -1 PROVE FALSE
    BY <1>1
  <2>1. m * q <= 0 - m
    BY <1>1
  <2> QED
    BY <1>1, <1>2, <2>1
<1>4. q * m \in Nat /\ q * m <= a
  BY <1>1, <1>2, <1>3
<1> QED
  BY <1>3, <1>4 DEF q

\* Masking keeps the bits of the prefix, and an address remains one.
LEMMA Masking ==
    ASSUME NEW r \in Rules
    PROVE  /\ MaskedPeer(r) \in PeerAddresses
           /\ Leading(MaskedPeer(r), r.bits) = Leading(r.peer, r.bits)
           /\ r.bits \in 0 .. AddressBits /\ r.peer \in PeerAddresses
<1> DEFINE B == 2 ^ (AddressBits - r.bits)
           L == r.peer \div B
<1>1. r.bits \in 0 .. AddressBits /\ r.peer \in PeerAddresses
  BY DEF Rules
<1>2. B \in Nat \ {0}
  <2>1. 2 ^ (AddressBits - r.bits) \in Nat \ {0}
    BY <1>1, TailBits, Zenon
  <2> QED
    BY <2>1, Zenon
<1>3. r.peer \in Nat /\ 2 ^ AddressBits \in Int
  BY <1>1, KeysAssumption, PowersOfTwo, Widths DEF PeerAddresses, SlotBit, DirectionBit
<1>4. MaskedPeer(r) = L * B /\ Leading(r.peer, r.bits) = L
      /\ Leading(MaskedPeer(r), r.bits) = MaskedPeer(r) \div B
  BY DEF MaskedPeer, Leading
<1> HIDE DEF B
<1>5. L \in Nat /\ L * B \in Nat /\ L * B <= r.peer
  BY <1>2, <1>3, Remainder, Zenon
<1> HIDE DEF L
<1>7. L * B \in PeerAddresses
  BY <1>1, <1>3, <1>5 DEF PeerAddresses
<1>8. L * B = L * B + 0 /\ 0 \in Nat /\ 0 < B
  BY <1>2, <1>5
<1>9. (L * B) \div B = L
  BY <1>2, <1>5, <1>8, QuotientOf, Zenon
<1> QED
  BY <1>1, <1>4, <1>7, <1>9

\* The fields of a rule's key.
LEMMA KeyFields ==
    ASSUME NEW s \in Slots, NEW r \in Rules
    PROVE  LET k == EncodePolicyRuleKey(s, r) IN
           /\ k.length = Fixed + r.bits /\ k.length \in Fixed .. Fixed + AddressBits
           /\ k.length - Fixed = r.bits
           /\ k.meta = Meta(s, r.direction, r.protocol, r.port)
           /\ k.meta \in 0 .. 2 ^ (SlotBit + 1) - 1
           /\ k.cgroup = r.cgroup /\ r.cgroup \in RuleCgroups
           /\ k.peer = MaskedPeer(r) /\ k.peer \in PeerAddresses
           /\ Leading(k.peer, r.bits) = Leading(r.peer, r.bits)
           /\ SlotOf(k) = s
           /\ ValidKey(k)
<1> DEFINE k == EncodePolicyRuleKey(s, r)
<1>1. /\ r.direction \in {Egress, Ingress} /\ r.protocol \in Protocols /\ r.port \in Ports
      /\ r.cgroup \in RuleCgroups
  BY DEF Rules
<1>2. /\ k.length = Fixed + r.bits
      /\ k.meta = Meta(s, r.direction, r.protocol, r.port)
      /\ k.cgroup = r.cgroup /\ k.peer = MaskedPeer(r)
  BY DEF EncodePolicyRuleKey, PrefixLength
<1> HIDE DEF k
<1>3. Fixed + r.bits \in Fixed .. Fixed + AddressBits /\ Fixed + r.bits - Fixed = r.bits
  BY Masking, KeysAssumption
<1>4. /\ k.meta \in 0 .. 2 ^ (SlotBit + 1) - 1 /\ k.meta \div 2 ^ SlotBit = s
      /\ (k.meta \div 2 ^ (PortBits + ProtoBits)) % 2 ^ GapBits = 0
  BY <1>1, <1>2, MetaFields
<1>5. SlotOf(k) = s /\ ValidKey(k)
  BY <1>2, <1>3, <1>4 DEF SlotOf, ValidKey
<1>6. k.peer \in PeerAddresses /\ Leading(k.peer, r.bits) = Leading(r.peer, r.bits)
  BY <1>2, Masking
<1>7. k.length \in Fixed .. Fixed + AddressBits /\ k.length - Fixed = r.bits
  <2>1. k.length = Fixed + r.bits
    BY <1>2, Zenon
  <2>2. Fixed \in Nat /\ AddressBits \in Nat /\ r.bits \in 0 .. AddressBits
    BY Masking, KeysAssumption
  <2> QED
    BY <2>1, <2>2
<1> QED
  BY <1>1, <1>2, <1>4, <1>5, <1>6, <1>7 DEF k

\* A restarted agent reads a rule back, masked.
LEMMA Decoded ==
    ASSUME NEW s \in Slots, NEW r \in Rules
    PROVE  DecodeRule(EncodePolicyRuleKey(s, r)) = [r EXCEPT !.peer = MaskedPeer(r)]
<1> DEFINE k == EncodePolicyRuleKey(s, r)
<1>1. /\ r.direction \in {Egress, Ingress} /\ r.protocol \in Protocols /\ r.port \in Ports
  BY DEF Rules
<1>2. /\ (k.meta \div 2 ^ DirectionBit) % 2 = r.direction
      /\ (k.meta \div 2 ^ PortBits) % 2 ^ ProtoBits = r.protocol
      /\ k.meta % 2 ^ PortBits = r.port
  BY <1>1, MetaFields, KeyFields
<1>3. k.cgroup = r.cgroup /\ k.peer = MaskedPeer(r) /\ k.length - Fixed = r.bits
  BY KeyFields
<1> HIDE DEF k
<1>4. DecodeRule(k) = [cgroup |-> r.cgroup, direction |-> r.direction, protocol |-> r.protocol,
                       port |-> r.port, peer |-> MaskedPeer(r), bits |-> r.bits]
  BY <1>2, <1>3 DEF DecodeRule
<1>5. [r EXCEPT !.peer = MaskedPeer(r)]
        = [cgroup |-> r.cgroup, direction |-> r.direction, protocol |-> r.protocol,
           port |-> r.port, peer |-> MaskedPeer(r), bits |-> r.bits]
  <2> HIDE DEF MaskedPeer
  <2> QED
    BY DEF Rules
<1> QED
  BY <1>4, <1>5 DEF k

\* The keys there can be.
AllKeys == {EncodePolicyRuleKey(s, r) : s \in Slots, r \in Rules}

\* The types of a key's fields.
LEMMA KeyTypes ==
    ASSUME NEW k \in AllKeys
    PROVE  /\ k.length \in Fixed .. Fixed + AddressBits
           /\ k.meta \in 0 .. 2 ^ (SlotBit + 1) - 1
           /\ k.cgroup \in RuleCgroups /\ k.peer \in PeerAddresses
           /\ ValidKey(k) /\ SlotOf(k) \in Slots
<1>1. PICK s \in Slots, r \in Rules : k = EncodePolicyRuleKey(s, r)
  BY DEF AllKeys
<1> QED
  BY <1>1, KeyFields

\* In the trie, keys of rules are one node only if they are equal.
LEMMA NodeIsKey ==
    ASSUME NEW k \in AllKeys, NEW j \in AllKeys
    PROVE  SameNode(k, j) <=> k = j
<1>1. PICK s \in Slots, r \in Rules : k = EncodePolicyRuleKey(s, r)
  BY DEF AllKeys
<1>2. PICK u \in Slots, q \in Rules : j = EncodePolicyRuleKey(u, q)
  BY DEF AllKeys
<1>3. ASSUME SameNode(k, j) PROVE k = j
  <2>1. /\ k.length = j.length /\ k.meta = j.meta /\ k.cgroup = j.cgroup
        /\ Leading(k.peer, k.length - Fixed) = Leading(j.peer, k.length - Fixed)
    BY <1>3 DEF SameNode, Matches
  <2>2. r.bits = q.bits
    BY <1>1, <1>2, <2>1, KeyFields, Masking
  <2>3. Leading(r.peer, r.bits) = Leading(q.peer, q.bits)
    <3>1. k.length - Fixed = r.bits /\ Leading(k.peer, r.bits) = Leading(r.peer, r.bits)
      BY <1>1, KeyFields
    <3>2. Leading(j.peer, q.bits) = Leading(q.peer, q.bits)
      BY <1>2, KeyFields
    <3> QED
      BY <2>1, <2>2, <3>1, <3>2
  <2>4. MaskedPeer(r) = MaskedPeer(q)
    BY <2>2, <2>3 DEF MaskedPeer
  <2>5. k.peer = j.peer
    BY <1>1, <1>2, <2>4, KeyFields
  <2>6. /\ k = [length |-> k.length, meta |-> k.meta, cgroup |-> k.cgroup, peer |-> k.peer]
        /\ j = [length |-> j.length, meta |-> j.meta, cgroup |-> j.cgroup, peer |-> j.peer]
    BY <1>1, <1>2 DEF EncodePolicyRuleKey
  <2> QED
    BY <2>1, <2>5, <2>6
<1>4. ASSUME k = j PROVE SameNode(k, j)
  <2>1. k.length <= j.length
    BY <1>4, KeyTypes, KeysAssumption
  <2> QED
    BY <1>4, <2>1 DEF SameNode, Matches
<1> QED
  BY <1>3, <1>4

\* The keys of a policy: a set within the limit, in its slot.
LEMMA PolicyKeys ==
    ASSUME NEW s \in Slots, NEW set \in RuleSets \cup {{}}
    PROVE  /\ set \subseteq Rules
           /\ EncodePolicySet(s, set) \subseteq AllKeys
           /\ \A k \in EncodePolicySet(s, set) : SlotOf(k) = s
           /\ IsFiniteSet(EncodePolicySet(s, set))
           /\ Cardinality(EncodePolicySet(s, set)) \in 0 .. MaxRules
<1>1. set \subseteq Rules /\ IsFiniteSet(set) /\ Cardinality(set) <= MaxRules /\ MaxRules \in Nat
  <2>1. MaxRules \in Nat
    BY KeysAssumption
  <2>2. CASE set \in RuleSets
    BY <2>1, <2>2, KeysAssumption
  <2>3. CASE set = {}
    BY <2>1, <2>3, FS_EmptySet
  <2> QED
    BY <2>2, <2>3
<1>2. EncodePolicySet(s, set) \subseteq AllKeys
  BY <1>1 DEF EncodePolicySet, AllKeys
<1>3. \A k \in EncodePolicySet(s, set) : SlotOf(k) = s
  BY <1>1, KeyFields DEF EncodePolicySet
<1> DEFINE f == [r \in set |-> EncodePolicyRuleKey(s, r)]
           T == EncodePolicySet(s, set)
<1>4. f \in [set -> T] /\ \A k \in T : \E r \in set : f[r] = k
  BY DEF EncodePolicySet
<1> HIDE DEF f, T
<1>5. f \in Surjection(set, T)
  BY <1>4 DEF Surjection
<1>6. IsFiniteSet(T) /\ Cardinality(T) <= Cardinality(set)
  BY <1>1, <1>5, FS_Surjection
<1>7. Cardinality(T) \in Nat /\ Cardinality(set) \in Nat
  BY <1>1, <1>6, FS_CardinalityType
<1> QED
  BY <1>1, <1>2, <1>3, <1>6, <1>7 DEF T

-----------------------------------------------------------------------------
\* The types, with the keys in the map and on the list keys of rules.
KeysTyped ==
    /\ trie \subseteq AllKeys /\ left \subseteq AllKeys
    /\ active \in Slots /\ counts \in [Slots -> 0 .. MaxRules]
    /\ pc \in {"idle", "clear", "put"}
    /\ wanted \in [Slots -> RuleSets \cup {{}}] /\ whole \subseteq Slots

\* The slot packets are decided with is whole, the one at work is not.
ActiveIsWhole ==
    /\ active \in whole
    /\ pc # "idle" => Other(active) \notin whole

\* A slot holds no key but of its policy, and no more than its count; a whole slot has all.
SlotsFilled ==
    /\ \A s \in Slots : /\ Entries(s) \subseteq EncodePolicySet(s, wanted[s])
                        /\ Cardinality(Entries(s)) <= counts[s]
    /\ \A s \in whole : /\ Entries(s) = EncodePolicySet(s, wanted[s])
                        /\ counts[s] = Cardinality(EncodePolicySet(s, wanted[s]))

\* The list has what is still to delete or to write.
WorkListed ==
    /\ pc = "clear" => left = Entries(Other(active))
    /\ pc = "put" =>
          LET o == Other(active) IN
          /\ Entries(o) \cup left = EncodePolicySet(o, wanted[o])
          /\ counts[o] = Cardinality(EncodePolicySet(o, wanted[o]))

\* The inductive invariant of RuleKeys.
KeysInv == KeysTyped /\ ActiveIsWhole /\ SlotsFilled /\ WorkListed

-----------------------------------------------------------------------------
\* There are two slots.
LEMMA OtherSlot ==
    ASSUME NEW s \in Slots
    PROVE  Other(s) \in Slots /\ Other(s) # s /\ Other(Other(s)) = s
           /\ \A u \in Slots : u = s \/ u = Other(s)
  BY DEF Slots, Other

\* The entries of a slot are a finite set within the limit.
LEMMA EntriesBounded ==
    ASSUME KeysInv, NEW s \in Slots
    PROVE  /\ IsFiniteSet(Entries(s))
           /\ Cardinality(Entries(s)) \in 0 .. MaxRules
           /\ Cardinality(Entries(s)) <= Cardinality(EncodePolicySet(s, wanted[s]))
           /\ wanted[s] \in RuleSets \cup {{}} /\ counts[s] \in 0 .. MaxRules /\ MaxRules \in Nat
<1>1. wanted[s] \in RuleSets \cup {{}} /\ counts[s] \in 0 .. MaxRules /\ MaxRules \in Nat
  BY KeysAssumption DEF KeysInv, KeysTyped
<1> DEFINE E == EncodePolicySet(s, wanted[s])
<1>2. IsFiniteSet(E) /\ Cardinality(E) \in 0 .. MaxRules
  BY <1>1, PolicyKeys
<1>3. Entries(s) \in SUBSET E
  BY DEF KeysInv, SlotsFilled
<1> HIDE DEF E
<1>4. IsFiniteSet(Entries(s)) /\ Cardinality(Entries(s)) <= Cardinality(E)
  BY <1>2, <1>3, FS_Subset
<1>5. Cardinality(Entries(s)) \in Nat
  BY <1>4, FS_CardinalityType
<1>6. Cardinality(Entries(s)) \in 0 .. MaxRules
  BY <1>1, <1>2, <1>4, <1>5
<1> QED
  BY <1>1, <1>4, <1>6 DEF E

\* What the trie operations do with keys of rules.
LEMMA Deleted ==
    ASSUME KeysTyped, NEW k \in AllKeys
    PROVE  {n \in trie : ~ SameNode(n, k)} = trie \ {k}
  BY NodeIsKey DEF KeysTyped

\* Only the slot at work changes, by its key.
LEMMA EntriesAfter ==
    ASSUME KeysTyped, NEW k, NEW s \in Slots
    PROVE  /\ trie' = trie \ {k} => Entries(s)' = Entries(s) \ {k}
           /\ trie' = trie \cup {k} /\ SlotOf(k) = s => Entries(s)' = Entries(s) \cup {k}
           /\ trie' = trie \cup {k} /\ SlotOf(k) # s => Entries(s)' = Entries(s)
           /\ trie' = trie => Entries(s)' = Entries(s)
  BY DEF Entries, SlotOf

\* One lemma for each step of the agent; stuttering first.
LEMMA KeysStutter ==
    ASSUME KeysInv, UNCHANGED keysVars
    PROVE  KeysInv'
  BY DEF KeysInv, keysVars, KeysTyped, ActiveIsWhole, SlotsFilled, WorkListed, Entries

\* ClearSlot lists the entries of the slot, which is not whole any more.
LEMMA BeginClearStep ==
    ASSUME KeysInv, BeginClear
    PROVE  KeysInv'
<1> DEFINE o == Other(active)
<1>1. /\ o \in Slots /\ o # active /\ active \in Slots
  BY OtherSlot DEF KeysInv, KeysTyped
<1>2. \A s \in Slots : Entries(s)' = Entries(s)
  BY DEF BeginClear, Entries
<1>3. KeysTyped'
  <2>1. Entries(o) \subseteq AllKeys
    BY DEF KeysInv, KeysTyped, Entries
  <2> QED
    BY <1>1, <2>1 DEF BeginClear, KeysInv, KeysTyped
<1>4. ActiveIsWhole'
  BY <1>1 DEF BeginClear, KeysInv, ActiveIsWhole, Other
<1>5. SlotsFilled'
  BY <1>2, <1>1 DEF BeginClear, KeysInv, KeysTyped, SlotsFilled
<1>6. WorkListed'
  BY <1>1, <1>2 DEF BeginClear, WorkListed, Other
<1> QED
  BY <1>3, <1>4, <1>5, <1>6 DEF KeysInv

\* A key of the list leaves the trie, and no other.
LEMMA DeleteKeyStep ==
    ASSUME KeysInv, DeleteKey
    PROVE  KeysInv'
<1>1. PICK k \in left : trie' = {n \in trie : ~ SameNode(n, k)} /\ left' = left \ {k}
  BY DEF DeleteKey
<1>2. k \in AllKeys /\ trie' = trie \ {k}
  BY <1>1, Deleted DEF KeysInv, KeysTyped
<1>3. PICK a \in Slots, o \in Slots :
          /\ a = active /\ o = Other(active) /\ o # a /\ pc = "clear"
          /\ \A u \in Slots : u = a \/ u = o
  BY OtherSlot DEF KeysInv, KeysTyped, DeleteKey
<1>4. k \in Entries(o) /\ SlotOf(k) = o /\ o \notin whole
  BY <1>3 DEF KeysInv, WorkListed, ActiveIsWhole, Entries
<1>5. Entries(o)' = Entries(o) \ {k} /\ Entries(a)' = Entries(a)
  <2>1. \A s \in Slots : Entries(s)' = Entries(s) \ {k}
    BY <1>2, EntriesAfter DEF KeysInv
  <2>2. k \notin Entries(a)
    BY <1>3, <1>4 DEF Entries
  <2> QED
    BY <1>3, <2>1, <2>2
<1>6. UNCHANGED <<active, counts, pc, wanted, whole>>
  BY DEF DeleteKey
<1>7. KeysTyped'
  BY <1>1, <1>2, <1>6 DEF KeysInv, KeysTyped
<1>8. ActiveIsWhole'
  BY <1>6 DEF KeysInv, ActiveIsWhole, Other
<1>9. Cardinality(Entries(o)') <= counts[o]
  <2>1. IsFiniteSet(Entries(o)) /\ Cardinality(Entries(o)) <= counts[o] /\ counts[o] \in Nat
    BY <1>3, EntriesBounded DEF KeysInv, SlotsFilled
  <2>2. Cardinality(Entries(o) \ {k}) <= Cardinality(Entries(o))
        /\ IsFiniteSet(Entries(o) \ {k})
    BY <2>1, FS_Subset
  <2>3. Cardinality(Entries(o) \ {k}) \in Nat /\ Cardinality(Entries(o)) \in Nat
    BY <2>1, <2>2, FS_CardinalityType
  <2> QED
    BY <1>5, <2>1, <2>2, <2>3
<1>10. SlotsFilled'
  <2> SUFFICES ASSUME NEW s \in Slots
               PROVE  /\ Entries(s)' \subseteq EncodePolicySet(s, wanted[s])
                      /\ Cardinality(Entries(s)') <= counts[s]
                      /\ s \in whole => Entries(s)' = EncodePolicySet(s, wanted[s])
                           /\ counts[s] = Cardinality(EncodePolicySet(s, wanted[s]))
    BY <1>6 DEF SlotsFilled, KeysInv, KeysTyped
  <2>1. CASE s = a
    BY <1>3, <1>5, <2>1 DEF KeysInv, SlotsFilled
  <2>2. CASE s = o
    BY <1>3, <1>4, <1>5, <1>9, <2>2 DEF KeysInv, SlotsFilled
  <2> QED
    BY <1>3, <2>1, <2>2
<1>11. WorkListed'
  <2>1. pc' = "clear" /\ Other(active)' = o
    BY <1>3, <1>6 DEF Other
  <2>2. left' = Entries(o)'
    BY <1>1, <1>3, <1>5 DEF KeysInv, WorkListed
  <2>3. Entries(Other(active))' = Entries(o)'
    BY <1>3, <1>6 DEF Entries, Other
  <2> QED
    BY <2>1, <2>2, <2>3 DEF WorkListed
<1> QED
  BY <1>7, <1>8, <1>10, <1>11 DEF KeysInv

\* With the list empty, the slot is.
LEMMA EndClearStep ==
    ASSUME KeysInv, EndClear
    PROVE  KeysInv'
<1>1. PICK a \in Slots, o \in Slots :
          /\ a = active /\ o = Other(active) /\ o # a
          /\ \A u \in Slots : u = a \/ u = o
  BY OtherSlot DEF KeysInv, KeysTyped
<1>2. Entries(o) = {} /\ EncodePolicySet(o, {}) = {} /\ Cardinality({}) = 0
  BY <1>1, FS_EmptySet DEF KeysInv, WorkListed, EndClear, EncodePolicySet
<1>3. /\ trie' = trie /\ active' = active /\ left' = left /\ pc' = "idle"
      /\ counts' = [counts EXCEPT ![o] = 0] /\ wanted' = [wanted EXCEPT ![o] = {}]
      /\ whole' = whole \cup {o}
  BY <1>1 DEF EndClear
<1>4. \A s \in Slots : Entries(s)' = Entries(s)
  BY <1>3 DEF Entries
<1>5. MaxRules \in Nat
  BY KeysAssumption
<1>6. KeysTyped'
  BY <1>3, <1>5 DEF KeysInv, KeysTyped
<1>7. ActiveIsWhole' /\ WorkListed'
  BY <1>3 DEF KeysInv, ActiveIsWhole, WorkListed
<1>8. SlotsFilled'
  <2> SUFFICES ASSUME NEW s \in Slots
               PROVE  /\ Entries(s)' \subseteq EncodePolicySet(s, wanted'[s])
                      /\ Cardinality(Entries(s)') <= counts'[s]
                      /\ s \in whole' => Entries(s)' = EncodePolicySet(s, wanted'[s])
                           /\ counts'[s] = Cardinality(EncodePolicySet(s, wanted'[s]))
    BY <1>6 DEF SlotsFilled, KeysTyped
  <2>1. CASE s = a
    <3>1. wanted'[s] = wanted[s] /\ counts'[s] = counts[s] /\ (s \in whole' => s \in whole)
      BY <1>1, <1>3, <2>1 DEF KeysInv, KeysTyped
    <3> QED
      BY <1>4, <3>1 DEF KeysInv, SlotsFilled
  <2>2. CASE s = o
    <3>1. wanted'[s] = {} /\ counts'[s] = 0
      BY <1>3, <2>2 DEF KeysInv, KeysTyped
    <3> QED
      BY <1>2, <1>4, <2>2, <3>1
  <2> QED
    BY <1>1, <2>1, <2>2
<1> QED
  BY <1>6, <1>7, <1>8 DEF KeysInv

\* PopulateSlot begins with an empty slot: its count covers its entries.
LEMMA BeginPopulateStep ==
    ASSUME KeysInv, NEW set \in RuleSets, BeginPopulate(set)
    PROVE  KeysInv'
<1>1. PICK a \in Slots, o \in Slots :
          /\ a = active /\ o = Other(active) /\ o # a
          /\ \A u \in Slots : u = a \/ u = o
  BY OtherSlot DEF KeysInv, KeysTyped
<1> DEFINE keys == EncodePolicySet(o, set)
<1>2. keys \subseteq AllKeys /\ Cardinality(keys) \in 0 .. MaxRules
  BY PolicyKeys
<1>3. Entries(o) = {}
  <2>1. counts[o] = 0 /\ IsFiniteSet(Entries(o)) /\ Cardinality(Entries(o)) \in 0 .. MaxRules
    BY <1>1, EntriesBounded DEF BeginPopulate
  <2>2. Cardinality(Entries(o)) <= 0
    BY <2>1 DEF KeysInv, SlotsFilled
  <2>3. Cardinality(Entries(o)) = 0
    BY <2>1, <2>2
  <2> QED
    BY <2>1, <2>3, FS_EmptySet
<1>4. /\ trie' = trie /\ active' = active /\ left' = keys /\ pc' = "put"
      /\ counts' = [counts EXCEPT ![o] = Cardinality(keys)]
      /\ wanted' = [wanted EXCEPT ![o] = set] /\ whole' = whole \ {o}
  BY <1>1 DEF BeginPopulate
<1>5. \A s \in Slots : Entries(s)' = Entries(s)
  BY <1>4 DEF Entries
<1>6. wanted'[o] = set /\ counts'[o] = Cardinality(keys) /\ wanted'[a] = wanted[a]
      /\ counts'[a] = counts[a]
  BY <1>1, <1>4 DEF KeysInv, KeysTyped
<1> HIDE DEF keys
<1>7. KeysTyped'
  BY <1>2, <1>4 DEF KeysInv, KeysTyped
<1>8. ActiveIsWhole'
  BY <1>1, <1>4 DEF KeysInv, ActiveIsWhole, Other
<1>9. SlotsFilled'
  <2> SUFFICES ASSUME NEW s \in Slots
               PROVE  /\ Entries(s)' \subseteq EncodePolicySet(s, wanted'[s])
                      /\ Cardinality(Entries(s)') <= counts'[s]
                      /\ s \in whole' => Entries(s)' = EncodePolicySet(s, wanted'[s])
                           /\ counts'[s] = Cardinality(EncodePolicySet(s, wanted'[s]))
    BY <1>7 DEF SlotsFilled, KeysTyped
  <2>1. CASE s = a
    BY <1>4, <1>5, <1>6, <2>1 DEF KeysInv, SlotsFilled
  <2>2. CASE s = o
    <3>1. Entries(s)' = {} /\ s \notin whole'
      BY <1>3, <1>4, <1>5, <2>2
    <3>2. Cardinality(Entries(s)') = 0
      BY <3>1, FS_EmptySet
    <3> QED
      BY <1>2, <1>6, <2>2, <3>1, <3>2
  <2> QED
    BY <1>1, <2>1, <2>2
<1>10. WorkListed'
  <2>1. Other(active') = o
    BY <1>1, <1>4
  <2>2. Entries(o)' = {} /\ left' = EncodePolicySet(o, wanted'[o])
        /\ counts'[o] = Cardinality(EncodePolicySet(o, wanted'[o]))
    BY <1>3, <1>4, <1>5, <1>6 DEF keys
  <2>3. Entries(Other(active))' = {}
    BY <2>1, <2>2 DEF Entries, Other
  <2> QED
    BY <1>4, <2>1, <2>2, <2>3 DEF WorkListed, Other
<1> QED
  BY <1>7, <1>8, <1>9, <1>10 DEF KeysInv

\* A key of the list enters the slot at work, and the other is as it was.
LEMMA PutKeyStep ==
    ASSUME KeysInv, PutKey
    PROVE  KeysInv'
<1>1. PICK a \in Slots, o \in Slots :
          /\ a = active /\ o = Other(active) /\ o # a
          /\ \A u \in Slots : u = a \/ u = o
  BY OtherSlot DEF KeysInv, KeysTyped
<1>2. PICK k \in left : trie' = {n \in trie : ~ SameNode(n, k)} \cup {k} /\ left' = left \ {k}
  BY DEF PutKey
<1>3. k \in AllKeys /\ trie' = trie \cup {k}
  BY <1>2, Deleted DEF KeysInv, KeysTyped
<1>4. UNCHANGED <<active, counts, pc, wanted, whole>> /\ pc = "put"
  BY DEF PutKey
<1> DEFINE E == EncodePolicySet(o, wanted[o])
<1>5. /\ Entries(o) \cup left = E /\ counts[o] = Cardinality(E) /\ o \notin whole
  BY <1>1, <1>4 DEF KeysInv, WorkListed, ActiveIsWhole
<1>6. k \in E /\ SlotOf(k) = o /\ IsFiniteSet(E)
  <2>1. wanted[o] \in RuleSets \cup {{}}
    BY DEF KeysInv, KeysTyped
  <2> QED
    BY <1>2, <1>5, <2>1, PolicyKeys
<1>7. Entries(o)' = Entries(o) \cup {k} /\ Entries(a)' = Entries(a)
  BY <1>1, <1>3, <1>6, EntriesAfter DEF KeysInv
<1> HIDE DEF E
<1>8. KeysTyped'
  BY <1>2, <1>3, <1>4 DEF KeysInv, KeysTyped
<1>9. ActiveIsWhole'
  BY <1>4 DEF KeysInv, ActiveIsWhole, Other
<1>10. Entries(o)' \subseteq E /\ Cardinality(Entries(o)') <= counts[o]
  <2>1. Entries(o)' \in SUBSET E
    BY <1>5, <1>6, <1>7
  <2>2. Cardinality(Entries(o)') <= Cardinality(E)
    BY <1>6, <2>1, FS_Subset
  <2> QED
    BY <1>5, <2>1, <2>2
<1>11. SlotsFilled'
  <2> SUFFICES ASSUME NEW s \in Slots
               PROVE  /\ Entries(s)' \subseteq EncodePolicySet(s, wanted[s])
                      /\ Cardinality(Entries(s)') <= counts[s]
                      /\ s \in whole => Entries(s)' = EncodePolicySet(s, wanted[s])
                           /\ counts[s] = Cardinality(EncodePolicySet(s, wanted[s]))
    BY <1>4 DEF SlotsFilled, KeysInv, KeysTyped
  <2>1. CASE s = a
    BY <1>7, <2>1 DEF KeysInv, SlotsFilled
  <2>2. CASE s = o
    BY <1>5, <1>10, <2>2 DEF E
  <2> QED
    BY <1>1, <2>1, <2>2
<1>12. WorkListed'
  <2>1. Other(active') = o /\ wanted' = wanted /\ counts' = counts /\ pc' = "put"
    BY <1>1, <1>4
  <2>2. Entries(o)' \cup left' = E
    BY <1>2, <1>5, <1>7
  <2>3. Entries(Other(active))' = Entries(o)'
    BY <2>1 DEF Entries, Other
  <2> QED
    BY <1>5, <2>1, <2>2, <2>3 DEF WorkListed, Other, E
<1> QED
  BY <1>8, <1>9, <1>11, <1>12 DEF KeysInv

\* With the list empty, the slot has every key of its policy.
LEMMA FlipStep ==
    ASSUME KeysInv, Flip
    PROVE  KeysInv'
<1>1. PICK a \in Slots, o \in Slots :
          /\ a = active /\ o = Other(active) /\ o # a
          /\ \A u \in Slots : u = a \/ u = o
  BY OtherSlot DEF KeysInv, KeysTyped
<1>2. /\ trie' = trie /\ active' = o /\ left' = left /\ pc' = "idle"
      /\ counts' = counts /\ wanted' = wanted /\ whole' = whole \cup {o}
  BY <1>1 DEF Flip
<1>3. /\ Entries(o) = EncodePolicySet(o, wanted[o])
      /\ counts[o] = Cardinality(EncodePolicySet(o, wanted[o]))
  BY <1>1 DEF Flip, KeysInv, WorkListed
<1>4. \A s \in Slots : Entries(s)' = Entries(s)
  BY <1>2 DEF Entries
<1>5. KeysTyped' /\ ActiveIsWhole' /\ WorkListed'
  BY <1>2 DEF KeysInv, KeysTyped, ActiveIsWhole, WorkListed
<1>6. SlotsFilled'
  <2> SUFFICES ASSUME NEW s \in Slots
               PROVE  /\ Entries(s) \subseteq EncodePolicySet(s, wanted[s])
                      /\ Cardinality(Entries(s)) <= counts[s]
                      /\ s \in whole \cup {o} => Entries(s) = EncodePolicySet(s, wanted[s])
                           /\ counts[s] = Cardinality(EncodePolicySet(s, wanted[s]))
    BY <1>2, <1>4, <1>5 DEF SlotsFilled, KeysTyped
  <2> QED
    BY <1>3 DEF KeysInv, SlotsFilled
<1> QED
  BY <1>5, <1>6 DEF KeysInv

\* A failure leaves a slot that is not whole.
LEMMA FailStep ==
    ASSUME KeysInv, Fail
    PROVE  KeysInv'
<1>1. \A s \in Slots : Entries(s)' = Entries(s)
  BY DEF Fail, Entries
<1>2. KeysTyped' /\ ActiveIsWhole' /\ WorkListed'
  BY DEF Fail, KeysInv, KeysTyped, ActiveIsWhole, WorkListed
<1>3. SlotsFilled'
  BY <1>1 DEF Fail, KeysInv, KeysTyped, SlotsFilled
<1> QED
  BY <1>2, <1>3 DEF KeysInv

\* The next agent counts what is there.
LEMMA RestartStep ==
    ASSUME KeysInv, Restart
    PROVE  KeysInv'
<1>1. \A s \in Slots : Entries(s)' = Entries(s)
  BY DEF Restart, Entries
<1>2. \A s \in Slots : counts'[s] = Cardinality(Entries(s))
  BY DEF Restart
<1>3. KeysTyped'
  <2>1. counts' \in [Slots -> 0 .. MaxRules]
    BY EntriesBounded DEF Restart
  <2> QED
    BY <2>1 DEF Restart, KeysInv, KeysTyped
<1>4. ActiveIsWhole' /\ WorkListed'
  BY DEF Restart, KeysInv, ActiveIsWhole, WorkListed
<1>5. SlotsFilled'
  <2> SUFFICES ASSUME NEW s \in Slots
               PROVE  /\ Entries(s) \subseteq EncodePolicySet(s, wanted[s])
                      /\ Cardinality(Entries(s)) <= Cardinality(Entries(s))
                      /\ s \in whole => Entries(s) = EncodePolicySet(s, wanted[s])
    BY <1>1, <1>2, <1>3 DEF Restart, SlotsFilled, KeysTyped
  <2> QED
    BY EntriesBounded DEF KeysInv, SlotsFilled
<1> QED
  BY <1>3, <1>4, <1>5 DEF KeysInv

\* In any history of fills, clears, failures and restarts the slots hold what they should.
LEMMA KeysInvariant == KeysSpec => []KeysInv
<1>1. KeysInit => KeysInv
  <2> SUFFICES ASSUME KeysInit PROVE KeysInv
    OBVIOUS
  <2>1. MaxRules \in Nat /\ Cardinality({}) = 0
    BY KeysAssumption, FS_EmptySet
  <2>2. \A s \in Slots : Entries(s) = {} /\ EncodePolicySet(s, wanted[s]) = {} /\ counts[s] = 0
    BY DEF KeysInit, Entries, EncodePolicySet
  <2>3. KeysTyped
    BY <2>1 DEF KeysInit, KeysTyped, Slots
  <2>4. ActiveIsWhole /\ WorkListed
    BY DEF KeysInit, ActiveIsWhole, WorkListed, Slots
  <2>5. SlotsFilled
    BY <2>1, <2>2 DEF KeysInit, SlotsFilled
  <2> QED
    BY <2>3, <2>4, <2>5 DEF KeysInv
<1>2. KeysInv /\ [KeysNext]_keysVars => KeysInv'
  BY BeginClearStep, DeleteKeyStep, EndClearStep, BeginPopulateStep, PutKeyStep, FlipStep,
     FailStep, RestartStep, KeysStutter DEF KeysNext
<1> QED
  BY <1>1, <1>2, PTL DEF KeysSpec

-----------------------------------------------------------------------------
\* A lookup finds the rules of its own slot and no other.
LEMMA Lookup ==
    ASSUME KeysInv, NEW slot \in whole, NEW cgroup \in RuleCgroups,
           NEW direction \in {Egress, Ingress}, NEW p \in KeyPackets
    PROVE  RuleMatches(slot, cgroup, direction, p)
             <=> \E r \in wanted[slot] : Covers(r, cgroup, direction, p)
<1> DEFINE peer == IF direction = Egress THEN p.destination ELSE p.source
           key == [length |-> Fixed + AddressBits,
                   meta   |-> Meta(slot, direction, p.protocol, p.port),
                   cgroup |-> cgroup,
                   peer   |-> peer]
<1>1. RuleMatches(slot, cgroup, direction, p) <=> \E k \in trie : Matches(k, key)
  BY DEF RuleMatches
<1>2. /\ slot \in Slots /\ wanted[slot] \subseteq Rules
      /\ Entries(slot) = EncodePolicySet(slot, wanted[slot])
  BY PolicyKeys DEF KeysInv, KeysTyped, SlotsFilled
<1>3. p.protocol \in Protocols /\ p.port \in Ports
  BY DEF KeyPackets
<1>4. /\ key.length = Fixed + AddressBits /\ key.cgroup = cgroup /\ key.peer = peer
      /\ key.meta = Meta(slot, direction, p.protocol, p.port)
  OBVIOUS
<1> HIDE DEF key
<1>5. \A r \in Rules : Covers(r, cgroup, direction, p) <=>
          /\ r.cgroup = cgroup /\ r.direction = direction
          /\ r.protocol = p.protocol /\ r.port = p.port
          /\ Leading(peer, r.bits) = Leading(r.peer, r.bits)
  BY DEF Covers
<1> HIDE DEF peer
<1>6. ASSUME NEW r \in wanted[slot], Covers(r, cgroup, direction, p)
      PROVE  \E k \in trie : Matches(k, key)
  <2> DEFINE k == EncodePolicyRuleKey(slot, r)
  <2>1. r \in Rules /\ k \in trie
    BY <1>2, <1>6 DEF EncodePolicySet, Entries
  <2>2. /\ k.length = Fixed + r.bits /\ k.length - Fixed = r.bits
        /\ k.meta = Meta(slot, r.direction, r.protocol, r.port) /\ k.cgroup = r.cgroup
        /\ Leading(k.peer, r.bits) = Leading(r.peer, r.bits)
    BY <1>2, <2>1, KeyFields
  <2>3. Fixed \in Nat /\ AddressBits \in Nat /\ r.bits \in 0 .. AddressBits
    BY <2>1, Masking, KeysAssumption
  <2> HIDE DEF k
  <2>4. k.length <= key.length
    BY <1>4, <2>2, <2>3
  <2>5. k.meta = key.meta /\ k.cgroup = key.cgroup
    BY <1>4, <1>5, <1>6, <2>1, <2>2
  <2>6. Leading(k.peer, k.length - Fixed) = Leading(key.peer, k.length - Fixed)
    BY <1>4, <1>5, <1>6, <2>1, <2>2
  <2>7. Matches(k, key)
    BY <2>4, <2>5, <2>6 DEF Matches
  <2> QED
    BY <2>1, <2>7
<1>7. ASSUME NEW k \in trie, Matches(k, key)
      PROVE  \E r \in wanted[slot] : Covers(r, cgroup, direction, p)
  <2>1. k.meta = key.meta /\ k.cgroup = key.cgroup
        /\ Leading(k.peer, k.length - Fixed) = Leading(key.peer, k.length - Fixed)
    BY <1>7 DEF Matches
  <2>2. SlotOf(k) = slot
    <3>1. key.meta \div 2 ^ SlotBit = slot
      BY <1>2, <1>3, <1>4, MetaFields
    <3> QED
      BY <2>1, <3>1 DEF SlotOf
  <2>3. PICK r \in wanted[slot] : k = EncodePolicyRuleKey(slot, r)
    BY <1>2, <1>7, <2>2 DEF Entries, EncodePolicySet
  <2>4. r \in Rules
    BY <1>2
  <2>5. /\ k.length - Fixed = r.bits /\ k.cgroup = r.cgroup
        /\ k.meta = Meta(slot, r.direction, r.protocol, r.port)
        /\ Leading(k.peer, r.bits) = Leading(r.peer, r.bits)
    BY <1>2, <2>3, <2>4, KeyFields
  <2>6. r.direction \in {Egress, Ingress} /\ r.protocol \in Protocols /\ r.port \in Ports
    BY <2>4 DEF Rules
  <2>7. /\ (k.meta \div 2 ^ DirectionBit) % 2 = r.direction
        /\ (k.meta \div 2 ^ PortBits) % 2 ^ ProtoBits = r.protocol
        /\ k.meta % 2 ^ PortBits = r.port
    BY <1>2, <2>5, <2>6, MetaFields
  <2>8. /\ (key.meta \div 2 ^ DirectionBit) % 2 = direction
        /\ (key.meta \div 2 ^ PortBits) % 2 ^ ProtoBits = p.protocol
        /\ key.meta % 2 ^ PortBits = p.port
    BY <1>2, <1>3, <1>4, MetaFields
  <2>9. r.direction = direction /\ r.protocol = p.protocol /\ r.port = p.port
    BY <2>1, <2>7, <2>8, Zenon
  <2>10. Leading(peer, r.bits) = Leading(r.peer, r.bits)
    BY <1>4, <2>1, <2>5
  <2>11. r.cgroup = cgroup
    BY <1>4, <2>1, <2>5
  <2>12. Covers(r, cgroup, direction, p)
    BY <1>5, <2>4, <2>9, <2>10, <2>11
  <2> QED
    BY <2>12
<1> QED
  BY <1>1, <1>6, <1>7

\* The map has room for the keys still to be written.
LEMMA RoomForLeft ==
    ASSUME KeysInv
    PROVE  CountsCoverEntries
<1>1. PICK a \in Slots, o \in Slots :
          /\ a = active /\ o = Other(active) /\ o # a
          /\ \A u \in Slots : u = a \/ u = o
  BY OtherSlot DEF KeysInv, KeysTyped
<1>2. \A slot \in Slots : Cardinality(Entries(slot)) <= counts[slot]
  BY DEF KeysInv, SlotsFilled
<1>3. \A slot \in whole : Cardinality(Entries(slot)) = counts[slot]
  BY DEF KeysInv, SlotsFilled
<1>4. ASSUME pc = "put" PROVE Cardinality(trie \cup left) <= 2 * MaxRules
  <2> DEFINE A == Entries(a)
             E == EncodePolicySet(o, wanted[o])
  <2>1. trie \cup left = A \cup E
    <3>1. trie = Entries(a) \cup Entries(o)
      BY <1>1, KeyTypes DEF KeysInv, KeysTyped, Entries
    <3>2. Entries(o) \cup left = E
      BY <1>1, <1>4 DEF KeysInv, WorkListed
    <3> QED
      BY <3>1, <3>2
  <2>2. IsFiniteSet(A) /\ Cardinality(A) \in 0 .. MaxRules /\ MaxRules \in Nat
    BY EntriesBounded
  <2>3. IsFiniteSet(E) /\ Cardinality(E) \in 0 .. MaxRules
    BY PolicyKeys DEF KeysInv, KeysTyped
  <2> HIDE DEF A, E
  <2>4. Cardinality(A \cup E) = Cardinality(A) + Cardinality(E) - Cardinality(A \cap E)
    BY <2>2, <2>3, FS_Union
  <2>5. Cardinality(A \cap E) \in Nat
    <3>1. IsFiniteSet(A \cap E)
      BY <2>2, FS_Subset
    <3> QED
      BY <3>1, FS_CardinalityType
  <2>6. \A x, y, z \in Nat : x <= MaxRules /\ y <= MaxRules => x + y - z <= 2 * MaxRules
    BY <2>2
  <2>7. Cardinality(A \cup E) <= 2 * MaxRules
    BY <2>2, <2>3, <2>4, <2>5, <2>6
  <2> QED
    BY <2>1, <2>7
<1> QED
  BY <1>2, <1>3, <1>4 DEF CountsCoverEntries

\* What a restarted agent reads is the policy of the active slot.
LEMMA ReadBack ==
    ASSUME KeysInv
    PROVE  RecoveredEqualsCommitted
<1>1. \A k \in trie : ValidKey(k)
  BY KeyTypes DEF KeysInv, KeysTyped
<1>2. /\ active \in Slots /\ wanted[active] \subseteq Rules
      /\ Entries(active) = EncodePolicySet(active, wanted[active])
  BY PolicyKeys DEF KeysInv, KeysTyped, SlotsFilled, ActiveIsWhole
<1>3. {DecodeRule(k) : k \in Entries(active)}
        = {DecodeRule(EncodePolicyRuleKey(active, r)) : r \in wanted[active]}
  BY <1>2 DEF EncodePolicySet
<1>4. \A r \in wanted[active] :
          DecodeRule(EncodePolicyRuleKey(active, r)) = [r EXCEPT !.peer = MaskedPeer(r)]
  BY <1>2, Decoded
<1>5. {DecodeRule(k) : k \in Entries(active)}
        = {[r EXCEPT !.peer = MaskedPeer(r)] : r \in wanted[active]}
  BY <1>3, <1>4
<1>6. {[r EXCEPT !.peer = MaskedPeer(r)] : r \in wanted[active]}
        = {[r EXCEPT !.peer = Leading(r.peer, r.bits) * 2 ^ (AddressBits - r.bits)] :
             r \in wanted[active]}
  BY DEF MaskedPeer
<1> QED
  BY <1>1, <1>5, <1>6 DEF RecoveredEqualsCommitted

\* For any widths of the fields and any policies within the limit, and after any history of
\* fills, clears, failures and restarts: a lookup in a whole slot is answered by the rules of
\* that slot's policy alone, prefix by prefix, the map has room for what is still to be
\* written, and recovery reads the active policy back (encodePolicyRuleKey, rule_matches,
\* PopulateSlot, ClearSlot, recoverPolicySlots).
THEOREM KeysExactAlways == KeysSpec => []KeysExact
<1>1. KeysInv => KeysExact
  <2> SUFFICES ASSUME KeysInv PROVE KeysExact
    OBVIOUS
  <2>1. KeysTypeOK
    BY KeyTypes DEF KeysTypeOK, KeysInv, KeysTyped
  <2>2. LookupMatchesRules
    BY Lookup DEF LookupMatchesRules
  <2> QED
    BY <2>1, <2>2, RoomForLeft, ReadBack DEF KeysExact
<1> QED
  BY <1>1, KeysInvariant, PTL

(***************************************************************************)
(* IPBlocks and BlockExpansion.                                            *)
(***************************************************************************)
\* A set of natural numbers has a least one.
LEMMA Least ==
    ASSUME NEW T, T \subseteq Nat, T # {}
    PROVE  \E x \in T : \A y \in T : x <= y
<1>. DEFINE R == {ss \in Nat \X Nat : ss[1] < ss[2]}
<1>0. IsWellFoundedOn(R, Nat)
  BY NatLessThanWellFounded DEF OpToRel
<1>. HIDE DEF R
<1>1. PICK x \in T : \A y \in T : ~(<<y, x>> \in R)
  BY <1>0, WFMin
<1>2. \A y \in T : y < x => <<y, x>> \in R
  BY DEF R
<1>3. \A y \in T : ~(y < x)
  BY <1>1, <1>2
<1>4. \A y \in T : x <= y
  <2>. TAKE y \in T
  <2>1. x \in Nat /\ y \in Nat
    OBVIOUS
  <2>. QED  BY <1>3, <2>1
<1>. QED  BY <1>4

\* A set that holds 0 and the successor of each of its numbers holds them all.
LEMMA SetInduction ==
    ASSUME NEW S, 0 \in S, \A n \in Nat : n \in S => n + 1 \in S
    PROVE  Nat \subseteq S
<1>. SUFFICES ASSUME Nat \ S # {} PROVE FALSE
  OBVIOUS
<1>1. PICK x \in Nat \ S : \A y \in Nat \ S : x <= y
  BY Least
<1>. QED  BY <1>1

\* What one turn of a loop keeps, the loop keeps: I relates the number of turns done to the
\* state.
LEMMA Iteration ==
    ASSUME NEW n \in Nat, NEW x, NEW F, NEW I, <<0, x>> \in I,
           \A i \in 0 .. n - 1 : \A s : <<i, s>> \in I => <<i + 1, F[s]>> \in I
    PROVE  <<n, Turns(F, x, n)>> \in I
<1>. DEFINE Def(k, f) == f = [i \in 0 .. k |-> IF i = 0 THEN x ELSE F[f[i - 1]]]
            S == {k \in Nat : \E f : Def(k, f)}
            after == CHOOSE f : Def(n, f)
<1>1. 0 \in S
  <2>. DEFINE f == [i \in 0 .. 0 |-> x]
  <2>1. \A i \in 0 .. 0 : i = 0
    OBVIOUS
  <2>2. Def(0, f)
    BY <2>1
  <2>. QED  BY <2>2
<1>2. ASSUME NEW k \in Nat, k \in S PROVE k + 1 \in S
  <2>1. PICK f : Def(k, f)
    BY <1>2
  <2>. DEFINE last == F[f[k]]
              g == [i \in 0 .. k + 1 |-> IF i = k + 1 THEN last ELSE f[i]]
  <2>2. g[k + 1] = last /\ \A i \in 0 .. k : g[i] = f[i]
    <3>. HIDE DEF last
    <3>. QED  OBVIOUS
  <2>3. DOMAIN g = 0 .. k + 1 /\ g = [i \in 0 .. k + 1 |-> g[i]]
    OBVIOUS
  <2>4. f[0] = x /\ \A i \in 1 .. k : f[i] = F[f[i - 1]]
    BY <2>1
  <2>. HIDE DEF g
  <2>5. ASSUME NEW i \in 0 .. k + 1 PROVE g[i] = IF i = 0 THEN x ELSE F[g[i - 1]]
    <3>1. CASE i = k + 1
      <4>1. g[i - 1] = f[k] /\ i # 0
        BY <2>2, <3>1
      <4>. QED  BY <2>2, <3>1, <4>1
    <3>2. CASE i \in 1 .. k
      <4>1. g[i] = f[i] /\ g[i - 1] = f[i - 1] /\ f[i] = F[f[i - 1]] /\ i # 0
        BY <2>2, <2>4, <3>2
      <4>. QED  BY <4>1
    <3>3. CASE i = 0
      BY <2>2, <2>4, <3>3
    <3>. QED  BY <3>1, <3>2, <3>3
  <2>6. Def(k + 1, g)
    BY <2>3, <2>5
  <2>. HIDE DEF Def
  <2>. QED  BY <2>6
<1>3. n \in S
  <2>. HIDE DEF S
  <2>. QED  BY <1>1, <1>2, SetInduction
<1>4. Def(n, after)
  <2>1. \E f : Def(n, f)
    BY <1>3
  <2>. HIDE DEF Def
  <2>. QED  BY <2>1
<1>5. Turns(F, x, n) = after[n]
  BY DEF Turns
<1>. HIDE DEF after
<1>6. after[0] = x /\ \A i \in 1 .. n : after[i] = F[after[i - 1]]
  BY <1>4
<1>. DEFINE J == {k \in Nat : k <= n => <<k, after[k]>> \in I}
<1>7. 0 \in J
  BY <1>6
<1>8. ASSUME NEW k \in Nat, k \in J PROVE k + 1 \in J
  <2>. SUFFICES ASSUME k + 1 <= n PROVE <<k + 1, after[k + 1]>> \in I
    OBVIOUS
  <2>1. <<k, after[k]>> \in I /\ k \in 0 .. n - 1
    BY <1>8
  <2>2. k + 1 \in 1 .. n /\ (k + 1) - 1 = k
    OBVIOUS
  <2>3. after[k + 1] = F[after[k]]
    BY <1>6, <2>2
  <2>. QED  BY <2>1, <2>3
<1>9. n \in J
  <2>. HIDE DEF J
  <2>. QED  BY <1>7, <1>8, SetInduction
<1>. QED  BY <1>5, <1>9

\* A set of bit positions has a greatest one, and Max finds it.
LEMMA Greatest ==
    ASSUME NEW S, S \subseteq 0 .. Width, S # {}
    PROVE  Max(S) \in S /\ \A k \in S : k <= Max(S)
<1>. DEFINE T == {Width - k : k \in S}
<1>1. T \subseteq Nat /\ T # {}
  BY WidthAssumption
<1>2. PICK t \in T : \A u \in T : t <= u
  BY <1>1, Least
<1>3. PICK m \in S : t = Width - m
  OBVIOUS
<1>4. ASSUME NEW k \in S PROVE m >= k
  <2>1. t <= Width - k
    BY <1>2
  <2>. QED  BY <1>3, <2>1, WidthAssumption
<1>5. \E x \in S : \A k \in S : x >= k
  BY <1>4
<1>6. Max(S) \in S /\ \A k \in S : Max(S) >= k
  BY <1>5 DEF Max
<1>. QED  BY <1>6

\* Powers of two are positive, and a prefix divides the addresses evenly.
LEMMA Powers ==
    /\ Width \in Nat
    /\ \A k \in 0 .. Width : 2^k \in Nat \ {0}
    /\ \A bits \in 0 .. Width : SizeOf(bits) \in Nat \ {0} /\ 2^Width = 2^bits * SizeOf(bits)
<1>1. Width \in Nat
  BY WidthAssumption
<1>2. ASSUME NEW bits \in 0 .. Width
      PROVE  SizeOf(bits) \in Nat \ {0} /\ 2^Width = 2^bits * SizeOf(bits)
  <2>1. Width - bits \in 0 .. Width /\ bits + (Width - bits) = Width
    BY <1>1
  <2>2. 2^(bits + (Width - bits)) = 2^bits * 2^(Width - bits)
    BY <1>1, <2>1, PowerLaws
  <2>. QED  BY <2>1, <2>2, PowerLaws DEF SizeOf
<1>. QED  BY <1>1, <1>2, PowerLaws

\* A smaller power of two divides a larger one.
LEMMA Divides ==
    ASSUME NEW j \in 0 .. Width, NEW k \in 0 .. Width
    PROVE  /\ j <= k => \E q \in Nat \ {0} : 2^k = q * 2^j
           /\ j <= k => 2^j <= 2^k
           /\ j < k => 2 * 2^j <= 2^k
           /\ 2^j <= 2^k => j <= k
           /\ 2^j < 2^k => j < k
<1>1. ASSUME NEW m \in 0 .. Width, NEW n \in 0 .. Width, m <= n
      PROVE  2^(n - m) \in Nat \ {0} /\ 2^n = 2^(n - m) * 2^m
  <2>1. n - m \in 0 .. Width /\ (n - m) + m = n /\ (n - m) + m <= Width
    BY <1>1, Powers
  <2>2. 2^((n - m) + m) = 2^(n - m) * 2^m
    BY <2>1, PowerLaws, Zenon
  <2>. QED  BY <2>1, <2>2, Powers
<1>2. ASSUME NEW m \in 0 .. Width, NEW n \in 0 .. Width, m < n
      PROVE  2 * 2^m <= 2^n
  <2>1. m + 1 \in 0 .. Width /\ m + 1 <= n /\ 1 \in 0 .. Width
    BY <1>2, Powers
  <2>6. m + 1 <= Width
    BY <2>1
  <2>2. 2^(m + 1) = 2^m * 2^1
    BY <2>1, <2>6, PowerLaws, Zenon
  <2>3. 2^(m + 1) = 2 * 2^m
    BY <2>2, PowerLaws, Powers
  <2>. DEFINE q == 2^(n - (m + 1))
              b == 2^(m + 1)
  <2>4. q \in Nat \ {0} /\ 2^n = q * b /\ b \in Nat
    BY <1>1, <2>1, Powers
  <2>. HIDE DEF q, b
  <2>5. b <= q * b
    BY <2>4
  <2>. QED  BY <2>3, <2>4, <2>5 DEF b
<1>3. ASSUME NEW m \in 0 .. Width, NEW n \in 0 .. Width, m < n
      PROVE  2^m < 2^n
  BY <1>2, <1>3, Powers
<1>4. j \in Int /\ k \in Int /\ 2^j \in Nat \ {0} /\ 2^k \in Nat \ {0}
  BY Powers
<1>5. j <= k => \E q \in Nat \ {0} : 2^k = q * 2^j
  BY <1>1
<1>6. j <= k => 2^j <= 2^k
  BY <1>3, <1>4
<1>7. k < j => 2^k < 2^j
  BY <1>3
<1>8. k <= j => 2^k <= 2^j
  <2>1. k = j \/ k < j \/ j < k
    BY <1>4
  <2>. QED  BY <1>4, <1>7, <2>1
<1>. QED  BY <1>2, <1>4, <1>5, <1>6, <1>7, <1>8

\* A number divides what it is a factor of, and only that.
LEMMA Multiples ==
    ASSUME NEW x \in Nat, NEW m \in Nat \ {0}
    PROVE  /\ x % m \in 0 .. m - 1 /\ x % m <= x
           /\ \E q \in Nat : x = q * m + (x % m)
           /\ \A q \in Nat : x = q * m => x % m = 0
<1>. DEFINE q == x \div m
            r == x % m
<1>1. q \in Int /\ r \in Int /\ x = m * q + r /\ 0 <= r /\ r < m
  OBVIOUS
<1>. HIDE DEF q, r
<1>2. q \in Nat
  <2>. SUFFICES ASSUME q <= -1 PROVE FALSE
    BY <1>1
  <2>1. m * q <= 0 - m
    BY <1>1
  <2>. QED  BY <1>1, <2>1
<1>3. x = q * m + r /\ q * m \in Nat
  BY <1>1, <1>2
<1>4. ASSUME NEW p \in Nat, x = p * m PROVE r = 0
  <2>1. m * (p - q) = r
    BY <1>1, <1>4
  <2>2. ~(p - q >= 1)
    <3>. SUFFICES ASSUME p - q >= 1 PROVE FALSE
      OBVIOUS
    <3>1. m * (p - q) >= m
      BY <1>1
    <3>. QED  BY <1>1, <2>1, <3>1
  <2>3. ~(q - p >= 1)
    <3>. SUFFICES ASSUME q - p >= 1 PROVE FALSE
      OBVIOUS
    <3>1. m * (q - p) >= m
      BY <1>1
    <3>2. m * (p - q) = 0 - m * (q - p)
      BY <1>1
    <3>. QED  BY <1>1, <2>1, <3>1, <3>2
  <2>4. p = q
    BY <1>1, <2>2, <2>3
  <2>. QED  BY <1>1, <2>1, <2>4
<1>5. r \in 0 .. m - 1 /\ r <= x
  BY <1>1, <1>3
<1>6. \E p \in Nat : x = p * m + r
  BY <1>2, <1>3
<1>. QED  BY <1>4, <1>5, <1>6 DEF r

\* A multiple of a power of two is one of every smaller power.
LEMMA MultiplesOf ==
    ASSUME NEW x \in Nat, NEW j \in 0 .. Width, NEW k \in 0 .. Width, j <= k, x % 2^k = 0
    PROVE  x % 2^j = 0
<1>. DEFINE A == 2^j
            B == 2^k
<1>1. A \in Nat \ {0} /\ B \in Nat \ {0}
  BY Powers
<1>2. PICK q \in Nat \ {0} : B = q * A
  BY Divides
<1>. HIDE DEF A, B
<1>3. PICK p \in Nat : x = p * B
  <2>1. PICK p \in Nat : x = p * B + (x % B)
    BY <1>1, Multiples
  <2>2. x % B = 0
    BY DEF B
  <2>3. p * B \in Nat
    BY <1>1
  <2>. DEFINE y == p * B
  <2>4. x = y + 0 /\ y \in Nat
    BY <2>1, <2>2, <2>3
  <2>. HIDE DEF y
  <2>5. x = y
    BY <2>4
  <2>. QED  BY <2>5 DEF y
<1>4. p * q \in Nat /\ x = (p * q) * A
  BY <1>1, <1>2, <1>3
<1>. DEFINE w == p * q
<1>5. w \in Nat /\ x = w * A
  BY <1>4
<1>. HIDE DEF w
<1>6. x % A = 0
  BY <1>1, <1>5, Multiples
<1>. QED  BY <1>6 DEF A

\* nativePrefixRange: the range of a prefix starts at a multiple of its size, lies inside the
\* addresses, and the mask keeps it.
LEMMA PrefixRange ==
    ASSUME NEW p \in AllPrefixes
    PROVE  /\ Masked(p) \in AllPrefixes /\ Masked(p).bits = p.bits
           /\ Masked(Masked(p)) = Masked(p)
           /\ RangeStart(p) \in Nat /\ RangeEnd(p) \in Nat
           /\ RangeEnd(p) = RangeStart(p) + SizeOf(p.bits) - 1
           /\ RangeStart(p) <= RangeEnd(p) /\ RangeEnd(p) <= 2^Width - 1
           /\ RangeStart(p) % SizeOf(p.bits) = 0
<1>. DEFINE x == p.addr
            m == SizeOf(p.bits)
            n == 2^p.bits
            W == 2^Width
            start == x - (x % m)
<1>1. p.bits \in 0 .. Width /\ Width \in Nat /\ W \in Nat \ {0}
  BY Powers DEF AllPrefixes
<1>2. m \in Nat \ {0} /\ n \in Nat \ {0} /\ W = n * m
  BY <1>1, Powers
<1>3. x \in 0 .. W - 1
  BY DEF AllPrefixes, Addresses
<1>4. Masked(p) = [addr |-> start, bits |-> p.bits]
  BY DEF Masked, AllPrefixes
<1>. HIDE DEF m, n, W
<1>5. x \in Nat
  BY <1>1, <1>3
<1>6. PICK q \in Nat : x = q * m + (x % m)
  BY <1>2, <1>5, Multiples
<1>7. x % m \in 0 .. m - 1
  BY <1>2, <1>5, Multiples
<1>8. q * m \in Nat
  BY <1>2
<1>9. start = q * m /\ start \in Nat /\ start <= x
  BY <1>5, <1>6, <1>7, <1>8
<1>. HIDE DEF start
<1>10. start % m = 0
  BY <1>2, <1>9, Multiples
<1>11. q <= n - 1
  <2>. SUFFICES ASSUME q >= n PROVE FALSE
    BY <1>2
  <2>1. q * m >= n * m
    BY <1>2
  <2>. QED  BY <1>1, <1>2, <1>3, <1>9, <2>1
<1>12. start + m <= W
  <2>1. (q + 1) * m <= n * m
    BY <1>2, <1>11
  <2>2. (q + 1) * m = q * m + m
    BY <1>2
  <2>. QED  BY <1>2, <1>9, <2>1, <2>2
<1>13. Masked(p) \in AllPrefixes
  BY <1>1, <1>3, <1>4, <1>9 DEF AllPrefixes, Addresses, W
<1>14. start - (start % m) = start
  BY <1>9, <1>10
<1>15. Masked(Masked(p)) = Masked(p)
  BY <1>4, <1>14 DEF Masked, m
<1>16. RangeStart(p) = start /\ RangeEnd(p) = start + m - 1
  BY <1>4 DEF RangeStart, RangeEnd, m
<1>17. Masked(p).bits = p.bits
  BY <1>4
<1>18. RangeStart(p) % m = 0
  BY <1>10, <1>16
<1>19. /\ RangeStart(p) \in Nat /\ RangeEnd(p) \in Nat /\ RangeEnd(p) = RangeStart(p) + m - 1
       /\ RangeStart(p) <= RangeEnd(p) /\ RangeEnd(p) <= W - 1
  BY <1>1, <1>2, <1>9, <1>12, <1>16
<1>. QED  BY <1>13, <1>15, <1>17, <1>18, <1>19 DEF m, W

\* The size of a piece is the greatest power of two that divides its start and fits.
LEMMA PieceFits ==
    ASSUME NEW start \in Nat, NEW end \in Nat, start <= end, end <= 2^Width - 1
    PROVE  \E k \in 0 .. Width :
             /\ PieceSize(start, end) = 2^k
             /\ start % 2^k = 0 /\ 2^k <= end - start + 1
             /\ \A j \in 0 .. Width : start % 2^j = 0 /\ 2^j <= end - start + 1 => j <= k
<1>. DEFINE n == end - start + 1
            A == {k \in 0 .. Width : start % 2^k = 0}
            B == {k \in 0 .. Width : 2^k <= n}
            b == Max(B)
<1>0. Width \in Nat /\ 0 \in 0 .. Width /\ n \in Nat \ {0} /\ 2^0 = 1
  BY Powers, PowerLaws
<1>1. B \subseteq 0 .. Width /\ 0 \in B
  BY <1>0
<1>2. A \subseteq 0 .. Width /\ 0 \in A
  <2>1. start % 1 = 0
    OBVIOUS
  <2>. QED  BY <1>0, <2>1
<1>3. b \in B /\ \A k \in B : k <= b
  <2>. HIDE DEF B
  <2>. QED  BY <1>1, Greatest
<1>4. LargestPower(n) = 2^b
  BY DEF LargestPower
<1>. HIDE DEF b
<1>5. PICK a \in A : Alignment(start) = 2^a /\ \A k \in A : k <= a
  <2>1. CASE start = 0
    <3>1. \A k \in 0 .. Width : 2^k \in Nat \ {0}
      BY Powers
    <3>2. 0 % 2^Width = 0
      BY <1>0, <3>1, Multiples
    <3>3. Width \in A
      BY <1>0, <2>1, <3>2
    <3>. QED  BY <1>0, <1>2, <2>1, <3>3 DEF Alignment
  <2>2. CASE start # 0
    <3>. DEFINE a == Max(A)
    <3>1. a \in A /\ \A k \in A : k <= a
      <4>. HIDE DEF A
      <4>. QED  BY <1>2, Greatest
    <3>2. Alignment(start) = 2^a
      BY <2>2 DEF Alignment
    <3>. HIDE DEF a, A
    <3>. QED  BY <3>1, <3>2
  <2>. QED  BY <2>1, <2>2
<1>6. a \in 0 .. Width /\ b \in 0 .. Width /\ start % 2^a = 0 /\ 2^b <= n
  BY <1>3
<1>7. 2^a \in Nat /\ 2^b \in Nat
  BY <1>6, Powers
<1>8. PieceSize(start, end) = IF 2^a <= 2^b THEN 2^a ELSE 2^b
  <2>. DEFINE S == {2^a, 2^b}
              least == IF 2^a <= 2^b THEN 2^a ELSE 2^b
  <2>1. PieceSize(start, end) = Min(S)
    BY <1>4, <1>5 DEF PieceSize
  <2>2. least \in S /\ \A y \in S : least <= y
    BY <1>7
  <2>3. \A x \in S : (\A y \in S : x <= y) => x = least
    BY <1>7
  <2>4. Min(S) \in S /\ \A y \in S : Min(S) <= y
    BY <2>2 DEF Min
  <2>. QED  BY <2>1, <2>3, <2>4
<1>9. CASE 2^a <= 2^b
  <2>1. PieceSize(start, end) = 2^a /\ 2^a <= n
    BY <1>0, <1>6, <1>7, <1>8, <1>9
  <2>2. \A j \in 0 .. Width : start % 2^j = 0 => j <= a
    BY <1>5
  <2>. QED  BY <1>6, <2>1, <2>2
<1>10. CASE ~(2^a <= 2^b)
  <2>1. PieceSize(start, end) = 2^b
    BY <1>8, <1>10
  <2>2. b <= a
    <3>1. 2^b <= 2^a
      BY <1>7, <1>10
    <3>. QED  BY <1>6, <3>1, Divides
  <2>3. start % 2^b = 0
    BY <1>6, <2>2, MultiplesOf
  <2>4. \A j \in 0 .. Width : 2^j <= n => j <= b
    BY <1>3
  <2>. QED  BY <1>6, <2>1, <2>3, <2>4
<1>. QED  BY <1>9, <1>10

\* A piece is the plain prefix of its addresses.
LEMMA PieceIsPlain ==
    ASSUME NEW start \in Nat, NEW k \in 0 .. Width, start % 2^k = 0, start <= 2^Width - 1,
           NEW p, p = [addr |-> start, bits |-> BitsFor(2^k)]
    PROVE  /\ p \in AllPrefixes /\ Masked(p) = p /\ SizeOf(p.bits) = 2^k
           /\ RangeStart(p) = start /\ RangeEnd(p) = start + 2^k - 1
<1>. DEFINE b == BitsFor(2^k)
<1>1. Width - k \in 0 .. Width /\ SizeOf(Width - k) = 2^k
  <2>1. Width - (Width - k) = k
    BY Powers
  <2>. QED  BY <2>1, Powers DEF SizeOf
<1>2. b \in 0 .. Width /\ SizeOf(b) = 2^k
  BY <1>1 DEF BitsFor
<1>. HIDE DEF b
<1>3. 2^k \in Nat /\ 2^Width \in Nat
  BY Powers
<1>4. start \in Addresses
  BY <1>3 DEF Addresses
<1>5. p.addr = start /\ p.bits = b
  BY DEF b
<1>6. p \in AllPrefixes
  BY <1>2, <1>4 DEF AllPrefixes, b
<1>7. start - (start % 2^k) = start
  OBVIOUS
<1>8. Masked(p) = p
  <2>1. Masked(p) = [p EXCEPT !.addr = start - (start % 2^k)]
    BY <1>2, <1>5 DEF Masked
  <2>. QED  BY <1>7, <2>1 DEF AllPrefixes
<1>. QED  BY <1>2, <1>5, <1>6, <1>8 DEF RangeStart, RangeEnd

\* The prefixes without host bits.
PlainPrefixes == {p \in AllPrefixes : p = Masked(p)}

\* Of two multiples the smaller one is smaller by the factor at least.
LEMMA Apart ==
    ASSUME NEW u \in Nat, NEW v \in Nat, NEW m \in Nat \ {0}, u * m < v * m
    PROVE  u * m + m <= v * m
<1>1. u < v
  <2>. SUFFICES ASSUME v <= u PROVE FALSE
    OBVIOUS
  <2>1. v * m <= u * m
    OBVIOUS
  <2>2. u * m \in Nat /\ v * m \in Nat
    OBVIOUS
  <2>. QED  BY <2>1, <2>2
<1>2. (u + 1) * m <= v * m
  BY <1>1
<1>3. (u + 1) * m = u * m + m
  OBVIOUS
<1>. QED  BY <1>2, <1>3

\* Prefixes that meet are nested.
LEMMA Nested ==
    ASSUME NEW p \in PlainPrefixes, NEW q \in PlainPrefixes, q.bits <= p.bits,
           NEW a \in Nat, Holds(p, a), Holds(q, a)
    PROVE  /\ RangeStart(q) <= RangeStart(p) /\ RangeEnd(p) <= RangeEnd(q)
           /\ SizeOf(p.bits) <= SizeOf(q.bits)
<1>. DEFINE m == SizeOf(p.bits)
            M == SizeOf(q.bits)
            x == RangeStart(p)
            y == RangeStart(q)
<1>1. p \in AllPrefixes /\ q \in AllPrefixes
  BY DEF PlainPrefixes
<1>2. /\ x \in Nat /\ x % m = 0 /\ RangeEnd(p) = x + m - 1
      /\ y \in Nat /\ y % M = 0 /\ RangeEnd(q) = y + M - 1
  BY <1>1, PrefixRange
<1>3. p.bits \in 0 .. Width /\ q.bits \in 0 .. Width /\ Width \in Nat
  BY <1>1, Powers DEF AllPrefixes
<1>4. m \in Nat \ {0} /\ M \in Nat \ {0}
  BY <1>3, Powers
<1>5. PICK d \in Nat \ {0} : M = d * m
  <2>1. Width - p.bits \in 0 .. Width /\ Width - q.bits \in 0 .. Width
        /\ Width - p.bits <= Width - q.bits
    BY <1>3
  <2>. QED  BY <2>1, Divides DEF SizeOf
<1>6. x <= a /\ a <= x + m - 1 /\ y <= a /\ a <= y + M - 1
  BY <1>2 DEF Holds
<1>. HIDE DEF m, M, x, y
<1>7. PICK u \in Nat : x = u * m
  <2>1. PICK u \in Nat : x = u * m + (x % m)
    BY <1>2, <1>4, Multiples
  <2>2. u * m \in Nat
    BY <1>4
  <2>. QED  BY <1>2, <2>1, <2>2
<1>8. PICK w \in Nat : y = w * M
  <2>1. PICK w \in Nat : y = w * M + (y % M)
    BY <1>2, <1>4, Multiples
  <2>2. w * M \in Nat
    BY <1>4
  <2>. QED  BY <1>2, <2>1, <2>2
<1>. DEFINE v == w * d
            z == v + d
<1>9. v \in Nat /\ z \in Nat /\ y = v * m /\ y + M = z * m
  <2>1. v \in Nat
    OBVIOUS
  <2>2. y = v * m
    BY <1>4, <1>5, <1>8
  <2>. HIDE DEF v
  <2>3. z * m = v * m + d * m
    BY <1>4, <2>1
  <2>. QED  BY <1>5, <2>1, <2>2, <2>3
<1>. HIDE DEF v, z
<1>10. y <= x
  <2>. SUFFICES ASSUME x < y PROVE FALSE
    BY <1>2
  <2>1. x + m <= y
    BY <1>4, <1>7, <1>9, Apart
  <2>. QED  BY <1>2, <1>4, <1>6, <2>1
<1>11. x + m <= y + M
  <2>1. x < y + M
    BY <1>2, <1>4, <1>6
  <2>2. u * m < z * m
    BY <1>7, <1>9, <2>1
  <2>3. u * m + m <= z * m
    BY <1>4, <1>9, <2>2, Apart
  <2>. QED  BY <1>7, <1>9, <2>3
<1>12. m <= M
  BY <1>4, <1>5
<1>13. x + m - 1 <= y + M - 1
  BY <1>2, <1>4, <1>11
<1>. QED  BY <1>2, <1>10, <1>12, <1>13 DEF m, M, x, y

\* What a prefix contains, in terms of ranges.
LEMMA ContainsRange ==
    ASSUME NEW p \in PlainPrefixes, NEW q \in PlainPrefixes
    PROVE  PrefixContainsPrefix(q, p)
             <=> RangeStart(q) <= RangeStart(p) /\ RangeEnd(p) <= RangeEnd(q)
<1>1. p \in AllPrefixes /\ q \in AllPrefixes
  BY DEF PlainPrefixes
<1>2. /\ RangeStart(p) \in Nat /\ RangeEnd(p) = RangeStart(p) + SizeOf(p.bits) - 1
      /\ RangeStart(q) \in Nat /\ RangeEnd(q) = RangeStart(q) + SizeOf(q.bits) - 1
      /\ RangeStart(p) <= RangeEnd(p) /\ RangeStart(q) <= RangeEnd(q)
      /\ RangeEnd(p) \in Nat /\ RangeEnd(q) \in Nat
  BY <1>1, PrefixRange
<1>3. p.bits \in 0 .. Width /\ q.bits \in 0 .. Width /\ Width \in Nat
  BY <1>1, Powers DEF AllPrefixes
<1>4. SizeOf(p.bits) \in Nat \ {0} /\ SizeOf(q.bits) \in Nat \ {0}
  BY <1>3, Powers
<1>5. Holds(p, RangeStart(p))
  BY <1>2 DEF Holds
<1>6. PrefixContainsPrefix(q, p) <=> q.bits <= p.bits /\ Holds(q, RangeStart(p))
  BY DEF PrefixContainsPrefix, RangeStart
<1>7. ASSUME PrefixContainsPrefix(q, p)
      PROVE  RangeStart(q) <= RangeStart(p) /\ RangeEnd(p) <= RangeEnd(q)
  BY <1>2, <1>5, <1>6, <1>7, Nested
<1>8. ASSUME RangeStart(q) <= RangeStart(p), RangeEnd(p) <= RangeEnd(q)
      PROVE  PrefixContainsPrefix(q, p)
  <2>1. Holds(q, RangeStart(p))
    BY <1>2, <1>8 DEF Holds
  <2>2. SizeOf(p.bits) <= SizeOf(q.bits)
    BY <1>2, <1>4, <1>8
  <2>3. Width - p.bits \in 0 .. Width /\ Width - q.bits \in 0 .. Width
    BY <1>3
  <2>4. Width - p.bits <= Width - q.bits
    BY <2>2, <2>3, Divides DEF SizeOf
  <2>. QED  BY <1>3, <1>6, <2>1, <2>4
<1>. QED  BY <1>7, <1>8

\* A plain prefix is its range.
LEMMA SameRange ==
    ASSUME NEW p \in PlainPrefixes, NEW q \in PlainPrefixes,
           RangeStart(p) = RangeStart(q), RangeEnd(p) = RangeEnd(q)
    PROVE  p = q
<1>1. p \in AllPrefixes /\ q \in AllPrefixes /\ p.addr = RangeStart(p) /\ q.addr = RangeStart(q)
  BY DEF PlainPrefixes, RangeStart
<1>2. RangeStart(p) \in Nat /\ RangeEnd(p) \in Nat
  BY <1>1, PrefixRange
<1>3. PrefixContainsPrefix(p, q) /\ PrefixContainsPrefix(q, p)
  BY <1>2, ContainsRange
<1>4. p.bits \in Int /\ q.bits \in Int
  BY <1>1, Powers DEF AllPrefixes
<1>5. p.bits = q.bits
  BY <1>3, <1>4 DEF PrefixContainsPrefix
<1>. QED  BY <1>1, <1>5 DEF AllPrefixes

\* The pieces come in order, none of them meets the next.
Ordered(pieces) ==
    \A i, j \in DOMAIN pieces : i < j => RangeEnd(pieces[i]) < RangeStart(pieces[j])

\* A plain prefix inside start .. end.
Within(q, start, end) == q \in PlainPrefixes /\ start <= RangeStart(q) /\ RangeEnd(q) <= end

\* Pieces that cover start .. next - 1, each the largest one inside start .. end.
Tiling(pieces, start, next, end) ==
    /\ pieces \in Seq(PlainPrefixes) /\ Ordered(pieces)
    /\ \A i \in DOMAIN pieces : start <= RangeStart(pieces[i]) /\ RangeEnd(pieces[i]) < next
    /\ \A a \in start .. next - 1 : \E i \in DOMAIN pieces : Holds(pieces[i], a)
    /\ \A i \in DOMAIN pieces : \A q :
         Within(q, start, end) /\ PrefixContainsPrefix(q, pieces[i]) => q = pieces[i]

\* One turn of appendNativeRangePrefixes keeps the tiling: its piece is as large as any that
\* begins there, and no prefix of the range reaches across the next address.
LEMMA AppendStep ==
    ASSUME NEW start \in Nat, NEW end \in Nat, end <= 2^Width - 1,
           NEW next \in Nat, start <= next, next <= end,
           NEW pieces, Tiling(pieces, start, next, end),
           \A q : Within(q, start, end) /\ Holds(q, next) => RangeStart(q) = next,
           NEW t, t = AppendPiece([next |-> next, pieces |-> pieces], end)
    PROVE  /\ t \in [next : Nat, pieces : Seq(AllPrefixes)]
           /\ next < t.next /\ t.next <= end + 1
           /\ Tiling(t.pieces, start, t.next, end)
           /\ \A q : Within(q, start, end) /\ Holds(q, t.next) => RangeStart(q) = t.next
<1>1. PICK k \in 0 .. Width :
        /\ PieceSize(next, end) = 2^k
        /\ next % 2^k = 0 /\ 2^k <= end - next + 1
        /\ \A j \in 0 .. Width : next % 2^j = 0 /\ 2^j <= end - next + 1 => j <= k
  BY PieceFits
<1>. DEFINE p == [addr |-> next, bits |-> BitsFor(2^k)]
            size == 2^k
            after == next + size
<1>2. size \in Nat \ {0} /\ 2^Width \in Nat /\ Width \in Nat
  BY Powers
<1>3. /\ p \in AllPrefixes /\ Masked(p) = p /\ SizeOf(p.bits) = size
      /\ RangeStart(p) = next /\ RangeEnd(p) = after - 1
  <2>1. next <= 2^Width - 1
    BY <1>2
  <2>. HIDE DEF p
  <2>2. p = [addr |-> next, bits |-> BitsFor(2^k)]
    BY DEF p
  <2>3. /\ p \in AllPrefixes /\ Masked(p) = p /\ SizeOf(p.bits) = 2^k
        /\ RangeStart(p) = next /\ RangeEnd(p) = next + 2^k - 1
    BY <1>1, <2>1, <2>2, PieceIsPlain
  <2>. QED  BY <1>2, <2>3
<1>4. t = [next |-> after, pieces |-> Append(pieces, p)]
  <2>1. ~(next > end)
    OBVIOUS
  <2>. QED  BY <1>1, <2>1 DEF AppendPiece
<1>5. after \in Nat /\ next < after /\ after <= end + 1 /\ size <= end - next + 1
  BY <1>1, <1>2
<1>6. p \in PlainPrefixes /\ p.bits \in 0 .. Width
  BY <1>3 DEF PlainPrefixes, AllPrefixes
<1>. HIDE DEF p, size, after
<1>7. ASSUME NEW q, Within(q, start, end), Holds(q, next)
      PROVE  SizeOf(q.bits) <= size /\ p.bits <= q.bits /\ RangeStart(q) = next
  <2>1. RangeStart(q) = next /\ q \in AllPrefixes /\ RangeEnd(q) <= end
    BY <1>7 DEF Within, PlainPrefixes
  <2>2. q.bits \in 0 .. Width /\ Width - q.bits \in 0 .. Width /\ Width - p.bits \in 0 .. Width
    BY <1>2, <1>6, <2>1 DEF AllPrefixes
  <2>. DEFINE j == Width - q.bits
  <2>3. SizeOf(q.bits) = 2^j /\ 2^j \in Nat
    BY <2>2, Powers DEF SizeOf
  <2>4. next % 2^j = 0 /\ next + 2^j - 1 <= end
    BY <2>1, <2>3, PrefixRange
  <2>5. 2^j <= end - next + 1
    BY <2>3, <2>4
  <2>6. j <= k
    BY <1>1, <2>2, <2>4, <2>5
  <2>7. 2^j <= 2^k
    BY <2>2, <2>6, Divides
  <2>8. Width - q.bits <= Width - p.bits
    <3>1. 2^j <= SizeOf(p.bits)
      BY <1>3, <2>7 DEF size
    <3>2. 2^(Width - q.bits) <= 2^(Width - p.bits)
      BY <3>1 DEF SizeOf
    <3>. QED  BY <2>2, <3>2, Divides
  <2>9. p.bits <= q.bits
    BY <1>2, <1>6, <2>2, <2>8
  <2>. QED  BY <2>1, <2>3, <2>7, <2>9 DEF size
<1>8. ASSUME NEW q, Within(q, start, end), PrefixContainsPrefix(q, p)
      PROVE  q = p
  <2>1. q \in PlainPrefixes /\ q \in AllPrefixes
    BY <1>8 DEF Within, PlainPrefixes
  <2>2. RangeStart(q) <= next /\ after - 1 <= RangeEnd(q)
    BY <1>3, <1>6, <1>8, <2>1, ContainsRange
  <2>3. /\ RangeStart(q) \in Nat /\ RangeEnd(q) = RangeStart(q) + SizeOf(q.bits) - 1
        /\ RangeEnd(q) \in Nat /\ SizeOf(q.bits) \in Nat
    BY <2>1, PrefixRange, Powers DEF AllPrefixes
  <2>4. Holds(q, next)
    BY <1>5, <2>2, <2>3 DEF Holds
  <2>5. RangeStart(q) = next /\ SizeOf(q.bits) <= size
    BY <1>7, <1>8, <2>4
  <2>6. RangeEnd(q) = after - 1
    <3>1. next + SizeOf(q.bits) - 1 <= next + size - 1
      BY <1>2, <2>3, <2>5
    <3>. QED  BY <1>2, <1>5, <2>2, <2>3, <2>5, <3>1 DEF after
  <2>. QED  BY <1>3, <1>6, <2>1, <2>5, <2>6, SameRange
<1>9. ASSUME NEW q, Within(q, start, end), Holds(q, after)
      PROVE  RangeStart(q) = after
  <2>1. q \in PlainPrefixes /\ q \in AllPrefixes
    BY <1>9 DEF Within, PlainPrefixes
  <2>2. /\ RangeStart(q) \in Nat /\ RangeEnd(q) \in Nat
        /\ RangeStart(q) <= after /\ after <= RangeEnd(q)
    BY <1>9, <2>1, PrefixRange DEF Holds
  <2>. SUFFICES ASSUME RangeStart(q) < after PROVE FALSE
    BY <1>5, <2>2
  <2>3. Holds(q, after - 1) /\ Holds(p, after - 1) /\ after - 1 \in Nat
    BY <1>3, <1>5, <2>2 DEF Holds
  <2>4. q.bits \in Int /\ p.bits \in Int
    BY <1>2, <1>6, <2>1 DEF AllPrefixes
  <2>5. CASE p.bits <= q.bits
    <3>1. RangeEnd(q) <= RangeEnd(p)
      BY <1>6, <2>1, <2>3, <2>5, Nested
    <3>. QED  BY <1>3, <1>5, <2>2, <3>1
  <2>6. CASE q.bits < p.bits
    <3>1. RangeStart(q) <= RangeStart(p) /\ RangeEnd(p) <= RangeEnd(q)
      BY <1>6, <2>1, <2>3, <2>4, <2>6, Nested
    <3>2. Holds(q, next)
      BY <1>3, <1>5, <2>2, <3>1 DEF Holds
    <3>3. p.bits <= q.bits
      BY <1>7, <1>9, <3>2
    <3>. QED  BY <2>4, <2>6, <3>3
  <2>. QED  BY <2>4, <2>5, <2>6
<1>10. Tiling(Append(pieces, p), start, after, end)
  <2>. DEFINE all == Append(pieces, p)
              n == Len(pieces)
  <2>1. pieces \in Seq(PlainPrefixes) /\ n \in Nat
    BY DEF Tiling
  <2>2. /\ all \in Seq(PlainPrefixes) /\ DOMAIN all = 1 .. n + 1 /\ DOMAIN pieces = 1 .. n
        /\ all[n + 1] = p /\ \A i \in 1 .. n : all[i] = pieces[i]
    BY <1>6, <2>1
  <2>3. \A i \in 1 .. n : /\ pieces[i] \in PlainPrefixes
                          /\ start <= RangeStart(pieces[i]) /\ RangeEnd(pieces[i]) < next
                          /\ RangeEnd(pieces[i]) \in Nat
    <3>1. \A i \in 1 .. n : pieces[i] \in PlainPrefixes
      BY <2>1, <2>2
    <3>. QED  BY <2>2, <3>1, PrefixRange DEF Tiling, PlainPrefixes
  <2>. HIDE DEF all, n
  <2>4. ASSUME NEW i \in DOMAIN all, NEW j \in DOMAIN all, i < j
        PROVE  RangeEnd(all[i]) < RangeStart(all[j])
    <3>1. CASE j \in 1 .. n
      <4>1. i \in 1 .. n
        BY <2>1, <2>2, <2>4, <3>1
      <4>. QED  BY <2>2, <2>4, <3>1, <4>1 DEF Tiling, Ordered
    <3>2. CASE j = n + 1
      <4>1. i \in 1 .. n
        BY <2>1, <2>2, <2>4, <3>2
      <4>. QED  BY <1>3, <2>2, <2>3, <3>2, <4>1
    <3>. QED  BY <2>1, <2>2, <3>1, <3>2
  <2>5. ASSUME NEW i \in DOMAIN all
        PROVE  start <= RangeStart(all[i]) /\ RangeEnd(all[i]) < after
    <3>1. CASE i \in 1 .. n
      BY <1>5, <2>2, <2>3, <3>1
    <3>2. CASE i = n + 1
      BY <1>3, <1>5, <2>2, <3>2
    <3>. QED  BY <2>1, <2>2, <3>1, <3>2
  <2>6. ASSUME NEW a \in start .. after - 1
        PROVE  \E i \in DOMAIN all : Holds(all[i], a)
    <3>1. CASE a \in start .. next - 1
      <4>1. PICK i \in DOMAIN pieces : Holds(pieces[i], a)
        BY <3>1 DEF Tiling
      <4>. QED  BY <2>1, <2>2, <4>1
    <3>2. CASE a \in next .. after - 1
      <4>1. Holds(p, a)
        BY <1>3, <3>2 DEF Holds
      <4>2. n + 1 \in DOMAIN all
        BY <2>1, <2>2
      <4>. QED  BY <2>2, <4>1, <4>2
    <3>. QED  BY <1>5, <3>1, <3>2
  <2>7. ASSUME NEW i \in DOMAIN all, NEW q, Within(q, start, end), PrefixContainsPrefix(q, all[i])
        PROVE  q = all[i]
    <3>1. CASE i \in 1 .. n
      BY <2>2, <2>7, <3>1 DEF Tiling
    <3>2. CASE i = n + 1
      BY <1>8, <2>2, <2>7, <3>2
    <3>. QED  BY <2>1, <2>2, <3>1, <3>2
  <2>8. Tiling(all, start, after, end)
    BY <2>2, <2>4, <2>5, <2>6, <2>7 DEF Tiling, Ordered
  <2>. QED  BY <2>8 DEF all
<1>11. Append(pieces, p) \in Seq(AllPrefixes)
  <2>1. pieces \in Seq(AllPrefixes)
    BY DEF Tiling, PlainPrefixes
  <2>. QED  BY <1>3, <2>1
<1>12. t.next = after /\ t.pieces = Append(pieces, p)
  BY <1>4
<1>13. t \in [next : Nat, pieces : Seq(AllPrefixes)]
  <2>. DEFINE all == Append(pieces, p)
  <2>1. t = [next |-> after, pieces |-> all] /\ all \in Seq(AllPrefixes)
    BY <1>4, <1>11
  <2>. HIDE DEF all
  <2>. QED  BY <1>5, <2>1
<1>. QED  BY <1>5, <1>9, <1>10, <1>12, <1>13

\* appendNativeRangePrefixes splits a range into the largest prefixes inside it.
LEMMA RangeSplit ==
    ASSUME NEW start \in Nat, NEW end \in Nat, start <= end, end <= 2^Width - 1
    PROVE  Tiling(RangePrefixes(start, end), start, end + 1, end)
<1>. DEFINE S == [next : Nat, pieces : Seq(AllPrefixes)]
            F == [s \in S |-> AppendPiece(s, end)]
            x == [next |-> start, pieces |-> << >>]
            n == end - start + 1
            Good(i, s) ==
              /\ start <= s.next /\ s.next <= end + 1
              /\ s.next = end + 1 \/ start + i <= s.next
              /\ Tiling(s.pieces, start, s.next, end)
              /\ \A q : Within(q, start, end) /\ Holds(q, s.next) => RangeStart(q) = s.next
            I == {t \in Nat \X S : Good(t[1], t[2])}
<1>1. n \in Nat
  OBVIOUS
<1>2. <<0, x>> \in I
  <2>1. x \in S
    OBVIOUS
  <2>2. Tiling(<< >>, start, start, end)
    BY DEF Tiling, Ordered
  <2>3. ASSUME NEW q, Within(q, start, end), Holds(q, start) PROVE RangeStart(q) = start
    <3>1. RangeStart(q) \in Nat /\ start <= RangeStart(q) /\ RangeStart(q) <= start
      BY <2>3, PrefixRange DEF Within, PlainPrefixes, Holds
    <3>. QED  BY <3>1
  <2>4. x.next = start /\ x.pieces = << >>
    OBVIOUS
  <2>. HIDE DEF x
  <2>5. Good(0, x)
    BY <2>2, <2>3, <2>4
  <2>. HIDE DEF Good
  <2>. QED  BY <2>1, <2>5
<1>3. ASSUME NEW i \in 0 .. n - 1, NEW s, <<i, s>> \in I
      PROVE  <<i + 1, F[s]>> \in I
  <2>1. s \in S /\ Good(i, s) /\ i \in Nat /\ i + 1 \in Nat
    <3>. HIDE DEF S, Good
    <3>. QED  BY <1>3
  <2>. DEFINE t == AppendPiece(s, end)
  <2>2. F[s] = t
    BY <2>1
  <2>3. s = [next |-> s.next, pieces |-> s.pieces] /\ s.next \in Nat
    BY <2>1
  <2>4. CASE s.next > end
    <3>1. t = s
      BY <2>4 DEF AppendPiece
    <3>2. Good(i + 1, s)
      BY <2>1, <2>3, <2>4
    <3>. HIDE DEF S, Good, F, t
    <3>. QED  BY <2>1, <2>2, <3>1, <3>2
  <2>5. CASE s.next <= end
    <3>1. t = AppendPiece([next |-> s.next, pieces |-> s.pieces], end)
      BY <2>3
    <3>. HIDE DEF t
    <3>2. /\ t \in S /\ s.next < t.next /\ t.next <= end + 1
          /\ Tiling(t.pieces, start, t.next, end)
          /\ \A q : Within(q, start, end) /\ Holds(q, t.next) => RangeStart(q) = t.next
      BY <2>1, <2>3, <2>5, <3>1, AppendStep
    <3>3. t.next \in Nat
      BY <3>2
    <3>4. Good(i + 1, t)
      BY <2>1, <2>3, <2>5, <3>2, <3>3
    <3>. HIDE DEF S, Good, F
    <3>. QED  BY <2>1, <2>2, <3>2, <3>4
  <2>6. s.next > end \/ s.next <= end
    BY <2>3
  <2>. HIDE DEF S, Good, F, I
  <2>. QED  BY <2>4, <2>5, <2>6
<1>. DEFINE r == Turns(F, x, n)
<1>4. <<n, r>> \in I
  <2>. HIDE DEF F, x, I, n
  <2>. QED  BY <1>1, <1>2, <1>3, Iteration
<1>5. RangePrefixes(start, end) = r.pieces
  BY DEF RangePrefixes
<1>. HIDE DEF r
<1>6. r \in S /\ Good(n, r)
  <2>. HIDE DEF S, Good
  <2>. QED  BY <1>4
<1>7. r.next = end + 1
  BY <1>6
<1>. QED  BY <1>5, <1>6, <1>7

\* The range r holds the address a.
InRange(r, a) == r.start <= a /\ a <= r.end

\* Excluded ranges in order with an address between any two.
Holes(holes) ==
    /\ holes \in Seq(Ranges)
    /\ \A i \in DOMAIN holes : holes[i].start <= holes[i].end
    /\ \A i, j \in DOMAIN holes : i < j => holes[i].end + 1 < holes[j].start

\* There is a first range among those that are left.
LEMMA FirstRange ==
    ASSUME NEW ranges, ranges \subseteq Ranges, ranges # {}
    PROVE  \E r \in ranges : \A q \in ranges \ {r} : Before(r, q)
<1>. DEFINE T == {r.start : r \in ranges}
<1>1. T \subseteq Nat /\ T # {}
  BY DEF Ranges
<1>2. PICK t \in T : \A u \in T : t <= u
  <2>. HIDE DEF T
  <2>. QED  BY <1>1, Least
<1>. DEFINE near == {r \in ranges : r.start = t}
            U == {r.end : r \in near}
<1>3. U \subseteq Nat /\ U # {}
  BY DEF Ranges
<1>4. PICK u \in U : \A v \in U : u <= v
  <2>. HIDE DEF U
  <2>. QED  BY <1>3, Least
<1>5. PICK r \in ranges : r.start = t /\ r.end = u
  OBVIOUS
<1>6. ASSUME NEW q \in ranges \ {r} PROVE Before(r, q)
  <2>1. q.start \in Nat /\ q.end \in Nat /\ r.start \in Nat /\ r.end \in Nat
    BY DEF Ranges
  <2>2. r.start <= q.start
    BY <1>2, <1>5
  <2>3. q.start = r.start => r.end <= q.end
    BY <1>4, <1>5
  <2>4. q.start = r.start /\ q.end = r.end => q = r
    BY DEF Ranges
  <2>. QED  BY <2>1, <2>2, <2>3, <2>4 DEF Before
<1>. QED  BY <1>6

\* What merging one more range has to give.
MergesTo(merged, current, more) ==
    /\ Holes(more) /\ more # << >>
    /\ more[Len(more)].start <= current.start
    /\ \A a \in Nat : (\E i \in DOMAIN more : InRange(more[i], a))
                        <=> \/ InRange(current, a)
                            \/ \E i \in DOMAIN merged : InRange(merged[i], a)
    /\ \A i \in DOMAIN more : \/ more[i].start = current.start
                              \/ \E j \in DOMAIN merged : more[i].start = merged[j].start

\* MergeInto keeps the holes apart and covers the range, when the ranges come by their start.
LEMMA MergeStep ==
    ASSUME NEW merged, Holes(merged), NEW current \in Ranges, current.start <= current.end,
           merged # << >> => merged[Len(merged)].start <= current.start,
           NEW more, more = MergeInto(merged, current)
    PROVE  MergesTo(merged, current, more)
<1>. USE DEF MergesTo
<1>. DEFINE n == Len(merged)
            last == merged[n]
<1>1. merged \in Seq(Ranges) /\ n \in Nat /\ DOMAIN merged = 1 .. n
  BY DEF Holes
<1>2. current.start \in Nat /\ current.end \in Nat
  BY DEF Ranges
<1>3. \A i \in 1 .. n : /\ merged[i] \in Ranges /\ merged[i].start \in Nat /\ merged[i].end \in Nat
                        /\ merged[i].start <= merged[i].end
  <2>1. \A i \in 1 .. n : merged[i] \in Ranges
    BY <1>1
  <2>. QED  BY <1>1, <2>1 DEF Holes, Ranges
<1>4. \A i, j \in 1 .. n : i < j => merged[i].end + 1 < merged[j].start
  BY <1>1 DEF Holes
<1>5. merged = << >> <=> n = 0
  BY <1>1
<1>6. Last(merged) = last /\ Len(merged) = n
  BY DEF Last
<1>9. merged # << >> => last.start <= current.start
  OBVIOUS
<1>. HIDE DEF n
<1>7. CASE merged = << >> \/ current.start > last.end + 1
  <2>1. more = Append(merged, current)
    BY <1>6, <1>7 DEF MergeInto
  <2>2. /\ more \in Seq(Ranges) /\ Len(more) = n + 1 /\ DOMAIN more = 1 .. n + 1
        /\ more[n + 1] = current /\ \A i \in 1 .. n : more[i] = merged[i]
    BY <1>1, <2>1
  <2>3. ASSUME NEW i \in 1 .. n PROVE merged[i].end + 1 < current.start
    <3>1. n \in 1 .. n /\ last.end + 1 < current.start
      BY <1>1, <1>2, <1>3, <1>5, <1>7
    <3>2. i = n \/ i < n
      BY <1>1
    <3>3. i < n => merged[i].end + 1 < last.start
      BY <1>4, <3>1
    <3>4. /\ last.start \in Nat /\ last.end \in Nat /\ last.start <= last.end
          /\ merged[i].end \in Nat
      BY <1>3, <3>1
    <3>5. CASE i < n
      <4>. DEFINE e == merged[i].end
                  x == last.start
                  y == last.end
                  z == current.start
      <4>1. /\ e \in Nat /\ x \in Nat /\ y \in Nat /\ z \in Nat
            /\ e + 1 < x /\ x <= y /\ y + 1 < z
        BY <1>2, <3>1, <3>3, <3>4, <3>5
      <4>. HIDE DEF e, x, y, z
      <4>2. e + 1 < z
        BY <4>1
      <4>. QED  BY <4>2 DEF e, z
    <3>6. CASE i = n
      BY <3>1, <3>6
    <3>. QED  BY <3>2, <3>5, <3>6
  <2>. HIDE DEF last
  <2>4. \A i \in 1 .. n + 1 : i \in 1 .. n \/ i = n + 1
    BY <1>1
  <2>5. ASSUME NEW i \in 1 .. n + 1, NEW j \in 1 .. n + 1, i < j
        PROVE  more[i].end + 1 < more[j].start
    <3>1. i \in 1 .. n
      BY <1>1, <2>5
    <3>2. CASE j \in 1 .. n
      BY <1>4, <2>2, <2>5, <3>1, <3>2
    <3>3. CASE j = n + 1
      BY <2>2, <2>3, <3>1, <3>3
    <3>. QED  BY <2>4, <3>2, <3>3
  <2>6. \A i \in 1 .. n + 1 : more[i].start <= more[i].end
    BY <1>3, <2>2, <2>4
  <2>7. Holes(more)
    BY <2>2, <2>5, <2>6 DEF Holes
  <2>8. more # << >> /\ more[Len(more)].start <= current.start /\ n + 1 \in 1 .. n + 1
    BY <1>1, <1>2, <2>2
  <2>9. \A i \in 1 .. n : i \in 1 .. n + 1
    BY <1>1
  <2>10. ASSUME NEW a \in Nat
         PROVE  (\E i \in DOMAIN more : InRange(more[i], a))
                  <=> \/ InRange(current, a)
                      \/ \E i \in DOMAIN merged : InRange(merged[i], a)
    BY <1>1, <2>2, <2>4, <2>8, <2>9
  <2>11. ASSUME NEW i \in DOMAIN more
         PROVE  \/ more[i].start = current.start
                \/ \E j \in DOMAIN merged : more[i].start = merged[j].start
    BY <1>1, <2>2, <2>4
  <2>. QED  BY <2>7, <2>8, <2>10, <2>11
<1>8. CASE ~(merged = << >> \/ current.start > last.end + 1)
  <2>1. /\ n \in 1 .. n /\ last \in Ranges /\ last.start \in Nat /\ last.end \in Nat
        /\ last.start <= last.end /\ last.start <= current.start /\ current.start <= last.end + 1
    BY <1>1, <1>2, <1>3, <1>5, <1>8, <1>9
  <2>2. CASE ~(current.end > last.end)
    <3>1. more = merged
      BY <1>6, <1>8, <2>2 DEF MergeInto
    <3>2. \A a \in Nat : InRange(current, a) => InRange(last, a)
      BY <1>2, <2>1, <2>2 DEF InRange
    <3>. QED  BY <1>1, <1>8, <2>1, <3>1, <3>2
  <2>3. CASE current.end > last.end
    <3>. DEFINE grown == [last EXCEPT !.end = current.end]
    <3>1. more = [merged EXCEPT ![n] = grown]
      BY <1>6, <1>8, <2>3 DEF MergeInto, last
    <3>2. grown \in Ranges /\ grown.start = last.start /\ grown.end = current.end
      BY <1>2, <2>1 DEF Ranges
    <3>. HIDE DEF grown
    <3>3. /\ more \in Seq(Ranges) /\ Len(more) = n /\ DOMAIN more = 1 .. n
          /\ more[n] = grown /\ \A i \in 1 .. n : i # n => more[i] = merged[i]
      <4>1. more \in [1 .. n -> Ranges]
        BY <1>1, <1>3, <2>1, <3>1, <3>2
      <4>2. more \in Seq(Ranges) /\ Len(more) = n /\ DOMAIN more = 1 .. n
        BY <1>1, <4>1
      <4>. QED  BY <1>1, <2>1, <3>1, <4>2
    <3>. HIDE DEF last
    <3>4. \A i \in 1 .. n : more[i].start = merged[i].start
      BY <3>2, <3>3 DEF last
    <3>5. ASSUME NEW i \in 1 .. n, NEW j \in 1 .. n, i < j
          PROVE  more[i].end + 1 < more[j].start
      <4>1. i # n
        BY <1>1, <3>5
      <4>. QED  BY <1>4, <3>3, <3>4, <3>5, <4>1
    <3>6. ASSUME NEW i \in 1 .. n PROVE more[i].start <= more[i].end
      <4>1. CASE i = n
        BY <1>2, <2>1, <2>3, <3>2, <3>3, <4>1
      <4>2. CASE i # n
        BY <1>3, <3>3, <4>2
      <4>. QED  BY <4>1, <4>2
    <3>7. Holes(more)
      BY <3>3, <3>5, <3>6 DEF Holes
    <3>8. more # << >> /\ more[Len(more)].start <= current.start
      BY <2>1, <3>2, <3>3
    <3>9. \A a \in Nat : InRange(grown, a) <=> InRange(last, a) \/ InRange(current, a)
      BY <1>2, <2>1, <2>3, <3>2 DEF InRange
    <3>10. ASSUME NEW a \in Nat
           PROVE  (\E i \in DOMAIN more : InRange(more[i], a))
                    <=> \/ InRange(current, a)
                        \/ \E i \in DOMAIN merged : InRange(merged[i], a)
      <4>1. \A i \in 1 .. n : i # n => (InRange(more[i], a) <=> InRange(merged[i], a))
        BY <3>3
      <4>2. InRange(more[n], a) <=> InRange(merged[n], a) \/ InRange(current, a)
        BY <3>3, <3>9 DEF last
      <4>. QED  BY <1>1, <2>1, <3>3, <4>1, <4>2
    <3>. QED  BY <1>1, <3>3, <3>4, <3>7, <3>8, <3>10
  <2>. QED  BY <2>2, <2>3
<1>. QED  BY <1>7, <1>8

\* The ranges of the excepts.
RangesOf(excepts) == {[start |-> RangeStart(p), end |-> RangeEnd(p)] : p \in ToSet(excepts)}

\* They are finitely many and cover what the excepts cover.
LEMMA ExceptRanges ==
    ASSUME NEW excepts \in Seq(AllPrefixes)
    PROVE  /\ RangesOf(excepts) \subseteq Ranges /\ IsFiniteSet(RangesOf(excepts))
           /\ \A r \in RangesOf(excepts) : r.start <= r.end
           /\ \A a : (\E r \in RangesOf(excepts) : InRange(r, a))
                       <=> \E i \in DOMAIN excepts : Holds(excepts[i], a)
           /\ \A r \in RangesOf(excepts) :
                \E i \in DOMAIN excepts : r.start = RangeStart(excepts[i])
<1>. DEFINE n == Len(excepts)
            f == [i \in 1 .. n |-> [start |-> RangeStart(excepts[i]), end |-> RangeEnd(excepts[i])]]
            R == RangesOf(excepts)
<1>1. n \in Nat /\ DOMAIN excepts = 1 .. n /\ \A i \in 1 .. n : excepts[i] \in AllPrefixes
  OBVIOUS
<1>2. R = {f[i] : i \in 1 .. n}
  BY <1>1 DEF RangesOf, ToSet
<1>3. IsFiniteSet(R)
  <2>1. IsFiniteSet(1 .. n)
    BY <1>1, FS_Interval
  <2>. HIDE DEF R
  <2>2. f \in Surjection(1 .. n, R)
    BY <1>2 DEF Surjection
  <2>. HIDE DEF f
  <2>. QED  BY <2>1, <2>2, FS_Surjection
<1>. HIDE DEF R, n
<1>4. \A i \in 1 .. n : /\ f[i] \in Ranges /\ f[i].start <= f[i].end
                        /\ f[i].start = RangeStart(excepts[i])
                        /\ \A a : InRange(f[i], a) <=> Holds(excepts[i], a)
  BY <1>1, PrefixRange DEF Ranges, InRange, Holds
<1>. HIDE DEF f
<1>5. R \subseteq Ranges /\ \A r \in R : r.start <= r.end
  BY <1>2, <1>4
<1>6. \A a : (\E r \in R : InRange(r, a)) <=> \E i \in DOMAIN excepts : Holds(excepts[i], a)
  BY <1>1, <1>2, <1>4
<1>7. \A r \in R : \E i \in DOMAIN excepts : r.start = RangeStart(excepts[i])
  BY <1>1, <1>2, <1>4
<1>. QED  BY <1>3, <1>5, <1>6, <1>7 DEF R

\* The merged ranges are holes that cover what the excepts cover.
LEMMA HolesOfExcepts ==
    ASSUME NEW excepts \in Seq(AllPrefixes), NEW holes, holes = Merged(excepts)
    PROVE  /\ Holes(holes)
           /\ \A a \in Nat : (\E i \in DOMAIN holes : InRange(holes[i], a))
                               <=> \E i \in DOMAIN excepts : Holds(excepts[i], a)
           /\ \A i \in DOMAIN holes : \E j \in DOMAIN excepts :
                holes[i].start = RangeStart(excepts[j])
<1>. DEFINE R == RangesOf(excepts)
            S == [left : SUBSET R, merged : Seq(Ranges)]
            First(s) == CHOOSE r \in s.left : \A q \in s.left \ {r} : Before(r, q)
            F == [s \in S |-> [left |-> s.left \ {First(s)},
                               merged |-> MergeInto(s.merged, First(s))]]
            x == [left |-> R, merged |-> << >>]
            n == Cardinality(R)
            Good(i, s) ==
              /\ Cardinality(s.left) = n - i /\ Holes(s.merged)
              /\ s.merged # << >> => \A r \in s.left : s.merged[Len(s.merged)].start <= r.start
              /\ \A a \in Nat : (\E j \in DOMAIN s.merged : InRange(s.merged[j], a))
                                  <=> \E r \in R \ s.left : InRange(r, a)
              /\ \A j \in DOMAIN s.merged : \E r \in R : s.merged[j].start = r.start
            I == {t \in Nat \X S : Good(t[1], t[2])}
<1>1. R \subseteq Ranges /\ IsFiniteSet(R) /\ \A r \in R : r.start <= r.end
  BY ExceptRanges
<1>2. Merged(excepts) = Turns(F, x, n).merged
  BY DEF Merged, RangesOf
<1>. HIDE DEF R
<1>3. n \in Nat
  BY <1>1, FS_CardinalityType
<1>4. <<0, x>> \in I
  <2>1. x \in S /\ x.left = R /\ x.merged = << >>
    OBVIOUS
  <2>2. Holes(<< >>)
    BY DEF Holes
  <2>. HIDE DEF x
  <2>3. Good(0, x)
    BY <1>3, <2>1, <2>2
  <2>. HIDE DEF Good, S
  <2>. QED  BY <2>1, <2>3
<1>5. ASSUME NEW i \in 0 .. n - 1, NEW s, <<i, s>> \in I
      PROVE  <<i + 1, F[s]>> \in I
  <2>1. s \in S /\ Good(i, s) /\ i \in Nat /\ i + 1 \in Nat
    <3>. HIDE DEF S, Good, n
    <3>. QED  BY <1>5
  <2>. DEFINE r == First(s)
              t == [left |-> s.left \ {r}, merged |-> MergeInto(s.merged, r)]
              m == s.merged
              more == MergeInto(m, r)
  <2>2. F[s] = t
    BY <2>1
  <2>3. s.left \subseteq R /\ s.merged \in Seq(Ranges)
    BY <2>1
  <2>4. IsFiniteSet(s.left)
    BY <1>1, <2>3, FS_Subset
  <2>5. s.left # {}
    <3>1. Cardinality(s.left) # 0
      BY <1>3, <2>1
    <3>. QED  BY <3>1, FS_EmptySet
  <2>6. r \in s.left /\ \A q \in s.left \ {r} : Before(r, q)
    <3>1. s.left \subseteq Ranges
      BY <1>1, <2>3
    <3>2. \E y \in s.left : \A q \in s.left \ {y} : Before(y, q)
      BY <2>5, <3>1, FirstRange
    <3>. QED  BY <3>2
  <2>. HIDE DEF r
  <2>7. r \in R /\ r \in Ranges /\ r.start <= r.end
    BY <1>1, <2>3, <2>6
  <2>8. \A q \in s.left \ {r} : r.start <= q.start
    <3>1. \A q \in s.left : q.start \in Nat
      BY <1>1, <2>3 DEF Ranges
    <3>. QED  BY <2>6, <3>1 DEF Before
  <2>9. Holes(m) /\ (m # << >> => m[Len(m)].start <= r.start)
    BY <2>1, <2>6
  <2>10. /\ Holes(more) /\ more # << >> /\ more[Len(more)].start <= r.start
         /\ \A a \in Nat : (\E j \in DOMAIN more : InRange(more[j], a))
                             <=> \/ InRange(r, a)
                                 \/ \E j \in DOMAIN m : InRange(m[j], a)
         /\ \A j \in DOMAIN more : \/ more[j].start = r.start
                                   \/ \E k \in DOMAIN m : more[j].start = m[k].start
    <3>. HIDE DEF m, more
    <3>1. more = MergeInto(m, r)
      BY DEF more
    <3>2. MergesTo(m, r, more)
      BY <2>7, <2>9, <3>1, MergeStep
    <3>. QED  BY <3>2 DEF MergesTo
  <2>11. t.left = s.left \ {r} /\ t.merged = more
    OBVIOUS
  <2>12. t \in S
    <3>1. more \in Seq(Ranges)
      BY <2>10 DEF Holes
    <3>. HIDE DEF more
    <3>2. t = [left |-> s.left \ {r}, merged |-> more]
      BY DEF more
    <3>. HIDE DEF t
    <3>. QED  BY <2>3, <3>1, <3>2
  <2>13. Cardinality(t.left) = n - (i + 1)
    <3>1. Cardinality(s.left \ {r}) = Cardinality(s.left) - 1
      BY <2>4, <2>6, FS_RemoveElement
    <3>2. Cardinality(s.left) = n - i
      BY <2>1
    <3>. QED  BY <1>3, <2>1, <2>11, <3>1, <3>2
  <2>14. \A q \in t.left : more[Len(more)].start <= q.start
    <3>. HIDE DEF more, t
    <3>1. more[Len(more)].start \in Nat
      <4>1. more \in Seq(Ranges) /\ more # << >>
        BY <2>10 DEF Holes
      <4>2. Len(more) \in 1 .. Len(more)
        BY <4>1
      <4>3. more[Len(more)] \in Ranges
        BY <4>1, <4>2
      <4>. QED  BY <4>3 DEF Ranges
    <3>2. \A q \in t.left : q.start \in Nat /\ r.start <= q.start /\ r.start \in Nat
      BY <1>1, <2>3, <2>7, <2>8, <2>11 DEF Ranges
    <3>. QED  BY <2>10, <3>1, <3>2
  <2>15. ASSUME NEW a \in Nat
         PROVE  (\E j \in DOMAIN more : InRange(more[j], a))
                  <=> \E q \in R \ t.left : InRange(q, a)
    <3>1. (\E j \in DOMAIN more : InRange(more[j], a))
            <=> InRange(r, a) \/ \E j \in DOMAIN m : InRange(m[j], a)
      BY <2>10
    <3>2. (\E j \in DOMAIN m : InRange(m[j], a)) <=> \E q \in R \ s.left : InRange(q, a)
      BY <2>1
    <3>3. R \ t.left = (R \ s.left) \cup {r}
      BY <2>6, <2>7, <2>11
    <3>. QED  BY <3>1, <3>2, <3>3
  <2>16. \A j \in DOMAIN more : \E q \in R : more[j].start = q.start
    <3>1. \A k \in DOMAIN m : \E q \in R : m[k].start = q.start
      BY <2>1
    <3>. HIDE DEF more, m
    <3>. QED  BY <2>7, <2>10, <3>1
  <2>. HIDE DEF t, more
  <2>17. Good(i + 1, t)
    BY <2>10, <2>11, <2>13, <2>14, <2>15, <2>16
  <2>. HIDE DEF Good, S, F
  <2>. QED  BY <2>1, <2>2, <2>12, <2>17
<1>. DEFINE e == Turns(F, x, n)
<1>6. <<n, e>> \in I
  <2>. HIDE DEF F, x, I, n
  <2>. QED  BY <1>3, <1>4, <1>5, Iteration
<1>7. holes = e.merged
  BY <1>2
<1>. HIDE DEF e
<1>8. e \in S /\ Good(n, e)
  <2>. HIDE DEF S, Good
  <2>. QED  BY <1>6
<1>9. e.left = {}
  <2>1. Cardinality(e.left) = 0
    BY <1>3, <1>8
  <2>2. IsFiniteSet(e.left)
    BY <1>1, <1>8, FS_Subset
  <2>. QED  BY <2>1, <2>2, FS_EmptySet
<1>10. \A a \in Nat : (\E j \in DOMAIN holes : InRange(holes[j], a)) <=> \E r \in R : InRange(r, a)
  BY <1>7, <1>8, <1>9
<1>11. \A j \in DOMAIN holes : \E r \in R : holes[j].start = r.start
  BY <1>7, <1>8
<1>12. Holes(holes)
  BY <1>7, <1>8
<1>. HIDE DEF Good, S, I, F
<1>. QED  BY <1>10, <1>11, <1>12, ExceptRanges DEF R

\* A plain prefix of free addresses.
Inside(q, free) == q \in PlainPrefixes /\ RangeStart(q) .. RangeEnd(q) \subseteq free

\* Pieces for the free addresses below the cursor, each the largest one inside them.
Swept(pieces, free, cursor) ==
    /\ pieces \in Seq(PlainPrefixes) /\ Ordered(pieces)
    /\ \A i \in DOMAIN pieces : Inside(pieces[i], free) /\ RangeEnd(pieces[i]) < cursor
    /\ \A a \in free : a < cursor => \E i \in DOMAIN pieces : Holds(pieces[i], a)
    /\ \A i \in DOMAIN pieces : \A q :
         Inside(q, free) /\ PrefixContainsPrefix(q, pieces[i]) => q = pieces[i]

\* The range of a plain prefix.
LEMMA PlainRange ==
    ASSUME NEW p \in PlainPrefixes
    PROVE  /\ RangeStart(p) \in Nat /\ RangeEnd(p) \in Nat
           /\ RangeStart(p) <= RangeEnd(p) /\ RangeEnd(p) <= 2^Width - 1
BY PrefixRange DEF PlainPrefixes

\* A hole that touches the cursor adds no piece.
LEMMA SweepNothing ==
    ASSUME NEW free, free \subseteq Nat, NEW cursor \in Nat, NEW c \in Nat, cursor <= c,
           NEW pieces, Swept(pieces, free, cursor), \A a \in free : a < c => a < cursor
    PROVE  Swept(pieces, free, c)
<1>1. \A i \in DOMAIN pieces : RangeEnd(pieces[i]) \in Nat
  <2>1. \A i \in DOMAIN pieces : pieces[i] \in PlainPrefixes
    BY DEF Swept, Inside
  <2>. QED  BY <2>1, PlainRange
<1>. QED  BY <1>1 DEF Swept

\* The pieces of a gap, appended, sweep it: a larger prefix would reach into a hole.
LEMMA SweepGap ==
    ASSUME NEW free, free \subseteq Nat, NEW cursor \in Nat, NEW end \in Nat, NEW c \in Nat,
           cursor <= end, end <= 2^Width - 1, end < c,
           cursor .. end \subseteq free, cursor - 1 \notin free, end + 1 \notin free,
           \A a \in free : a < c => a <= end,
           NEW pieces, Swept(pieces, free, cursor),
           NEW more, more = RangePrefixes(cursor, end)
    PROVE  Swept(pieces \o more, free, c)
<1>1. Tiling(more, cursor, end + 1, end)
  BY RangeSplit
<1>. DEFINE all == pieces \o more
            m == Len(pieces)
            n == Len(more)
<1>2. pieces \in Seq(PlainPrefixes) /\ more \in Seq(PlainPrefixes)
  BY <1>1 DEF Swept, Tiling
<1>3. /\ m \in Nat /\ n \in Nat /\ DOMAIN pieces = 1 .. m /\ DOMAIN more = 1 .. n
      /\ all \in Seq(PlainPrefixes) /\ DOMAIN all = 1 .. m + n
      /\ \A i \in 1 .. m : all[i] = pieces[i]
      /\ \A i \in m + 1 .. m + n : all[i] = more[i - m]
  BY <1>2
<1>. HIDE DEF all, m, n
<1>4. \A i \in 1 .. m + n : i \in 1 .. m \/ (i \in m + 1 .. m + n /\ i - m \in 1 .. n)
  BY <1>3
<1>5. \A i \in 1 .. m : /\ pieces[i] \in PlainPrefixes /\ RangeStart(pieces[i]) \in Nat
                        /\ RangeEnd(pieces[i]) \in Nat /\ RangeEnd(pieces[i]) < cursor
                        /\ RangeStart(pieces[i]) <= RangeEnd(pieces[i])
  <2>1. \A i \in 1 .. m : pieces[i] \in PlainPrefixes /\ RangeEnd(pieces[i]) < cursor
    BY <1>3 DEF Swept, Inside
  <2>. QED  BY <2>1, PlainRange
<1>6. \A i \in 1 .. n : /\ more[i] \in PlainPrefixes /\ RangeStart(more[i]) \in Nat
                        /\ RangeEnd(more[i]) \in Nat /\ cursor <= RangeStart(more[i])
                        /\ RangeStart(more[i]) <= RangeEnd(more[i]) /\ RangeEnd(more[i]) <= end
  <2>1. \A i \in 1 .. n : /\ more[i] \in PlainPrefixes /\ cursor <= RangeStart(more[i])
                          /\ RangeEnd(more[i]) < end + 1
    <3>1. \A i \in 1 .. n : more[i] \in PlainPrefixes
      BY <1>2, <1>3
    <3>. QED  BY <1>1, <1>3, <3>1 DEF Tiling
  <2>. QED  BY <2>1, PlainRange
<1>7. ASSUME NEW i \in 1 .. m + n, NEW j \in 1 .. m + n, i < j
      PROVE  RangeEnd(all[i]) < RangeStart(all[j])
  <2>1. CASE j \in 1 .. m
    <3>1. i \in 1 .. m
      BY <1>3, <1>7, <2>1
    <3>. QED  BY <1>3, <1>7, <2>1, <3>1 DEF Swept, Ordered
  <2>2. CASE j \in m + 1 .. m + n
    <3>1. j - m \in 1 .. n /\ all[j] = more[j - m]
      BY <1>3, <2>2
    <3>2. CASE i \in 1 .. m
      <4>1. /\ all[i] = pieces[i]
            /\ RangeEnd(pieces[i]) \in Nat /\ RangeEnd(pieces[i]) < cursor
        BY <1>3, <1>5, <3>2
      <4>2. RangeStart(more[j - m]) \in Nat /\ cursor <= RangeStart(more[j - m])
        BY <1>6, <3>1
      <4>. QED  BY <3>1, <4>1, <4>2
    <3>3. CASE i \in m + 1 .. m + n
      <4>1. i - m \in 1 .. n /\ i - m < j - m
        <5>1. m \in Nat /\ n \in Nat /\ i \in Int /\ j \in Int
          BY <1>3
        <5>. QED  BY <1>7, <3>3, <5>1
      <4>2. all[i] = more[i - m]
        BY <1>3, <3>3
      <4>. QED  BY <1>1, <1>3, <3>1, <4>1, <4>2 DEF Tiling, Ordered
    <3>. QED  BY <1>4, <3>2, <3>3
  <2>. QED  BY <1>4, <2>1, <2>2
<1>8. ASSUME NEW i \in 1 .. m + n
      PROVE  Inside(all[i], free) /\ RangeEnd(all[i]) < c
  <2>1. CASE i \in 1 .. m
    <3>1. Inside(pieces[i], free)
      BY <1>3, <2>1 DEF Swept
    <3>. QED  BY <1>3, <1>5, <2>1, <3>1
  <2>2. CASE i \in m + 1 .. m + n /\ i - m \in 1 .. n
    <3>1. all[i] = more[i - m]
      BY <1>3, <2>2
    <3>. DEFINE p == more[i - m]
    <3>2. /\ p \in PlainPrefixes /\ RangeStart(p) \in Nat /\ RangeEnd(p) \in Nat
          /\ cursor <= RangeStart(p) /\ RangeEnd(p) <= end
      BY <1>6, <2>2
    <3>. HIDE DEF p
    <3>3. RangeStart(p) .. RangeEnd(p) \subseteq cursor .. end
      BY <3>2
    <3>4. Inside(p, free) /\ RangeEnd(p) < c
      BY <3>2, <3>3 DEF Inside
    <3>. QED  BY <3>1, <3>4 DEF p
  <2>. QED  BY <1>4, <2>1, <2>2
<1>9. ASSUME NEW a \in free, a < c
      PROVE  \E i \in 1 .. m + n : Holds(all[i], a)
  <2>1. a \in Nat /\ a <= end
    BY <1>9
  <2>2. CASE a < cursor
    <3>1. PICK i \in 1 .. m : Holds(pieces[i], a)
      BY <1>3, <2>2 DEF Swept
    <3>2. i \in 1 .. m + n
      BY <1>3
    <3>. QED  BY <1>3, <3>1, <3>2
  <2>3. CASE cursor <= a
    <3>1. a \in cursor .. (end + 1) - 1
      BY <2>1, <2>3
    <3>2. PICK i \in 1 .. n : Holds(more[i], a)
      BY <1>1, <1>3, <3>1 DEF Tiling
    <3>3. m + i \in m + 1 .. m + n /\ m + i \in 1 .. m + n /\ (m + i) - m = i
      BY <1>3
    <3>4. all[m + i] = more[i]
      BY <1>3, <3>3
    <3>. QED  BY <3>2, <3>3, <3>4
  <2>. QED  BY <2>1, <2>2, <2>3
<1>10. ASSUME NEW i \in 1 .. m + n, NEW q, Inside(q, free), PrefixContainsPrefix(q, all[i])
       PROVE  q = all[i]
  <2>1. CASE i \in 1 .. m
    BY <1>3, <1>10, <2>1 DEF Swept
  <2>2. CASE i \in m + 1 .. m + n /\ i - m \in 1 .. n
    <3>. DEFINE p == more[i - m]
    <3>1. all[i] = p
      BY <1>3, <2>2
    <3>2. /\ p \in PlainPrefixes /\ RangeStart(p) \in Nat /\ RangeEnd(p) \in Nat
          /\ cursor <= RangeStart(p) /\ RangeStart(p) <= RangeEnd(p) /\ RangeEnd(p) <= end
      BY <1>6, <2>2
    <3>3. q \in PlainPrefixes /\ RangeStart(q) \in Nat /\ RangeEnd(q) \in Nat
      BY <1>10, PlainRange DEF Inside
    <3>4. RangeStart(q) <= RangeStart(p) /\ RangeEnd(p) <= RangeEnd(q)
      BY <1>10, <3>1, <3>2, <3>3, ContainsRange
    <3>. HIDE DEF p
    <3>5. cursor <= RangeStart(q)
      <4>. SUFFICES ASSUME RangeStart(q) < cursor PROVE FALSE
        BY <3>3
      <4>1. cursor - 1 \in RangeStart(q) .. RangeEnd(q)
        BY <3>2, <3>3, <3>4
      <4>. QED  BY <1>10, <4>1 DEF Inside
    <3>6. RangeEnd(q) <= end
      <4>. SUFFICES ASSUME RangeEnd(q) > end PROVE FALSE
        BY <3>3
      <4>1. end + 1 \in RangeStart(q) .. RangeEnd(q)
        BY <3>2, <3>3, <3>4
      <4>. QED  BY <1>10, <4>1 DEF Inside
    <3>7. Within(q, cursor, end)
      BY <3>3, <3>5, <3>6 DEF Within
    <3>8. PrefixContainsPrefix(q, p)
      BY <1>10, <3>1
    <3>9. q = p
      BY <1>1, <1>3, <2>2, <3>7, <3>8 DEF Tiling, p
    <3>. QED  BY <3>1, <3>9
  <2>. QED  BY <1>4, <2>1, <2>2
<1>11. Swept(all, free, c)
  BY <1>3, <1>7, <1>8, <1>9, <1>10 DEF Swept, Ordered
<1>. QED  BY <1>11 DEF all

\* Gaps sweeps all of the base.
LEMMA GapsSwept ==
    ASSUME NEW base \in PlainPrefixes, NEW holes, Holes(holes),
           \A i \in DOMAIN holes : RangeStart(base) <= holes[i].start
                                   /\ holes[i].start <= RangeEnd(base),
           NEW free,
           free = {a \in Addresses : /\ Holds(base, a)
                                     /\ \A i \in DOMAIN holes : ~InRange(holes[i], a)}
    PROVE  \E c \in Nat : Swept(Gaps(base, holes), free, c) /\ \A a \in free : a < c
<1>. DEFINE lo == RangeStart(base)
            hi == RangeEnd(base)
            n == Len(holes)
            S == [passed : Nat, cursor : Nat, pieces : Seq(AllPrefixes)]
            F == [s \in S |->
                    LET hole == holes[s.passed + 1]
                    IN  [passed |-> s.passed + 1,
                         cursor |-> hole.end + 1,
                         pieces |-> IF s.cursor < hole.start
                                    THEN s.pieces \o RangePrefixes(s.cursor, hole.start - 1)
                                    ELSE s.pieces]]
            x == [passed |-> 0, cursor |-> lo, pieces |-> << >>]
            At(i) == IF i = 0 THEN lo ELSE holes[i].end + 1
            Good(i, s) == s.passed = i /\ s.cursor = At(i) /\ Swept(s.pieces, free, s.cursor)
            I == {t \in Nat \X S : Good(t[1], t[2])}
            e == Turns(F, x, n)
<1>1. lo \in Nat /\ hi \in Nat /\ lo <= hi /\ hi <= 2^Width - 1 /\ 2^Width \in Nat
  BY PlainRange, Powers
<1>2. n \in Nat /\ DOMAIN holes = 1 .. n /\ holes \in Seq(Ranges)
  BY DEF Holes
<1>3. Gaps(base, holes) = IF e.cursor <= hi THEN e.pieces \o RangePrefixes(e.cursor, hi)
                          ELSE e.pieces
  BY DEF Gaps
<1>4. \A i \in 1 .. n : /\ holes[i].start \in Nat /\ holes[i].end \in Nat
                        /\ holes[i].start <= holes[i].end
                        /\ lo <= holes[i].start /\ holes[i].start <= hi
  <2>1. \A i \in 1 .. n : holes[i] \in Ranges
    BY <1>2
  <2>. QED  BY <1>2, <2>1 DEF Holes, Ranges
<1>5. \A i, j \in 1 .. n : i < j => holes[i].end + 1 < holes[j].start
  BY <1>2 DEF Holes
<1>. HIDE DEF lo, hi, n
<1>6. free \subseteq Nat
      /\ \A a \in Nat : a \in free <=> /\ lo <= a /\ a <= hi
                                       /\ \A i \in 1 .. n : ~InRange(holes[i], a)
  <2>1. \A a : Holds(base, a) <=> lo <= a /\ a <= hi
    BY DEF Holds, lo, hi
  <2>2. Addresses \subseteq Nat /\ \A a \in Nat : lo <= a /\ a <= hi => a \in Addresses
    BY <1>1 DEF Addresses
  <2>. QED  BY <1>2, <2>1, <2>2
<1>7. ASSUME NEW i \in 0 .. n
      PROVE  /\ At(i) \in Nat /\ lo <= At(i) /\ At(i) - 1 \notin free
             /\ \A j \in 1 .. i : holes[j].end < At(i)
             /\ \A j \in i + 1 .. n : At(i) <= holes[j].start
  <2>1. CASE i = 0
    <3>1. lo - 1 \notin free
      BY <1>1, <1>6
    <3>2. \A j \in 1 .. i : FALSE
      BY <2>1
    <3>3. \A j \in i + 1 .. n : j \in 1 .. n
      BY <1>2, <2>1
    <3>. QED  BY <1>1, <1>4, <2>1, <3>1, <3>2, <3>3
  <2>2. CASE i # 0
    <3>1. i \in 1 .. n
      BY <1>2, <2>2
    <3>2. /\ At(i) = holes[i].end + 1 /\ holes[i].end \in Nat /\ holes[i].start \in Nat
          /\ holes[i].start <= holes[i].end /\ lo <= holes[i].start
      BY <1>4, <2>2, <3>1
    <3>. HIDE DEF At
    <3>3. At(i) \in Nat /\ lo <= At(i) /\ At(i) - 1 = holes[i].end
      BY <1>1, <3>2
    <3>4. holes[i].end \notin free
      BY <1>6, <3>1, <3>2 DEF InRange
    <3>5. ASSUME NEW j \in 1 .. i PROVE holes[j].end < At(i)
      <4>1. j \in 1 .. n
        BY <1>2, <3>1
      <4>2. CASE j = i
        BY <3>2, <4>2
      <4>3. CASE j < i
        <5>1. holes[j].end + 1 < holes[i].start /\ holes[j].end \in Nat
          BY <1>4, <1>5, <3>1, <4>1, <4>3
        <5>. QED  BY <3>2, <5>1
      <4>. QED  BY <3>1, <4>2, <4>3
    <3>6. ASSUME NEW j \in i + 1 .. n PROVE At(i) <= holes[j].start
      <4>1. j \in 1 .. n /\ i < j
        BY <1>2, <3>1
      <4>2. holes[i].end + 1 < holes[j].start /\ holes[j].start \in Nat
        BY <1>4, <1>5, <3>1, <4>1
      <4>. QED  BY <3>2, <4>2
    <3>. QED  BY <3>3, <3>4, <3>5, <3>6
  <2>. QED  BY <2>1, <2>2
<1>8. <<0, x>> \in I
  <2>1. x \in S /\ x.passed = 0 /\ x.cursor = lo /\ x.pieces = << >>
    BY <1>1
  <2>2. \A a \in free : ~(a < lo)
    BY <1>1, <1>6
  <2>3. Swept(<< >>, free, lo)
    BY <2>2 DEF Swept, Ordered
  <2>. HIDE DEF x
  <2>4. Good(0, x)
    BY <2>1, <2>3
  <2>. HIDE DEF Good, S
  <2>. QED  BY <2>1, <2>4
<1>9. ASSUME NEW i \in 0 .. n - 1, NEW s, <<i, s>> \in I
      PROVE  <<i + 1, F[s]>> \in I
  <2>1. s \in S /\ Good(i, s) /\ i \in Nat /\ i + 1 \in 1 .. n /\ i \in 0 .. n /\ i + 1 \in 0 .. n
    <3>. HIDE DEF S, Good
    <3>. QED  BY <1>2, <1>9
  <2>. DEFINE hole == holes[i + 1]
              cursor == At(i)
              c == hole.end + 1
              more == RangePrefixes(cursor, hole.start - 1)
              pieces == IF cursor < hole.start THEN s.pieces \o more ELSE s.pieces
              t == [passed |-> i + 1, cursor |-> c, pieces |-> pieces]
  <2>2. s.passed = i /\ s.cursor = cursor /\ Swept(s.pieces, free, cursor)
    BY <2>1
  <2>3. F[s] = t
    BY <2>1, <2>2
  <2>4. /\ hole.start \in Nat /\ hole.end \in Nat /\ hole.start <= hole.end
        /\ lo <= hole.start /\ hole.start <= hi
    BY <1>4, <2>1
  <2>5. /\ cursor \in Nat /\ lo <= cursor /\ cursor - 1 \notin free /\ cursor <= hole.start
        /\ \A j \in 1 .. i : holes[j].end < cursor
        /\ \A j \in i + 1 .. n : hole.start <= holes[j].start
    <3>1. i + 1 \in i + 1 .. n
      BY <1>2, <2>1
    <3>2. ASSUME NEW j \in i + 1 .. n PROVE hole.start <= holes[j].start
      <4>1. j \in 1 .. n /\ (j = i + 1 \/ i + 1 < j)
        BY <1>2, <2>1
      <4>2. CASE j = i + 1
        BY <2>4, <4>2
      <4>3. CASE i + 1 < j
        <5>1. hole.end + 1 < holes[j].start /\ holes[j].start \in Nat
          BY <1>4, <1>5, <2>1, <4>1, <4>3
        <5>. QED  BY <2>4, <5>1
      <4>. QED  BY <4>1, <4>2, <4>3
    <3>. HIDE DEF At
    <3>. QED  BY <1>7, <2>1, <3>1, <3>2
  <2>6. At(i + 1) = c
    BY <2>1
  <2>. HIDE DEF At
  <2>7. /\ hole.start \notin free
        /\ \A a \in free : a < c => a < hole.start
    <3>1. \A a \in Nat : InRange(hole, a) => a \notin free
      BY <1>6, <2>1
    <3>. QED  BY <1>6, <2>4, <3>1 DEF InRange
  <2>. HIDE DEF hole, cursor
  <2>8. Swept(pieces, free, c)
    <3>1. CASE cursor < hole.start
      <4>. DEFINE end == hole.start - 1
      <4>1. /\ end \in Nat /\ cursor <= end /\ end <= 2^Width - 1 /\ end < c /\ c \in Nat
            /\ end + 1 = hole.start
        BY <1>1, <2>4, <2>5, <3>1
      <4>2. ASSUME NEW a \in cursor .. end PROVE a \in free
        <5>1. a \in Nat /\ lo <= a /\ a <= hi
          BY <1>1, <2>4, <2>5, <4>1
        <5>2. ASSUME NEW j \in 1 .. n PROVE ~InRange(holes[j], a)
          <6>1. CASE j \in 1 .. i
            BY <1>4, <2>5, <5>1, <5>2, <6>1 DEF InRange
          <6>2. CASE j \in i + 1 .. n
            BY <1>4, <2>4, <2>5, <5>1, <5>2, <6>2 DEF InRange
          <6>. QED  BY <1>2, <2>1, <6>1, <6>2
        <5>. QED  BY <1>6, <5>1, <5>2
      <4>3. \A a \in free : a < c => a <= end
        BY <1>6, <2>4, <2>7
      <4>4. end + 1 \notin free
        BY <2>7, <4>1
      <4>5. more = RangePrefixes(cursor, end) /\ pieces = s.pieces \o more
        BY <3>1
      <4>6. cursor .. end \subseteq free /\ cursor - 1 \notin free /\ cursor \in Nat
        BY <2>5, <4>2
      <4>. HIDE DEF end, more, c, pieces
      <4>7. Swept(s.pieces \o more, free, c)
        BY <1>6, <2>2, <4>1, <4>3, <4>4, <4>5, <4>6, SweepGap
      <4>. QED  BY <4>5, <4>7
    <3>2. CASE ~(cursor < hole.start)
      <4>1. pieces = s.pieces
        BY <3>2
      <4>2. c \in Nat /\ cursor <= c /\ \A a \in free : a < c => a < cursor
        BY <1>6, <2>4, <2>5, <2>7, <3>2
      <4>. HIDE DEF pieces, c
      <4>. QED  BY <1>6, <2>2, <2>5, <4>1, <4>2, SweepNothing
    <3>. QED  BY <3>1, <3>2
  <2>9. c \in Nat /\ pieces \in Seq(AllPrefixes)
    <3>1. c \in Nat
      BY <2>4
    <3>2. pieces \in Seq(PlainPrefixes)
      BY <2>8 DEF Swept
    <3>. HIDE DEF pieces
    <3>. QED  BY <3>1, <3>2 DEF PlainPrefixes
  <2>. HIDE DEF pieces, c
  <2>10. t \in S /\ t.passed = i + 1 /\ t.cursor = c /\ t.pieces = pieces
    BY <2>1, <2>9
  <2>. HIDE DEF t
  <2>11. Good(i + 1, t)
    BY <2>6, <2>8, <2>10
  <2>. HIDE DEF Good, S, F
  <2>. QED  BY <2>1, <2>3, <2>10, <2>11
<1>10. <<n, e>> \in I
  <2>. HIDE DEF F, x, I
  <2>. QED  BY <1>2, <1>8, <1>9, Iteration
<1>. HIDE DEF e
<1>11. e \in S /\ Good(n, e)
  <2>. HIDE DEF S, Good
  <2>. QED  BY <1>10
<1>12. e.cursor = At(n) /\ Swept(e.pieces, free, e.cursor)
  BY <1>11
<1>13. /\ At(n) \in Nat /\ lo <= At(n) /\ At(n) - 1 \notin free
       /\ \A j \in 1 .. n : holes[j].end < At(n)
  <2>1. n \in 0 .. n
    BY <1>2
  <2>. HIDE DEF At
  <2>. QED  BY <1>7, <2>1
<1>. DEFINE cursor == e.cursor
<1>14. /\ cursor \in Nat /\ lo <= cursor /\ cursor - 1 \notin free
       /\ \A j \in 1 .. n : holes[j].end < cursor
  <2>. HIDE DEF At
  <2>. QED  BY <1>12, <1>13
<1>15. Swept(e.pieces, free, cursor)
  BY <1>12
<1>. HIDE DEF cursor, At
<1>16. CASE cursor <= hi
  <2>. DEFINE more == RangePrefixes(cursor, hi)
  <2>1. Gaps(base, holes) = e.pieces \o more
    BY <1>3, <1>16 DEF cursor
  <2>2. ASSUME NEW a \in cursor .. hi PROVE a \in free
    <3>1. a \in Nat /\ lo <= a /\ a <= hi
      BY <1>1, <1>14
    <3>2. \A j \in 1 .. n : ~InRange(holes[j], a)
      BY <1>4, <1>14, <3>1 DEF InRange
    <3>. QED  BY <1>6, <3>1, <3>2
  <2>3. hi + 1 \notin free /\ \A a \in free : a < hi + 1 /\ a <= hi
    BY <1>1, <1>6
  <2>. DEFINE c == hi + 1
  <2>4. c \in Nat /\ hi < c /\ cursor .. hi \subseteq free /\ \A a \in free : a < c => a <= hi
    BY <1>1, <2>2, <2>3
  <2>. HIDE DEF c
  <2>5. more = RangePrefixes(cursor, hi)
    OBVIOUS
  <2>. HIDE DEF more
  <2>6. Swept(e.pieces \o more, free, c)
    BY <1>1, <1>6, <1>14, <1>15, <1>16, <2>3, <2>4, <2>5, SweepGap
  <2>. QED  BY <2>1, <2>3, <2>4, <2>6 DEF c
<1>17. CASE ~(cursor <= hi)
  <2>1. Gaps(base, holes) = e.pieces
    BY <1>3, <1>17 DEF cursor
  <2>2. \A a \in free : a < cursor
    BY <1>1, <1>6, <1>14, <1>17
  <2>. QED  BY <1>14, <1>15, <2>1, <2>2
<1>. QED  BY <1>16, <1>17

\* The mask changes nothing about the range of a prefix.
LEMMA MaskedRange ==
    ASSUME NEW p \in AllPrefixes
    PROVE  /\ Masked(p) \in PlainPrefixes
           /\ RangeStart(Masked(p)) = RangeStart(p) /\ RangeEnd(Masked(p)) = RangeEnd(p)
           /\ \A a : Holds(Masked(p), a) <=> Holds(p, a)
<1>1. Masked(p) \in PlainPrefixes
  BY PrefixRange DEF PlainPrefixes
<1>2. RangeStart(Masked(p)) = RangeStart(p) /\ RangeEnd(Masked(p)) = RangeEnd(p)
  BY PrefixRange DEF RangeStart, RangeEnd
<1>. QED  BY <1>1, <1>2 DEF Holds

\* An except is allowed where its range lies inside that of the CIDR.
LEMMA ExceptInside ==
    ASSUME NEW base \in AllPrefixes, NEW p \in AllPrefixes
    PROVE  /\ PrefixContainsPrefix(Masked(base), Masked(p))
                <=> RangeStart(p) .. RangeEnd(p) \subseteq RangeStart(base) .. RangeEnd(base)
           /\ PrefixContainsPrefix(Masked(base), Masked(p))
                => RangeStart(base) <= RangeStart(p) /\ RangeStart(p) <= RangeEnd(base)
<1>1. PrefixContainsPrefix(Masked(base), Masked(p))
        <=> RangeStart(base) <= RangeStart(p) /\ RangeEnd(p) <= RangeEnd(base)
  BY MaskedRange, ContainsRange
<1>2. /\ RangeStart(p) \in Nat /\ RangeEnd(p) \in Nat /\ RangeStart(p) <= RangeEnd(p)
      /\ RangeStart(base) \in Nat /\ RangeEnd(base) \in Nat
  BY PrefixRange
<1>3. ASSUME RangeStart(p) .. RangeEnd(p) \subseteq RangeStart(base) .. RangeEnd(base)
      PROVE  RangeStart(base) <= RangeStart(p) /\ RangeEnd(p) <= RangeEnd(base)
  <2>1. /\ RangeStart(p) \in RangeStart(p) .. RangeEnd(p)
        /\ RangeEnd(p) \in RangeStart(p) .. RangeEnd(p)
    BY <1>2
  <2>. QED  BY <1>2, <1>3, <2>1
<1>4. ASSUME RangeStart(base) <= RangeStart(p), RangeEnd(p) <= RangeEnd(base)
      PROVE  RangeStart(p) .. RangeEnd(p) \subseteq RangeStart(base) .. RangeEnd(base)
  BY <1>2, <1>4
<1>. QED  BY <1>1, <1>2, <1>3, <1>4

\* The gaps between the excepts of a CIDR are swept from its start to its end.
LEMMA ExpandedSwept ==
    ASSUME NEW base \in AllPrefixes, NEW excepts \in Seq(AllPrefixes),
           ExceptsAllowed(base, excepts)
    PROVE  \E c \in Nat : /\ Swept(Gaps(Masked(base), Merged(excepts)), Wanted(base, excepts), c)
                          /\ \A a \in Wanted(base, excepts) : a < c
<1>. DEFINE holes == Merged(excepts)
            plain == Masked(base)
<1>1. plain \in PlainPrefixes /\ RangeStart(plain) = RangeStart(base)
      /\ RangeEnd(plain) = RangeEnd(base) /\ \A a : Holds(plain, a) <=> Holds(base, a)
  BY MaskedRange
<1>2. /\ Holes(holes)
      /\ \A a \in Nat : (\E i \in DOMAIN holes : InRange(holes[i], a))
                          <=> \E i \in DOMAIN excepts : Holds(excepts[i], a)
      /\ \A i \in DOMAIN holes : \E j \in DOMAIN excepts : holes[i].start = RangeStart(excepts[j])
  BY HolesOfExcepts
<1>3. \A j \in DOMAIN excepts : excepts[j] \in AllPrefixes
  OBVIOUS
<1>4. \A j \in DOMAIN excepts : RangeStart(base) <= RangeStart(excepts[j])
                                /\ RangeStart(excepts[j]) <= RangeEnd(base)
  BY <1>3, ExceptInside DEF ExceptsAllowed
<1>. HIDE DEF holes, plain
<1>5. \A i \in DOMAIN holes : RangeStart(plain) <= holes[i].start
                              /\ holes[i].start <= RangeEnd(plain)
  BY <1>1, <1>2, <1>4
<1>6. Addresses \subseteq Nat
  BY Powers DEF Addresses
<1>7. Wanted(base, excepts)
        = {a \in Addresses : Holds(plain, a) /\ \A i \in DOMAIN holes : ~InRange(holes[i], a)}
  BY <1>1, <1>2, <1>6 DEF Wanted
<1>8. \E c \in Nat : /\ Swept(Gaps(plain, holes), Wanted(base, excepts), c)
                     /\ \A a \in Wanted(base, excepts) : a < c
  BY <1>1, <1>2, <1>5, <1>7, GapsSwept
<1>. QED  BY <1>8 DEF holes, plain

\* Pieces in order are as many as they are different.
LEMMA PiecesCounted ==
    ASSUME NEW pieces \in Seq(PlainPrefixes), Ordered(pieces)
    PROVE  Cardinality(ToSet(pieces)) = Len(pieces)
<1>. DEFINE n == Len(pieces)
            P == ToSet(pieces)
<1>1. n \in Nat /\ DOMAIN pieces = 1 .. n /\ \A i \in 1 .. n : pieces[i] \in PlainPrefixes
  OBVIOUS
<1>2. P = {pieces[i] : i \in 1 .. n}
  BY <1>1 DEF ToSet
<1>3. pieces = [i \in 1 .. n |-> pieces[i]]
  BY <1>1
<1>. HIDE DEF n, P
<1>4. pieces \in [1 .. n -> P]
  BY <1>2, <1>3
<1>5. ASSUME NEW i \in 1 .. n, NEW j \in 1 .. n, pieces[i] = pieces[j] PROVE i = j
  <2>1. /\ RangeStart(pieces[i]) \in Nat /\ RangeEnd(pieces[i]) \in Nat
        /\ RangeStart(pieces[i]) <= RangeEnd(pieces[i])
    BY <1>1, PlainRange
  <2>2. ~(i < j) /\ ~(j < i)
    BY <1>1, <1>5, <2>1 DEF Ordered
  <2>. QED  BY <1>1, <2>2
<1>6. pieces \in Bijection(1 .. n, P)
  BY <1>2, <1>4, <1>5 DEF Bijection, Injection, Surjection, IsInjective
<1>7. IsFiniteSet(1 .. n) /\ Cardinality(1 .. n) = n
  BY <1>1, FS_Interval
<1>8. Cardinality(P) = n
  BY <1>6, <1>7, FS_Bijection DEF ExistsBijection
<1>. QED  BY <1>8 DEF n, P

\* What is swept to the end is the smallest cover.
LEMMA SweptExact ==
    ASSUME NEW free, free \subseteq Addresses, NEW c \in Nat, NEW pieces, Swept(pieces, free, c),
           \A a \in free : a < c
    PROVE  /\ ToSet(pieces) \subseteq PlainPrefixes
           /\ Covered(ToSet(pieces)) = free
           /\ ToSet(pieces) = Maximal(free)
           /\ Cardinality(Maximal(free)) = Len(pieces)
<1>. DEFINE P == ToSet(pieces)
<1>1. pieces \in Seq(PlainPrefixes) /\ Ordered(pieces)
  BY DEF Swept
<1>2. /\ \A p \in P : \E i \in DOMAIN pieces : p = pieces[i]
      /\ \A i \in DOMAIN pieces : pieces[i] \in P
  BY <1>1 DEF ToSet
<1>. HIDE DEF P
<1>3. \A p \in P : /\ p \in PlainPrefixes /\ Inside(p, free)
                   /\ \A q : Inside(q, free) /\ PrefixContainsPrefix(q, p) => q = p
  BY <1>2 DEF Swept, Inside
<1>4. \A a \in free : \E p \in P : Holds(p, a)
  BY <1>2 DEF Swept
<1>5. free \subseteq Nat
  BY Powers DEF Addresses
<1>6. Covered(P) = free
  <2>1. ASSUME NEW a \in Addresses, NEW p \in P, Holds(p, a) PROVE a \in free
    <3>1. a \in Nat /\ RangeStart(p) \in Nat /\ RangeEnd(p) \in Nat
      BY <1>3, PlainRange, Powers DEF Addresses
    <3>2. a \in RangeStart(p) .. RangeEnd(p)
      BY <2>1, <3>1 DEF Holds
    <3>. QED  BY <1>3, <3>2 DEF Inside
  <2>. QED  BY <1>4, <2>1 DEF Covered
<1>7. Maximal(free) = {p \in PlainPrefixes :
                         /\ Inside(p, free)
                         /\ \A q : Inside(q, free) /\ PrefixContainsPrefix(q, p) => q = p}
  BY DEF Maximal, Inside, PlainPrefixes
<1>8. P \subseteq Maximal(free)
  BY <1>3, <1>7
<1>9. ASSUME NEW p \in Maximal(free) PROVE p \in P
  <2>1. /\ p \in PlainPrefixes /\ Inside(p, free)
        /\ \A q : Inside(q, free) /\ PrefixContainsPrefix(q, p) => q = p
    BY <1>7
  <2>2. RangeStart(p) \in Nat /\ RangeEnd(p) \in Nat /\ RangeStart(p) <= RangeEnd(p)
    BY <2>1, PlainRange
  <2>3. RangeStart(p) \in RangeStart(p) .. RangeEnd(p) /\ Holds(p, RangeStart(p))
    BY <2>2 DEF Holds
  <2>4. PICK x \in P : Holds(x, RangeStart(p))
    BY <1>4, <2>1, <2>3 DEF Inside
  <2>5. /\ x \in PlainPrefixes /\ Inside(x, free)
        /\ \A q : Inside(q, free) /\ PrefixContainsPrefix(q, x) => q = x
    BY <1>3
  <2>6. x.bits \in Int /\ p.bits \in Int
    BY <2>1, <2>5, Powers DEF PlainPrefixes, AllPrefixes
  <2>7. CASE x.bits <= p.bits
    <3>1. PrefixContainsPrefix(x, p)
      BY <2>1, <2>2, <2>3, <2>4, <2>5, <2>7, Nested, ContainsRange
    <3>. QED  BY <2>1, <2>5, <3>1
  <2>8. CASE p.bits <= x.bits
    <3>1. PrefixContainsPrefix(p, x)
      BY <2>1, <2>2, <2>3, <2>4, <2>5, <2>8, Nested, ContainsRange
    <3>. QED  BY <2>1, <2>5, <3>1
  <2>. QED  BY <2>6, <2>7, <2>8
<1>10. P = Maximal(free)
  BY <1>8, <1>9
<1>11. Cardinality(P) = Len(pieces)
  BY <1>1, PiecesCounted DEF P
<1>. QED  BY <1>3, <1>6, <1>10, <1>11 DEF P

\* What an ipBlock with excepts inside its CIDR becomes.
LEMMA ExpandedExact ==
    ASSUME NEW base \in AllPrefixes, NEW excepts \in Seq(AllPrefixes),
           ExceptsAllowed(base, excepts), NEW pieces, pieces = Gaps(Masked(base), Merged(excepts)),
           NEW free, free = Wanted(base, excepts)
    PROVE  /\ ToSet(pieces) \subseteq PlainPrefixes
           /\ Covered(ToSet(pieces)) = free
           /\ ToSet(pieces) = Maximal(free)
           /\ Cardinality(Maximal(free)) = Len(pieces)
<1>1. PICK c \in Nat : Swept(pieces, free, c) /\ \A a \in free : a < c
  BY ExpandedSwept
<1>2. free \subseteq Addresses
  BY DEF Wanted
<1>. QED  BY <1>1, <1>2, SweptExact

\* What the expansion of every ipBlock has to mean, it means.
LEMMA ExpansionsExact ==
    ASSUME NEW base \in AllPrefixes, NEW excepts \in Seq(AllPrefixes)
    PROVE  ExpansionMeans(base, excepts)
<1>. DEFINE pieces == Gaps(Masked(base), Merged(excepts))
            expansion == ExpandNativeIPBlock(base, excepts)
<1>1. CASE excepts = << >>
  <2>1. expansion = [ok |-> TRUE, prefixes |-> {Masked(base)}]
    BY <1>1 DEF ExpandNativeIPBlock
  <2>2. Covered({Masked(base)}) = Wanted(base, excepts)
    BY <1>1, MaskedRange DEF Covered, Wanted
  <2>3. Masked(base) \in AllPrefixes /\ Masked(base) = Masked(Masked(base))
    BY PrefixRange
  <2>. QED  BY <2>1, <2>2, <2>3 DEF ExpansionMeans
<1>2. CASE excepts # << >>
  <2>. SUFFICES ASSUME expansion.ok
                PROVE  /\ \A p \in expansion.prefixes : p \in AllPrefixes /\ p = Masked(p)
                       /\ Covered(expansion.prefixes) = Wanted(base, excepts)
    BY DEF ExpansionMeans
  <2>1. ExceptsAllowed(base, excepts) /\ expansion.prefixes = ToSet(pieces)
    BY <1>2 DEF ExpandNativeIPBlock, Failure
  <2>. HIDE DEF expansion
  <2>. QED  BY <2>1, ExpandedExact DEF PlainPrefixes
<1>. QED  BY <1>1, <1>2

\* A result is that of the block it was asked for.
BlocksInv ==
    result.done => /\ ipBlock \in BlockInputs
                   /\ result.value = ExpandNativeIPBlock(ipBlock.base, ipBlock.excepts)

\* What the invariant says about one block.
LEMMA BlocksInvExact == BlocksInv => BlocksExact
<1>. SUFFICES ASSUME BlocksInv, result.done PROVE BlocksExact
  BY DEF BlocksExact, ExpansionExact, RefusedExactly
<1>. DEFINE base == ipBlock.base
            excepts == ipBlock.excepts
            pieces == Gaps(Masked(base), Merged(excepts))
            free == Wanted(base, excepts)
            Outside == \E i \in DOMAIN excepts :
                         ~(RangeStart(excepts[i]) .. RangeEnd(excepts[i])
                             \subseteq RangeStart(base) .. RangeEnd(base))
<1>1. /\ base \in AllPrefixes /\ excepts \in Seq(AllPrefixes)
      /\ result.value = ExpandNativeIPBlock(base, excepts)
  BY BlocksAssumption DEF BlocksInv
<1>2. ExpansionMeans(base, excepts)
  BY <1>1, ExpansionsExact
<1>3. ExceptsAllowed(base, excepts) <=> ~Outside
  <2>1. \A i \in DOMAIN excepts : excepts[i] \in AllPrefixes
    BY <1>1
  <2>. QED  BY <1>1, <2>1, ExceptInside DEF ExceptsAllowed
<1>4. ExceptsAllowed(base, excepts)
        => ToSet(pieces) = Maximal(free) /\ Cardinality(Maximal(free)) = Len(pieces)
  BY <1>1, ExpandedExact
<1>. HIDE DEF base, pieces, free, Outside
<1>5. CASE excepts = << >>
  <2>1. result.value.ok
    BY <1>1, <1>5 DEF ExpandNativeIPBlock
  <2>. QED  BY <1>2, <1>5, <2>1 DEF BlocksExact, ExpansionExact, RefusedExactly, base
<1>6. CASE excepts # << >> /\ ~ExceptsAllowed(base, excepts)
  <2>1. ~result.value.ok
    BY <1>1, <1>6 DEF ExpandNativeIPBlock, Failure
  <2>2. ExpansionExact
    BY <2>1 DEF ExpansionExact
  <2>3. RefusedExactly
    BY <1>3, <1>6, <2>1 DEF RefusedExactly, Outside, base
  <2>. QED  BY <2>2, <2>3 DEF BlocksExact
<1>7. CASE excepts # << >> /\ ExceptsAllowed(base, excepts)
  <2>1. result.value = IF Len(pieces) > MaxIPBlockExpansion THEN Failure
                       ELSE [ok |-> TRUE, prefixes |-> ToSet(pieces)]
    BY <1>1, <1>7 DEF ExpandNativeIPBlock, pieces
  <2>2. ~result.value.ok <=> Cardinality(Maximal(free)) > MaxIPBlockExpansion
    BY <1>4, <1>7, <2>1 DEF Failure
  <2>3. result.value.ok => result.value.prefixes = Maximal(free)
    BY <1>4, <1>7, <2>1 DEF Failure
  <2>4. ExpansionExact
    BY <1>2, <2>3 DEF ExpansionExact, free, base
  <2>5. RefusedExactly
    BY <1>3, <1>7, <2>2 DEF RefusedExactly, Outside, free, base
  <2>. QED  BY <2>4, <2>5 DEF BlocksExact
<1>. QED  BY <1>5, <1>6, <1>7

\* For addresses of any width, any limit and any ipBlocks: an expansion covers what its
\* CIDR without the excepts means, with the fewest prefixes, and it is refused for an except
\* outside of the CIDR or for its size, never otherwise (ExpandNativeIPBlock,
\* appendNativeRangePrefixes).
THEOREM BlocksExactAlways == BlocksSpec => []BlocksExact
<1>1. BlocksInit => BlocksInv
  BY DEF BlocksInit, BlocksInv
<1>2. BlocksInv /\ [BlocksNext]_blocksVars => BlocksInv'
  BY DEF BlocksInv, BlocksNext, Expand, blocksVars
<1>. QED  BY <1>1, <1>2, BlocksInvExact, PTL DEF BlocksSpec

(***************************************************************************)
(* PolicyCompiler.                                                         *)
(***************************************************************************)
\* The first n policies.
Done(n) == {policies[i] : i \in 1 .. n}
\* The pods a policy bears on, whether it is accepted or refused.
Bearing(pol) == {p \in Pods : Concerns(pol, p)}

\* A refused policy quarantines the pods it bears on.
LEMMA QuarantinedAreBearing ==
    ASSUME NEW pol
    PROVE  Quarantined(pol) = Bearing(pol)
BY DEF Quarantined, Bearing, Concerns, LocalPods, SelectorAvailable, SelectedLocalPods

\* An accepted policy selects the pods it bears on.
LEMMA SelectedAreBearing ==
    ASSUME NEW pol, ValidateNativePolicy(pol)
    PROVE  SelectedLocalPods(pol) = Bearing(pol)
BY DEF Bearing, Concerns, LocalPods, SelectedLocalPods, ValidateNativePolicy

\* Every policy has a direction.
LEMMA DirectionsSome ==
    ASSUME NEW pol
    PROVE  Directions(pol) \subseteq Both /\ Directions(pol) # {}
BY DEF Directions, Both

\* The directions that nativePolicyDirections reads off a policy are those it restricts.
LEMMA DirectionsRestrict ==
    ASSUME NEW pol \in AllPolicies, NEW d \in Both
    PROVE  d \in Directions(pol) <=> Restricts(pol, d)
<1>1. CASE pol.spec = Absent
  BY <1>1 DEF Directions, Restricts
<1>2. CASE pol.spec # Absent /\ pol.spec.types = Absent
  BY <1>2 DEF Directions, Restricts, Both, ValidateNativePolicy, ValidTypes
<1>3. CASE pol.spec # Absent /\ pol.spec.types # Absent
  <2>. DEFINE types == ToSet(pol.spec.types)
  <2>1. pol.spec.types # << >> => types # {}
    <3>1. pol.spec.types \in Seq(STRING)
      BY <1>3, PoliciesAssumption
    <3>2. pol.spec.types # << >> => 1 \in DOMAIN pol.spec.types
      BY <3>1
    <3>. QED  BY <3>2 DEF ToSet
  <2>. HIDE DEF types
  <2>2. ValidateNativePolicy(pol) =>
            /\ types \subseteq Both /\ types # {}
            /\ pol.spec.ingress # {} => "ingress" \in types
            /\ pol.spec.egress # {} => "egress" \in types
    BY <1>3, <2>1 DEF ValidateNativePolicy, ValidTypes, types
  <2>. DEFINE implied == {e \in Both : \/ e = "ingress" /\ pol.spec.ingress # {}
                                       \/ e = "egress" /\ pol.spec.egress # {}}
              named == (types \cap Both) \cup implied
  <2>3. Directions(pol) = IF named = {} THEN Both ELSE named
    BY <1>3 DEF Directions, types
  <2>4. Restricts(pol, d)
          <=> IF ValidateNativePolicy(pol) THEN d \in types
              ELSE \/ d \in types
                   \/ IF d = "ingress" THEN pol.spec.ingress # {} ELSE pol.spec.egress # {}
                   \/ /\ types \cap Both = {}
                      /\ pol.spec.ingress = {} /\ pol.spec.egress = {}
    BY <1>3 DEF Restricts, types
  <2>. QED  BY <2>2, <2>3, <2>4 DEF Both
<1>. QED  BY <1>1, <1>2, <1>3

\* The pod that a cgroup belongs to, the cgroups and the pods that policies reach, and
\* the subjects that a set of policies demands, in whatever order it is compiled.
Owner(c) == CHOOSE q \in Pods : c \in q.cgroups
CgroupsOf(pods) == UNION {p.cgroups : p \in pods}
PodsAfter(done) == UNION {Bearing(pol) : pol \in done}

SubjectAfter(done, p) ==
    [isolated |-> {d \in Both : \E pol \in done :
                        p \in Bearing(pol) /\ d \in Directions(pol)},
     quarantined |-> {d \in Both : \E pol \in done :
                        /\ p \in Bearing(pol) /\ d \in Directions(pol)
                        /\ ValidateNativePolicy(pol) => p.ipv6},
     ips |-> p.ips]
SubjectsAfter(done) == [c \in CgroupsOf(PodsAfter(done)) |-> SubjectAfter(done, Owner(c))]

\* In a normalized snapshot a cgroup has one pod.
LEMMA OwnerIs ==
    ASSUME Normalized, NEW p \in Pods, NEW c \in p.cgroups
    PROVE  Owner(c) = p
<1>1. Owner(c) \in Pods /\ c \in Owner(c).cgroups
  BY DEF Owner
<1>. QED  BY <1>1 DEF Normalized

\* addSelectedSubjects adds to the subjects of the policies before what one more policy demands.
LEMMA SubjectsStep ==
    ASSUME Normalized, NEW done, NEW pol, NEW quarantinedOf,
           subjects = SubjectsAfter(done),
           \A p \in Bearing(pol) :
             quarantinedOf[p] = IF ValidateNativePolicy(pol) /\ ~p.ipv6
                                THEN {} ELSE Directions(pol)
    PROVE  WithSubjects(Bearing(pol), Directions(pol), quarantinedOf)
             = SubjectsAfter(done \cup {pol})
<1>. DEFINE all == done \cup {pol}
            cgroups == CgroupsOf(PodsAfter(all))
            before(c) == IF c \in DOMAIN subjects THEN subjects[c]
                         ELSE [isolated |-> {}, quarantined |-> {}, ips |-> Owner(c).ips]
            after(c) == IF Owner(c) \in Bearing(pol)
                        THEN [before(c) EXCEPT !.isolated = @ \cup Directions(pol),
                                               !.quarantined = @ \cup quarantinedOf[Owner(c)]]
                        ELSE before(c)
<1>1. DOMAIN subjects = CgroupsOf(PodsAfter(done))
  BY DEF SubjectsAfter
<1>2. cgroups = DOMAIN subjects \cup CgroupsOf(Bearing(pol))
  BY <1>1 DEF CgroupsOf, PodsAfter
<1>3. WithSubjects(Bearing(pol), Directions(pol), quarantinedOf)
        = [c \in cgroups |-> after(c)]
  BY <1>2 DEF WithSubjects, CgroupsOf, Owner
<1>4. ASSUME NEW c \in cgroups
      PROVE  after(c) = SubjectAfter(all, Owner(c))
  <2>1. PICK p \in Pods : c \in p.cgroups /\ p \in PodsAfter(all)
    BY DEF CgroupsOf, PodsAfter, Bearing
  <2>2. Owner(c) = p
    BY <2>1, OwnerIs
  <2>3. before(c) = SubjectAfter(done, p)
    <3>1. CASE c \in DOMAIN subjects
      BY <1>1, <2>2, <3>1 DEF SubjectsAfter
    <3>2. CASE c \notin DOMAIN subjects
      <4>1. \A q \in done : p \notin Bearing(q)
        BY <1>1, <2>1, <3>2 DEF CgroupsOf, PodsAfter
      <4>. QED  BY <2>2, <3>2, <4>1 DEF SubjectAfter
    <3>. QED  BY <3>1, <3>2
  <2>4. CASE p \notin Bearing(pol)
    BY <2>2, <2>3, <2>4 DEF SubjectAfter
  <2>5. CASE p \in Bearing(pol)
    <3>. DEFINE s == SubjectAfter(done, p)
                t == SubjectAfter(all, p)
    <3>1. s.isolated \cup Directions(pol) = t.isolated
      BY <2>5, DirectionsSome DEF SubjectAfter
    <3>2. s.quarantined \cup quarantinedOf[p] = t.quarantined
      BY <2>5, DirectionsSome DEF SubjectAfter
    <3>3. after(c) = [s EXCEPT !.isolated = @ \cup Directions(pol),
                               !.quarantined = @ \cup quarantinedOf[p]]
      BY <2>2, <2>3, <2>5
    <3>4. PICK x, y : s = [isolated |-> x, quarantined |-> y, ips |-> p.ips]
      BY DEF SubjectAfter
    <3>5. /\ after(c) = [isolated |-> s.isolated \cup Directions(pol),
                         quarantined |-> s.quarantined \cup quarantinedOf[p],
                         ips |-> p.ips]
          /\ t = [isolated |-> t.isolated, quarantined |-> t.quarantined, ips |-> p.ips]
      <4>1. t = [isolated |-> t.isolated, quarantined |-> t.quarantined, ips |-> p.ips]
        BY DEF SubjectAfter
      <4>. HIDE DEF s, t, after
      <4>. QED  BY <3>3, <3>4, <4>1
    <3>6. after(c) = t
      <4>. HIDE DEF s, t, after
      <4>. QED  BY <3>1, <3>2, <3>5
    <3>. HIDE DEF after
    <3>. QED  BY <2>2, <3>6
  <2>. QED  BY <2>4, <2>5
<1>. HIDE DEF after
<1>. QED  BY <1>3, <1>4 DEF SubjectsAfter

\* The rules of one direction.
SpecRules(pol, d) == IF d = "ingress" THEN pol.spec.ingress ELSE pol.spec.egress

\* The addresses are finitely many numbers.
LEMMA AddressesFinite == IsFiniteSet(Addresses) /\ Addresses \subseteq Nat
<1>1. 2^Width \in Nat
  BY WidthAssumption, PowerLaws
<1>2. IsFiniteSet(0 .. 2^Width - 1)
  BY <1>1, FS_Interval
<1>. QED  BY <1>1, <1>2 DEF Addresses

\* A union of finitely many finite sets is finite.
LEMMA FiniteUnion ==
    ASSUME NEW S, IsFiniteSet(S), NEW F, \A x \in S : IsFiniteSet(F[x])
    PROVE  IsFiniteSet(UNION {F[x] : x \in S})
<1>. DEFINE T == {F[x] : x \in S}
            f == [x \in S |-> F[x]]
<1>1. f \in Surjection(S, T)
  BY DEF Surjection
<1>2. IsFiniteSet(T)
  BY <1>1, FS_Surjection
<1>. QED  BY <1>2, FS_UNION

\* There are finitely many prefixes,
LEMMA AllPrefixesFinite == IsFiniteSet(AllPrefixes)
<1>. DEFINE f == [p \in AllPrefixes |-> <<p.addr, p.bits>>]
<1>1. IsFiniteSet(0 .. Width)
  BY FS_Interval, WidthAssumption
<1>2. IsFiniteSet(Addresses \X (0 .. Width))
  BY <1>1, AddressesFinite, FS_Product
<1>3. f \in [AllPrefixes -> Addresses \X (0 .. Width)]
  BY DEF AllPrefixes
<1>4. ASSUME NEW p \in AllPrefixes, NEW q \in AllPrefixes, f[p] = f[q] PROVE p = q
  <2>1. p.addr = q.addr /\ p.bits = q.bits
    BY <1>4
  <2>. QED  BY <2>1 DEF AllPrefixes
<1>. HIDE DEF f
<1>5. f \in Injection(AllPrefixes, Addresses \X (0 .. Width))
  BY <1>3, <1>4 DEF Injection, IsInjective
<1>. QED  BY <1>2, <1>5, FS_Injection

\* and finitely many cgroups.
LEMMA CgroupsFinite == IsFiniteSet(Cgroups)
<1>. DEFINE F == [p \in Pods |-> p.cgroups]
<1>1. \A p \in Pods : IsFiniteSet(F[p])
  BY InputAssumption
<1>. HIDE DEF F
<1>3. IsFiniteSet(UNION {F[p] : p \in Pods})
  BY <1>1, FiniteUnion, InputAssumption
<1>2. UNION {F[p] : p \in Pods} = Cgroups
  BY DEF Cgroups, F
<1>. QED  BY <1>2, <1>3

\* A host prefix holds its address alone.
LEMMA HostPrefixes ==
    ASSUME NEW b \in Addresses
    PROVE  /\ HostPrefix(b) \in PlainPrefixes
           /\ \A a \in Addresses : Holds(HostPrefix(b), a) <=> a = b
<1>1. b \in Nat
  BY AddressesFinite
<1>2. SizeOf(HostPrefix(b).bits) = 1
  BY WidthAssumption DEF HostPrefix, SizeOf
<1>3. b - (b % 1) = b
  BY <1>1
<1>4. Masked(HostPrefix(b)) = HostPrefix(b)
  BY <1>2, <1>3 DEF Masked, HostPrefix
<1>5. HostPrefix(b) \in AllPrefixes
  BY WidthAssumption DEF HostPrefix, AllPrefixes
<1>6. \A a \in Addresses : Holds(HostPrefix(b), a) <=> a = b
  BY <1>1, <1>2, <1>4, AddressesFinite DEF Holds, RangeStart, RangeEnd, HostPrefix
<1>. QED  BY <1>4, <1>5, <1>6 DEF PlainPrefixes

\* A peer of an accepted policy becomes plain prefixes of the addresses it means.
LEMMA Resolved ==
    ASSUME NEW pol \in AllPolicies, ValidateNativePolicy(pol),
           NEW rule \in pol.spec.ingress \cup pol.spec.egress, NEW peer \in rule.peers
    PROVE  /\ ResolvePeer(pol, peer) \subseteq PlainPrefixes
           /\ \A a \in Addresses :
                (\E x \in ResolvePeer(pol, peer) : Holds(x, a)) <=> PeerMeans(pol, peer, a)
<1>1. CASE IsBlock(peer)
  <2>. DEFINE base == peer.block.base
              excepts == peer.block.excepts
              expansion == ExpandNativeIPBlock(base, excepts)
  <2>1. base \in AllPrefixes /\ excepts \in Seq(AllPrefixes)
    BY <1>1, PoliciesAssumption DEF IsBlock, ValidateNativePolicy
  <2>2. ValidRule(rule)
    BY DEF ValidateNativePolicy
  <2>3. expansion.ok
    BY <1>1, <2>2 DEF ValidRule, ValidPeer
  <2>4. ExpansionMeans(base, excepts)
    BY <2>1, ExpansionsExact
  <2>5. /\ \A p \in expansion.prefixes : p \in AllPrefixes /\ p = Masked(p)
        /\ Covered(expansion.prefixes) = Wanted(base, excepts)
    BY <2>3, <2>4 DEF ExpansionMeans
  <2>6. ResolvePeer(pol, peer) = expansion.prefixes
    BY <1>1 DEF ResolvePeer
  <2>7. \A a : PeerMeans(pol, peer, a) <=> a \in Wanted(base, excepts)
    BY <1>1 DEF PeerMeans
  <2>. HIDE DEF expansion
  <2>. QED  BY <2>5, <2>6, <2>7 DEF PlainPrefixes, Covered
<1>2. CASE ~IsBlock(peer)
  <2>. DEFINE ips == UNION {p.ips : p \in PeerPods(pol, peer)}
  <2>1. ResolvePeer(pol, peer) = {HostPrefix(a) : a \in ips}
    BY <1>2 DEF ResolvePeer
  <2>2. ips \subseteq Addresses
    BY InputAssumption DEF PeerPods
  <2>3. \A a : a \in ips <=> PeerMeans(pol, peer, a)
    BY <1>2 DEF PeerPods, PeerMeans
  <2>. HIDE DEF ips
  <2>. QED  BY <2>1, <2>2, <2>3, HostPrefixes
<1>. QED  BY <1>1, <1>2

\* The rules of one policy.
RulesFrom(pol) ==
    UNION {RulesOf(pol, Bearing(pol), d, SpecRules(pol, d)) : d \in Directions(pol)}

\* They are of the cgroups the policy bears on, with plain prefixes and proper ports.
LEMMA RulesOfTypes ==
    ASSUME NEW pol \in AllPolicies, ValidateNativePolicy(pol),
           NEW d \in Both,
           NEW r \in RulesOf(pol, Bearing(pol), d, SpecRules(pol, d))
    PROVE  /\ r.cgroup \in CgroupsOf(Bearing(pol)) /\ r.cgroup \in Cgroups
           /\ r.direction = d
           /\ r.peer \in PlainPrefixes
           /\ r.port # BadPort
<1>1. PICK rule \in SpecRules(pol, d) :
        r \in [cgroup : CgroupsOf(Bearing(pol)), direction : {d},
              peer : UNION {ResolvePeer(pol, peer) : peer \in rule.peers}, port : rule.ports]
  BY DEF RulesOf, CgroupsOf
<1>2. rule \in pol.spec.ingress \cup pol.spec.egress
  BY DEF SpecRules
<1>3. PICK peer \in rule.peers : r.peer \in ResolvePeer(pol, peer)
  BY <1>1
<1>4. r.peer \in PlainPrefixes
  BY <1>2, <1>3, Resolved
<1>5. BadPort \notin rule.ports
  BY <1>2 DEF ValidateNativePolicy, ValidRule
<1>6. CgroupsOf(Bearing(pol)) \subseteq Cgroups
  BY DEF CgroupsOf, Bearing, Cgroups
<1>. QED  BY <1>1, <1>4, <1>5, <1>6

\* The rules of one direction are finitely many,
LEMMA RulesOfFinite ==
    ASSUME NEW pol \in AllPolicies, ValidateNativePolicy(pol), NEW d \in Both
    PROVE  IsFiniteSet(RulesOf(pol, Bearing(pol), d, SpecRules(pol, d)))
<1>. DEFINE rs == SpecRules(pol, d)
            F == [rule \in rs |->
                    [cgroup : CgroupsOf(Bearing(pol)), direction : {d},
                     peer : UNION {ResolvePeer(pol, peer) : peer \in rule.peers},
                     port : rule.ports]]
<1>1. IsFiniteSet(rs) /\ rs \subseteq pol.spec.ingress \cup pol.spec.egress
  BY PoliciesAssumption DEF SpecRules, ValidateNativePolicy
<1>2. ASSUME NEW rule \in rs PROVE IsFiniteSet(F[rule])
  <2>. DEFINE f == [r \in F[rule] |-> <<r.cgroup, <<r.peer, r.port>>>>]
  <2>1. \A r \in F[rule] : /\ r.cgroup \in Cgroups /\ r.direction = d
                           /\ r.peer \in AllPrefixes /\ r.port \in rule.ports
    <3>1. \A peer \in rule.peers : ResolvePeer(pol, peer) \subseteq AllPrefixes
      BY <1>1, Resolved DEF PlainPrefixes
    <3>. QED  BY <3>1 DEF CgroupsOf, Bearing, Cgroups
  <2>2. f \in Injection(F[rule], Cgroups \X (AllPrefixes \X rule.ports))
    <3>1. f \in [F[rule] -> Cgroups \X (AllPrefixes \X rule.ports)]
      BY <2>1
    <3>2. ASSUME NEW r \in F[rule], NEW q \in F[rule], f[r] = f[q] PROVE r = q
      <4>1. r.cgroup = q.cgroup /\ r.peer = q.peer /\ r.port = q.port /\ r.direction = q.direction
        BY <2>1, <3>2
      <4>2. \A x \in F[rule] : x = [cgroup |-> x.cgroup, direction |-> x.direction,
                                   peer |-> x.peer, port |-> x.port]
        OBVIOUS
      <4>. QED  BY <4>1, <4>2
    <3>. HIDE DEF f
    <3>. QED  BY <3>1, <3>2 DEF Injection, IsInjective
  <2>3. IsFiniteSet(rule.ports)
    BY <1>1, PoliciesAssumption DEF ValidateNativePolicy
  <2>4. IsFiniteSet(Cgroups \X (AllPrefixes \X rule.ports))
    BY <2>3, CgroupsFinite, AllPrefixesFinite, FS_Product
  <2>. HIDE DEF f
  <2>. QED  BY <2>2, <2>4, FS_Injection
<1>3. RulesOf(pol, Bearing(pol), d, rs) = UNION {F[rule] : rule \in rs}
  BY DEF RulesOf, CgroupsOf
<1>. HIDE DEF F, rs
<1>4. IsFiniteSet(UNION {F[rule] : rule \in rs})
  BY <1>1, <1>2, FiniteUnion
<1>. QED  BY <1>3, <1>4 DEF rs

\* The rules that a set of policies demands.
RulesAfter(done) == UNION {RulesFrom(pol) : pol \in {q \in done : ValidateNativePolicy(q)}}

\* How many policies are compiled, and which.
Taken == Len(policies) - Len(todo)
Compiled == Done(Taken)

\* What is compiled so far is what the policies taken demand, in whatever order they came:
\* subjects, rules and the entries counted for bypasses; nothing unresolvable was passed
\* over, and what is still compiling fits.
CompilerInv ==
    /\ policies \in Policies
    /\ Taken \in 0 .. Len(policies) /\ todo = SubSeq(policies, Taken + 1, Len(policies))
    /\ outcome \in {"compiling", "resolution", "capacity", "invalid", "compiled"}
    /\ outcome \in {"compiling", "compiled"} => Normalized
    /\ subjects = SubjectsAfter(Compiled)
    /\ rules = RulesAfter(Compiled) /\ IsFiniteSet(rules)
    /\ bypasses = Cardinality(Input.nodeIPs) + Cardinality(SelfBypasses(subjects, DOMAIN subjects))
    /\ \A pol \in Compiled : \A p \in Bearing(pol) : ~p.failure
    /\ outcome = "compiling" => PolicySetFits
    /\ outcome = "compiled" => todo = << >>

\* and so are those of a policy.
LEMMA RulesFromFinite ==
    ASSUME NEW pol \in AllPolicies, ValidateNativePolicy(pol)
    PROVE  IsFiniteSet(RulesFrom(pol))
<1>. DEFINE F == [d \in Directions(pol) |->
                    RulesOf(pol, Bearing(pol), d, SpecRules(pol, d))]
<1>1. \A d \in Directions(pol) : IsFiniteSet(F[d])
  BY RulesOfFinite, DirectionsSome
<1>2. IsFiniteSet(Directions(pol))
  <2>1. IsFiniteSet(Both)
    <3>1. Both = {"egress"} \cup {"ingress"}
      BY DEF Both
    <3>2. IsFiniteSet({"egress"})
      BY FS_Singleton
    <3>. QED  BY <3>1, <3>2, FS_AddElement
  <2>. QED  BY <2>1, DirectionsSome, FS_Subset
<1>3. RulesFrom(pol) = UNION {F[d] : d \in Directions(pol)}
  BY DEF RulesFrom
<1>. HIDE DEF F
<1>. QED  BY <1>1, <1>2, <1>3, FiniteUnion

\* What taking one more policy does to the position.
LEMMA TakeNext ==
    ASSUME CompilerInv, todo # << >>
    PROVE  /\ Taken + 1 \in 1 .. Len(policies) /\ Head(todo) = policies[Taken + 1]
           /\ Head(todo) \in AllPolicies
           /\ Tail(todo) = SubSeq(policies, Taken + 2, Len(policies))
           /\ Len(policies) - Len(Tail(todo)) = Taken + 1
           /\ Done(Taken + 1) = Compiled \cup {Head(todo)}
<1>. DEFINE n == Taken
<1>1. policies \in Seq(AllPolicies) /\ n \in 0 .. Len(policies)
  BY PoliciesAssumption DEF CompilerInv
<1>2. todo = SubSeq(policies, n + 1, Len(policies))
  BY DEF CompilerInv
<1>. HIDE DEF n
<1>3. n + 1 \in 1 .. Len(policies)
  BY <1>1, <1>2
<1>4. Head(todo) = policies[n + 1] /\ policies[n + 1] \in AllPolicies
  BY <1>1, <1>2, <1>3
<1>5. Tail(todo) = SubSeq(policies, n + 2, Len(policies))
  BY <1>1, <1>2, <1>3
<1>6. Len(Tail(todo)) = Len(policies) - (n + 1)
  BY <1>1, <1>2, <1>3, <1>5
<1>7. Len(policies) - Len(Tail(todo)) = n + 1
  BY <1>1, <1>6
<1>8. Done(n + 1) = Done(n) \cup {Head(todo)}
  BY <1>1, <1>4 DEF Done
<1>. QED  BY <1>3, <1>4, <1>5, <1>7, <1>8 DEF n, Compiled

\* The policies compiled are among those given.
LEMMA CompiledPolicies == CompilerInv => Compiled \subseteq AllPolicies
<1>. SUFFICES ASSUME CompilerInv PROVE Compiled \subseteq AllPolicies
  OBVIOUS
<1>1. policies \in Seq(AllPolicies) /\ Taken \in 0 .. Len(policies)
  BY PoliciesAssumption DEF CompilerInv
<1>. HIDE DEF Taken
<1>. QED  BY <1>1 DEF Compiled, Done

\* The bypasses counted for new subjects are those that are missing.
LEMMA BypassesOf ==
    ASSUME NEW done, NEW more, done \subseteq more, Normalized,
           NEW s, s = SubjectsAfter(done), NEW t, t = SubjectsAfter(more),
           NEW now, now = SelfBypasses(s, DOMAIN s),
           NEW new, new = SelfBypasses(t, DOMAIN t \ DOMAIN s)
    PROVE  /\ Cardinality(now) \in Nat /\ Cardinality(new) \in Nat
           /\ Cardinality(SelfBypasses(t, DOMAIN t)) = Cardinality(now) + Cardinality(new)
<1>1. DOMAIN s \subseteq DOMAIN t /\ DOMAIN t \subseteq Cgroups
  BY DEF SubjectsAfter, CgroupsOf, PodsAfter, Cgroups, Bearing
<1>2. ASSUME NEW c \in DOMAIN t
      PROVE  t[c].ips = Owner(c).ips /\ (c \in DOMAIN s => s[c].ips = t[c].ips)
             /\ t[c].ips \subseteq Addresses
  <2>1. t[c].ips = Owner(c).ips /\ (c \in DOMAIN s => s[c].ips = Owner(c).ips)
    BY DEF SubjectsAfter, SubjectAfter
  <2>2. Owner(c) \in Pods
    BY <1>1 DEF Owner, Cgroups
  <2>. QED  BY <2>1, <2>2, InputAssumption
<1>8. now = {e \in Cgroups \X Addresses : e[1] \in DOMAIN s /\ e[2] \in t[e[1]].ips}
  BY <1>1, <1>2 DEF SelfBypasses
<1>9. new = {e \in Cgroups \X Addresses : e[1] \in DOMAIN t \ DOMAIN s /\ e[2] \in t[e[1]].ips}
  BY <1>1, <1>2 DEF SelfBypasses
<1>10. SelfBypasses(t, DOMAIN t)
         = {e \in Cgroups \X Addresses : e[1] \in DOMAIN t /\ e[2] \in t[e[1]].ips}
  BY <1>1, <1>2 DEF SelfBypasses
<1>3. /\ SelfBypasses(t, DOMAIN t) = now \cup new /\ now \cap new = {}
      /\ now \subseteq Cgroups \X Addresses /\ new \subseteq Cgroups \X Addresses
  BY <1>1, <1>8, <1>9, <1>10
<1>4. IsFiniteSet(Cgroups \X Addresses)
  BY CgroupsFinite, AddressesFinite, FS_Product
<1>5. IsFiniteSet(now) /\ IsFiniteSet(new)
  BY <1>3, <1>4, FS_Subset
<1>6. Cardinality(now \cup new) = Cardinality(now) + Cardinality(new) - Cardinality(now \cap new)
  BY <1>5, FS_Union
<1>7. Cardinality(now) \in Nat /\ Cardinality(new) \in Nat
  BY <1>5, FS_CardinalityType
<1>12. Cardinality(now \cap new) = 0
  BY <1>3, FS_EmptySet
<1>11. Cardinality(SelfBypasses(t, DOMAIN t)) = Cardinality(now) + Cardinality(new)
  <2>1. Cardinality(SelfBypasses(t, DOMAIN t)) = Cardinality(now \cup new)
    BY <1>3, Zenon
  <2>2. Cardinality(now \cup new) = Cardinality(now) + Cardinality(new)
    BY <1>6, <1>7, <1>12
  <2>. QED  BY <2>1, <2>2, Zenon
<1>. QED  BY <1>7, <1>11

\* One more policy with its subjects and rules added keeps the invariant.
LEMMA PolicyStep ==
    ASSUME CompilerInv, outcome = "compiling", todo # << >>,
           NEW pol, pol = Head(todo),
           ~Unresolvable(Bearing(pol)),
           subjects' = SubjectsAfter(Compiled \cup {pol}),
           rules' = RulesAfter(Compiled \cup {pol}),
           Added, todo' = Tail(todo), policies' = policies
    PROVE  CompilerInv'
<1>. DEFINE all == Compiled \cup {pol}
<1>1. /\ Taken + 1 \in 1 .. Len(policies) /\ pol \in AllPolicies
      /\ Tail(todo) = SubSeq(policies, Taken + 2, Len(policies))
      /\ Len(policies) - Len(Tail(todo)) = Taken + 1
      /\ Done(Taken + 1) = all
  BY TakeNext
<1>2. Taken' = Taken + 1
  BY <1>1 DEF Taken
<1>3. Compiled' = all
  <2>1. Compiled' = {policies'[i] : i \in 1 .. Taken'}
    BY DEF Compiled, Done
  <2>2. Compiled' = {policies[i] : i \in 1 .. Taken + 1}
    BY <1>2, <2>1
  <2>. QED  BY <1>1, <2>2 DEF Done
<1>4. /\ Taken \in Int /\ policies \in Policies /\ Normalized
      /\ subjects = SubjectsAfter(Compiled) /\ rules = RulesAfter(Compiled) /\ IsFiniteSet(rules)
      /\ bypasses = Cardinality(Input.nodeIPs)
                      + Cardinality(SelfBypasses(subjects, DOMAIN subjects))
  BY DEF CompilerInv
<1>5. /\ Cardinality(SelfBypasses(subjects, DOMAIN subjects)) \in Nat
      /\ Cardinality(SelfBypasses(subjects', DOMAIN subjects' \ DOMAIN subjects)) \in Nat
      /\ Cardinality(SelfBypasses(subjects', DOMAIN subjects'))
           = Cardinality(SelfBypasses(subjects, DOMAIN subjects))
             + Cardinality(SelfBypasses(subjects', DOMAIN subjects' \ DOMAIN subjects))
  <2>. DEFINE now == SelfBypasses(subjects, DOMAIN subjects)
              new == SelfBypasses(subjects', DOMAIN subjects' \ DOMAIN subjects)
  <2>1. /\ Compiled \subseteq all
        /\ subjects = SubjectsAfter(Compiled) /\ subjects' = SubjectsAfter(all) /\ Normalized
    BY <1>4
  <2>2. now = SelfBypasses(subjects, DOMAIN subjects)
        /\ new = SelfBypasses(subjects', DOMAIN subjects' \ DOMAIN subjects)
    OBVIOUS
  <2>. HIDE DEF all, now, new
  <2>3. /\ Cardinality(now) \in Nat /\ Cardinality(new) \in Nat
        /\ Cardinality(SelfBypasses(subjects', DOMAIN subjects'))
             = Cardinality(now) + Cardinality(new)
    BY <2>1, <2>2, BypassesOf
  <2>. QED  BY <2>2, <2>3
<1>6. Cardinality(Input.nodeIPs) \in Nat
  BY InputAssumption, FS_CardinalityType
<1>7. bypasses' = Cardinality(Input.nodeIPs)
                    + Cardinality(SelfBypasses(subjects', DOMAIN subjects'))
  <2>1. bypasses' = bypasses
                      + Cardinality(SelfBypasses(subjects', DOMAIN subjects' \ DOMAIN subjects))
    BY DEF Added
  <2>. QED  BY <1>4, <1>5, <1>6, <2>1
<1>8. IsFiniteSet(rules')
  <2>1. CASE ValidateNativePolicy(pol)
    <3>1. rules' = rules \cup RulesFrom(pol)
      BY <1>4, <2>1 DEF RulesAfter
    <3>2. IsFiniteSet(RulesFrom(pol))
      BY <1>1, <2>1, RulesFromFinite
    <3>3. IsFiniteSet(rules \cup RulesFrom(pol))
      BY <1>4, <3>2, FS_Union
    <3>. QED  BY <3>1, <3>3
  <2>2. CASE ~ValidateNativePolicy(pol)
    <3>1. rules' = rules
      BY <1>4, <2>2 DEF RulesAfter
    <3>. QED  BY <1>4, <3>1
  <2>. QED  BY <2>1, <2>2
<1>9. \A q \in all : \A p \in Bearing(q) : ~p.failure
  BY DEF CompilerInv, Unresolvable
<1>10. outcome' \in {"compiling", "capacity"}
  BY DEF Added
<1>11. outcome' = "compiling" => PolicySetFits'
  <2>. SUFFICES ASSUME outcome' = "compiling" PROVE PolicySetFits'
    OBVIOUS
  <2>1. ~(Cardinality(DOMAIN subjects') > MaxPolicySubjects)
    BY DEF Added
  <2>2. ~(Cardinality(rules') + bypasses' > MaxPolicyRules)
    BY DEF Added
  <2>3. Cardinality(rules') \in Nat
    BY <1>8, FS_CardinalityType
  <2>4. Cardinality(DOMAIN subjects') \in Nat
    <3>1. DOMAIN subjects' \subseteq Cgroups
      BY DEF SubjectsAfter, CgroupsOf, PodsAfter, Cgroups, Bearing
    <3>2. IsFiniteSet(DOMAIN subjects')
      BY <3>1, CgroupsFinite, FS_Subset
    <3>. QED  BY <3>2, FS_CardinalityType
  <2>5. Cardinality(SelfBypasses(subjects', DOMAIN subjects')) \in Nat
    BY <1>5
  <2>6. Cardinality(DOMAIN subjects') <= MaxPolicySubjects
    BY <2>1, <2>4, LimitsAssumption
  <2>7. Cardinality(rules') + Cardinality(Input.nodeIPs)
          + Cardinality(SelfBypasses(subjects', DOMAIN subjects')) <= MaxPolicyRules
    BY <1>6, <1>7, <2>2, <2>3, <2>5, LimitsAssumption
  <2>. QED  BY <2>6, <2>7 DEF PolicySetFits
<1>12. (Taken \in 0 .. Len(policies) /\ todo = SubSeq(policies, Taken + 1, Len(policies)))'
  <2>1. Len(policies) \in Nat
    BY <1>4, PoliciesAssumption
  <2>2. Taken + 2 = (Taken + 1) + 1
    BY <1>4
  <2>. QED  BY <1>1, <1>2, <1>4, <2>1, <2>2
<1>13. Normalized'
  BY <1>4 DEF Normalized, Pods
<1>. HIDE DEF all
<1>. QED  BY <1>3, <1>4, <1>7, <1>8, <1>9, <1>10, <1>11, <1>12, <1>13 DEF CompilerInv, all

\* A refused policy adds its subjects and no rule.
LEMMA CompileRejectedStep ==
    ASSUME CompilerInv, CompileRejected
    PROVE  CompilerInv'
<1>. DEFINE pol == Head(todo)
            dirs == [p \in Bearing(pol) |-> Directions(pol)]
<1>1. /\ outcome = "compiling" /\ todo # << >> /\ ~ValidateNativePolicy(pol)
      /\ ~Unresolvable(Bearing(pol))
      /\ subjects' = WithSubjects(Bearing(pol), Directions(pol), dirs)
      /\ rules' = rules /\ Added /\ todo' = Tail(todo) /\ policies' = policies
  BY QuarantinedAreBearing DEF CompileRejected
<1>2. subjects = SubjectsAfter(Compiled) /\ Normalized /\ rules = RulesAfter(Compiled)
  BY <1>1 DEF CompilerInv
<1>3. subjects' = SubjectsAfter(Compiled \cup {pol})
  BY <1>1, <1>2, SubjectsStep
<1>4. rules' = RulesAfter(Compiled \cup {pol})
  BY <1>1, <1>2 DEF RulesAfter
<1>. QED  BY <1>1, <1>3, <1>4, PolicyStep

\* An accepted policy adds its subjects and its rules.
LEMMA CompileAcceptedStep ==
    ASSUME CompilerInv, CompileAccepted
    PROVE  CompilerInv'
<1>. DEFINE pol == Head(todo)
            dirs == Directions(pol)
            quarantinedOf == [p \in Bearing(pol) |-> IF p.ipv6 THEN dirs ELSE {}]
<1>1. ValidateNativePolicy(pol)
  BY DEF CompileAccepted
<1>2. /\ outcome = "compiling" /\ todo # << >>
      /\ ~Unresolvable(Bearing(pol))
      /\ subjects' = WithSubjects(Bearing(pol), dirs, quarantinedOf)
      /\ rules' = rules
            \cup (IF "ingress" \in dirs
                  THEN RulesOf(pol, Bearing(pol), "ingress", pol.spec.ingress) ELSE {})
            \cup (IF "egress" \in dirs
                  THEN RulesOf(pol, Bearing(pol), "egress", pol.spec.egress) ELSE {})
      /\ Added /\ todo' = Tail(todo) /\ policies' = policies
  BY <1>1, SelectedAreBearing DEF CompileAccepted
<1>3. subjects = SubjectsAfter(Compiled) /\ Normalized /\ rules = RulesAfter(Compiled)
  BY <1>2 DEF CompilerInv
<1>4. subjects' = SubjectsAfter(Compiled \cup {pol})
  BY <1>1, <1>2, <1>3, SubjectsStep
<1>5. rules' = rules \cup RulesFrom(pol)
  BY <1>2, DirectionsSome DEF RulesFrom, SpecRules, Both
<1>6. rules' = RulesAfter(Compiled \cup {pol})
  BY <1>1, <1>3, <1>5 DEF RulesAfter
<1>. QED  BY <1>2, <1>4, <1>6, PolicyStep

\* A step that changes the outcome alone keeps the invariant.
LEMMA CompilerStays ==
    ASSUME CompilerInv, UNCHANGED <<policies, todo, subjects, rules, bypasses>>,
           outcome' \in {"compiling", "resolution", "capacity", "invalid", "compiled"},
           outcome' \in {"compiling", "compiled"} => outcome \in {"compiling", "compiled"},
           outcome' = "compiling" => outcome = "compiling",
           outcome' = "compiled" => outcome = "compiled" \/ todo = << >>
    PROVE  CompilerInv'
<1>1. Taken' = Taken
  BY DEF Taken
<1>2. Compiled' = Compiled
  BY <1>1 DEF Compiled, Done
<1>3. (PolicySetFits => PolicySetFits') /\ (Normalized => Normalized')
  BY DEF PolicySetFits, Normalized, Pods
<1>. QED  BY <1>1, <1>2, <1>3 DEF CompilerInv

\* Nothing is compiled at first.
LEMMA CompilerInitial == CompilerInit => CompilerInv
<1>. SUFFICES ASSUME CompilerInit PROVE CompilerInv
  OBVIOUS
<1>. USE DEF CompilerInit
<1>1. policies \in Seq(AllPolicies)
  BY PoliciesAssumption
<1>2. Taken = 0 /\ Len(policies) \in Nat /\ todo = SubSeq(policies, 1, Len(policies))
  BY <1>1 DEF Taken
<1>3. Compiled = {}
  BY <1>2 DEF Compiled, Done
<1>4. subjects = SubjectsAfter({}) /\ DOMAIN subjects = {}
  <2>1. CgroupsOf(PodsAfter({})) = {}
    BY DEF CgroupsOf, PodsAfter
  <2>. QED  BY <2>1 DEF SubjectsAfter
<1>5. rules = RulesAfter({}) /\ IsFiniteSet(rules) /\ Cardinality(rules) = 0
  BY FS_EmptySet DEF RulesAfter
<1>6. /\ Cardinality(DOMAIN subjects) = 0
      /\ Cardinality(SelfBypasses(subjects, DOMAIN subjects)) = 0
  <2>1. SelfBypasses(subjects, DOMAIN subjects) = {}
    BY <1>4 DEF SelfBypasses
  <2>. QED  BY <1>4, <2>1, FS_EmptySet
<1>7. Cardinality(Input.nodeIPs) \in Nat
  BY InputAssumption, FS_CardinalityType
<1>8. bypasses = Cardinality(Input.nodeIPs) + Cardinality(SelfBypasses(subjects, DOMAIN subjects))
  BY <1>6, <1>7
<1>9. outcome = "compiling" => PolicySetFits
  BY <1>5, <1>6, <1>7, LimitsAssumption DEF PolicySetFits, RuleEntryCount
<1>10. /\ outcome \in {"compiling", "resolution", "capacity"}
       /\ outcome = "compiling" => Normalized
  OBVIOUS
<1>. QED  BY <1>2, <1>3, <1>4, <1>5, <1>8, <1>9, <1>10 DEF CompilerInv

\* The invariant holds of every compilation.
LEMMA CompilerInvariant ==
    CompilerSpec => []CompilerInv
<1>1. CompilerInv /\ [CompilerNext]_compilerVars => CompilerInv'
  <2>. SUFFICES ASSUME CompilerInv, [CompilerNext]_compilerVars PROVE CompilerInv'
    OBVIOUS
  <2>1. CASE CompileRejected
    BY <2>1, CompileRejectedStep
  <2>2. CASE CompileAccepted
    BY <2>2, CompileAcceptedStep
  <2>3. CASE CompileFails
    BY <2>3, CompilerStays DEF CompileFails
  <2>4. CASE Finish
    BY <2>4, CompilerStays DEF Finish
  <2>5. CASE UNCHANGED compilerVars
    <3>1. outcome \in {"compiling", "resolution", "capacity", "invalid", "compiled"}
      BY DEF CompilerInv
    <3>. QED  BY <2>5, <3>1, CompilerStays DEF compilerVars
  <2>. QED  BY <2>1, <2>2, <2>3, <2>4, <2>5 DEF CompilerNext
<1>. QED  BY <1>1, CompilerInitial, PTL DEF CompilerSpec

\* A rule comes from a policy that was compiled.
LEMMA RuleOfPolicy ==
    ASSUME CompilerInv, NEW r \in rules
    PROVE  /\ \E pol \in Compiled : r.cgroup \in CgroupsOf(Bearing(pol))
           /\ r.cgroup \in Cgroups /\ r.direction \in Both
           /\ r.peer \in PlainPrefixes /\ r.port # BadPort
<1>1. PICK pol \in Compiled : ValidateNativePolicy(pol) /\ r \in RulesFrom(pol)
  BY DEF CompilerInv, RulesAfter
<1>2. PICK d \in Directions(pol) :
        r \in RulesOf(pol, Bearing(pol), d, SpecRules(pol, d))
  BY <1>1 DEF RulesFrom
<1>3. pol \in AllPolicies /\ d \in Both
  BY CompiledPolicies, DirectionsSome
<1>. QED  BY <1>1, <1>2, <1>3, RulesOfTypes

\* A subject comes from a policy that was compiled.
LEMMA SubjectOfPolicy ==
    ASSUME CompilerInv, Normalized, NEW c \in DOMAIN subjects
    PROVE  /\ c \in Cgroups /\ Owner(c) \in Pods
           /\ subjects[c] = SubjectAfter(Compiled, Owner(c))
           /\ \E pol \in Compiled : Owner(c) \in Bearing(pol)
<1>1. subjects = SubjectsAfter(Compiled)
  BY DEF CompilerInv
<1>2. PICK pol \in Compiled : \E p \in Bearing(pol) : c \in p.cgroups
  BY <1>1 DEF SubjectsAfter, CgroupsOf, PodsAfter
<1>3. PICK p \in Bearing(pol) : c \in p.cgroups
  BY <1>2
<1>4. p \in Pods /\ Owner(c) = p
  BY <1>3, OwnerIs DEF Bearing
<1>. QED  BY <1>1, <1>3, <1>4 DEF SubjectsAfter, Cgroups

\* The boundary check accepts what was compiled.
LEMMA CandidateValid ==
    ASSUME CompilerInv, Normalized
    PROVE  PolicySetValid
<1>1. Input.nodeIPs # {}
  BY DEF Normalized
<1>2. ASSUME NEW c \in DOMAIN subjects
      PROVE  subjects[c].isolated # {} /\ subjects[c].quarantined \subseteq subjects[c].isolated
  <2>1. PICK pol \in Compiled : Owner(c) \in Bearing(pol)
    BY SubjectOfPolicy
  <2>2. PICK d \in Directions(pol) : d \in Both
    BY DirectionsSome
  <2>3. subjects[c] = SubjectAfter(Compiled, Owner(c))
    BY SubjectOfPolicy
  <2>. QED  BY <2>1, <2>2, <2>3 DEF SubjectAfter
<1>3. ASSUME NEW r \in rules PROVE r.cgroup \in DOMAIN subjects /\ r.port # BadPort
  <2>1. PICK pol \in Compiled : r.cgroup \in CgroupsOf(Bearing(pol))
    BY RuleOfPolicy
  <2>2. subjects = SubjectsAfter(Compiled)
    BY DEF CompilerInv
  <2>. QED  BY <2>1, <2>2, RuleOfPolicy DEF SubjectsAfter, CgroupsOf, PodsAfter
<1>. QED  BY <1>1, <1>2, <1>3 DEF PolicySetValid

\* The types.
LEMMA CompilerTypes == ASSUME CompilerInv PROVE CompilerTypeOK
<1>1. \E n \in 0 .. Len(policies) : todo = SubSeq(policies, n + 1, Len(policies))
  BY DEF CompilerInv
<1>2. DOMAIN subjects \subseteq Cgroups
  BY DEF CompilerInv, SubjectsAfter, CgroupsOf, PodsAfter, Cgroups, Bearing
<1>3. ASSUME NEW c \in DOMAIN subjects
      PROVE  /\ subjects[c].isolated \subseteq Both /\ subjects[c].quarantined \subseteq Both
             /\ subjects[c].ips \subseteq Addresses
  <2>1. subjects[c] = SubjectAfter(Compiled, Owner(c))
    BY DEF CompilerInv, SubjectsAfter
  <2>2. Owner(c) \in Pods
    BY <1>2 DEF Owner, Cgroups
  <2>. QED  BY <2>1, <2>2, InputAssumption DEF SubjectAfter
<1>4. \A r \in rules : r.cgroup \in Cgroups /\ r.direction \in Both /\ r.peer = Masked(r.peer)
  BY RuleOfPolicy DEF PlainPrefixes
<1>5. bypasses \in Nat
  <2>1. SelfBypasses(subjects, DOMAIN subjects) \subseteq Cgroups \X Addresses
    BY <1>2, <1>3 DEF SelfBypasses
  <2>2. IsFiniteSet(Cgroups \X Addresses)
    BY CgroupsFinite, AddressesFinite, FS_Product
  <2>3. IsFiniteSet(SelfBypasses(subjects, DOMAIN subjects))
    BY <2>1, <2>2, FS_Subset
  <2>4. Cardinality(SelfBypasses(subjects, DOMAIN subjects)) \in Nat
    BY <2>3, FS_CardinalityType
  <2>5. Cardinality(Input.nodeIPs) \in Nat
    BY InputAssumption, FS_CardinalityType
  <2>. QED  BY <2>4, <2>5 DEF CompilerInv
<1>6. outcome \in {"compiling", "resolution", "capacity", "invalid", "compiled"}
  BY DEF CompilerInv
<1>. QED  BY <1>1, <1>2, <1>3, <1>4, <1>5, <1>6 DEF CompilerTypeOK

\* At the end every policy is compiled.
LEMMA AllCompiled ==
    ASSUME CompilerInv, todo = << >>
    PROVE  Compiled = ToSet(policies) /\ DOMAIN policies = 1 .. Len(policies)
<1>1. policies \in Seq(AllPolicies)
  BY PoliciesAssumption DEF CompilerInv
<1>2. Taken = Len(policies)
  BY <1>1 DEF Taken
<1>. QED  BY <1>1, <1>2 DEF Compiled, Done, ToSet

\* No container of a pod that a policy bears on is left out.
LEMMA LeftOut == ASSUME CompilerInv PROVE NoContainerLeftOut
<1>. SUFFICES ASSUME outcome = "compiled", NEW p \in Pods, NEW i \in DOMAIN policies, p.failure
              PROVE  ~Concerns(policies[i], p)
  BY DEF NoContainerLeftOut
<1>1. policies[i] \in Compiled
  BY AllCompiled DEF CompilerInv, ToSet
<1>. QED  BY <1>1 DEF CompilerInv, Bearing

\* What the compiled rules let pass, and what one policy does.
RulesPass(c, d, a, port) ==
    \E r \in rules : r.cgroup = c /\ r.direction = d /\ r.port = port /\ Holds(r.peer, a)
PolicyPasses(pol, d, a, port) ==
    \E rule \in SpecRules(pol, d) :
        port \in rule.ports /\ \E peer \in rule.peers : PeerMeans(pol, peer, a)

\* The compiled rules let pass what some accepted policy that bears on the pod does.
LEMMA RulesLetPass ==
    ASSUME CompilerInv, Normalized, NEW p \in Pods, NEW c \in p.cgroups,
           NEW d \in Both, NEW a \in Addresses, NEW port
    PROVE  RulesPass(c, d, a, port)
             <=> \E pol \in Compiled :
                    /\ ValidateNativePolicy(pol)
                    /\ p \in Bearing(pol) /\ d \in Directions(pol)
                    /\ PolicyPasses(pol, d, a, port)
<1>1. ASSUME NEW r \in rules, r.cgroup = c, r.direction = d, r.port = port, Holds(r.peer, a)
      PROVE  \E pol \in Compiled :
                /\ ValidateNativePolicy(pol) /\ p \in Bearing(pol) /\ d \in Directions(pol)
                /\ PolicyPasses(pol, d, a, port)
  <2>1. PICK pol \in Compiled : ValidateNativePolicy(pol) /\ r \in RulesFrom(pol)
    BY DEF CompilerInv, RulesAfter
  <2>2. PICK e \in Directions(pol) :
          r \in RulesOf(pol, Bearing(pol), e, SpecRules(pol, e))
    BY <2>1 DEF RulesFrom
  <2>3. PICK rule \in SpecRules(pol, e) :
          r \in [cgroup : CgroupsOf(Bearing(pol)), direction : {e},
                peer : UNION {ResolvePeer(pol, peer) : peer \in rule.peers}, port : rule.ports]
    BY <2>2 DEF RulesOf, CgroupsOf
  <2>4. e = d /\ port \in rule.ports
    BY <1>1, <2>3
  <2>5. PICK peer \in rule.peers : r.peer \in ResolvePeer(pol, peer)
    BY <2>3
  <2>6. PeerMeans(pol, peer, a)
    <3>1. pol \in AllPolicies /\ rule \in pol.spec.ingress \cup pol.spec.egress
      BY CompiledPolicies DEF SpecRules
    <3>. QED  BY <1>1, <2>1, <2>5, <3>1, Resolved
  <2>7. PICK q \in Bearing(pol) : c \in q.cgroups
    BY <1>1, <2>3 DEF CgroupsOf
  <2>8. q = p
    BY <2>7, OwnerIs DEF Bearing
  <2>9. PolicyPasses(pol, d, a, port)
    BY <2>4, <2>5, <2>6 DEF PolicyPasses
  <2>. QED  BY <2>1, <2>4, <2>7, <2>8, <2>9
<1>2. ASSUME NEW pol \in Compiled, ValidateNativePolicy(pol), p \in Bearing(pol),
             d \in Directions(pol), NEW rule \in SpecRules(pol, d), port \in rule.ports,
             NEW peer \in rule.peers, PeerMeans(pol, peer, a)
      PROVE  RulesPass(c, d, a, port)
  <2>1. pol \in AllPolicies /\ rule \in pol.spec.ingress \cup pol.spec.egress
    BY CompiledPolicies DEF SpecRules
  <2>2. PICK x \in ResolvePeer(pol, peer) : Holds(x, a)
    BY <1>2, <2>1, Resolved
  <2>. DEFINE r == [cgroup |-> c, direction |-> d, peer |-> x, port |-> port]
  <2>3. c \in CgroupsOf(Bearing(pol))
    BY <1>2 DEF CgroupsOf
  <2>4. r \in [cgroup : CgroupsOf(Bearing(pol)), direction : {d},
               peer : UNION {ResolvePeer(pol, peer_1) : peer_1 \in rule.peers},
               port : rule.ports]
    BY <1>2, <2>2, <2>3
  <2>5. r \in RulesOf(pol, Bearing(pol), d, SpecRules(pol, d))
    BY <2>4 DEF RulesOf, CgroupsOf
  <2>6. r \in rules
    BY <1>2, <2>5 DEF CompilerInv, RulesAfter, RulesFrom
  <2>. QED  BY <2>2, <2>6 DEF RulesPass
<1>. QED  BY <1>1, <1>2 DEF RulesPass, PolicyPasses

\* The compiled subjects and rules decide as the policies demand.
LEMMA MatchesPolicies == ASSUME CompilerInv PROVE CompiledMatchesPolicies
<1>. SUFFICES ASSUME outcome = "compiled", NEW p \in Pods, p.local /\ ~p.host, NEW c \in p.cgroups,
                     NEW d \in Both, NEW a \in Addresses, NEW port \in PortsUsed
              PROVE  Allows(c, d, a, port) <=> Permits(p, d, a, port)
  BY DEF CompiledMatchesPolicies
<1>1. Normalized /\ todo = << >> /\ subjects = SubjectsAfter(Compiled)
  BY DEF CompilerInv
<1>2. Compiled = ToSet(policies) /\ Compiled \subseteq AllPolicies
  BY <1>1, AllCompiled, CompiledPolicies
<1>3. Owner(c) = p
  BY <1>1, OwnerIs
<1>. DEFINE bearing == {pol \in Compiled : p \in Bearing(pol) /\ d \in Directions(pol)}
<1>4. bearing = {pol \in ToSet(policies) : Concerns(pol, p) /\ Restricts(pol, d)}
  BY <1>2, DirectionsRestrict DEF Bearing
<1>5. c \in DOMAIN subjects <=> \E pol \in Compiled : p \in Bearing(pol)
  <2>1. c \in DOMAIN subjects => \E pol \in Compiled : p \in Bearing(pol)
    BY <1>1, <1>3, SubjectOfPolicy
  <2>. QED  BY <1>1, <2>1 DEF SubjectsAfter, CgroupsOf, PodsAfter
<1>6. c \in DOMAIN subjects => subjects[c] = SubjectAfter(Compiled, p)
  BY <1>1, <1>3, SubjectOfPolicy
<1>7. c \in DOMAIN subjects => (d \in subjects[c].isolated <=> bearing # {})
  BY <1>6 DEF SubjectAfter
<1>8. c \in DOMAIN subjects =>
        (d \notin subjects[c].quarantined
           <=> \A pol \in bearing : ValidateNativePolicy(pol) /\ ~p.ipv6)
  BY <1>6 DEF SubjectAfter
<1>9. c \notin DOMAIN subjects => bearing = {}
  BY <1>5
<1>10. RulesPass(c, d, a, port)
         <=> \E pol \in bearing :
               ValidateNativePolicy(pol) /\ PolicyPasses(pol, d, a, port)
  <2>1. RulesPass(c, d, a, port)
          <=> \E pol \in Compiled :
                 /\ ValidateNativePolicy(pol)
                 /\ p \in Bearing(pol) /\ d \in Directions(pol)
                 /\ PolicyPasses(pol, d, a, port)
    BY <1>1, RulesLetPass
  <2>. QED  BY <2>1
<1>11. Permits(p, d, a, port)
         <=> \/ bearing = {}
             \/ /\ \A pol \in bearing : ValidateNativePolicy(pol)
                /\ ~p.ipv6
                /\ \E pol \in bearing : PolicyPasses(pol, d, a, port)
  BY <1>4 DEF Permits, SpecRules, PolicyPasses
<1>12. Allows(c, d, a, port)
         <=> \/ c \notin DOMAIN subjects
             \/ d \notin subjects[c].isolated
             \/ d \notin subjects[c].quarantined /\ RulesPass(c, d, a, port)
  BY DEF Allows, RulesPass
<1>. HIDE DEF bearing
<1>. QED  BY <1>7, <1>8, <1>9, <1>10, <1>11, <1>12

\* For any snapshot, any lists of policies and any limits: the compiled subjects and rules
\* let pass what the policies let pass, no container of a selected pod is left out, and the
\* boundary check accepts every candidate (CompileNativePolicies,
\* addSelectedSubjects, ValidatePolicySet, ruleEntryCount).
THEOREM CompilerCorrectAlways == CompilerSpec => []CompilerCorrect
<1>1. CompilerInv => CompilerCorrect
  <2>. SUFFICES ASSUME CompilerInv PROVE CompilerCorrect
    OBVIOUS
  <2>1. CandidateAlwaysValid
    BY CandidateValid DEF CandidateAlwaysValid, CompilerInv
  <2>. QED  BY <2>1, CompilerTypes, LeftOut, MatchesPolicies DEF CompilerCorrect
<1>. QED  BY <1>1, CompilerInvariant, PTL
=================================================================================
