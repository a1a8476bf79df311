--------------------------- MODULE MCPacketDecision ---------------------------
(* Two pods that talk to each other, to the node and to themselves, under policies that *)
(* isolate one or both of them, with and without quarantine and reverse rules.          *)
EXTENDS PacketDecision

CONSTANTS a, b, n

BothWays == {"egress", "ingress"}

Pkt(src, dst, sport, dport, proto, flag, form) ==
    [src |-> src, dst |-> dst, sport |-> sport, dport |-> dport, proto |-> proto,
     flag |-> flag, form |-> form]

Client == 2
Server == 1

MCPackets ==
    {Pkt(a, b, Client, Server, "tcp", f, "valid") : f \in {"syn", "data", "rst"}}
    \cup {Pkt(b, a, Server, Client, "tcp", f, "valid") : f \in {"syn", "data", "rst"}}
    \cup {Pkt(a, b, Client, Server, "udp", "data", "valid"),
          Pkt(b, a, Server, Client, "udp", "data", "valid"),
          Pkt(b, a, Client, Server, "tcp", "data", "valid"),
          Pkt(a, n, Client, Server, "tcp", "syn", "valid"),
          Pkt(n, a, Client, Server, "udp", "data", "valid"),
          Pkt(a, a, Client, Server, "tcp", "syn", "valid")}
    \cup {Pkt(n, a, Client, Server, "tcp", "data", form) :
            form \in {"malformed", "fragment", "ipv6", "unsupported"}}
    \cup {Pkt(a, b, Client, Server, "tcp", "data", form) : form \in {"fragment", "malformed"}}

PodRule(dir, peer, proto) == [dir |-> dir, peer |-> peer, proto |-> proto, port |-> Server]
PodSubject(isolated, quarantined, rules) ==
    [isolated |-> isolated, quarantined |-> quarantined, rules |-> rules]

ToPeer(peer) == {PodRule("egress", peer, "tcp"), PodRule("egress", peer, "udp")}
FromPeer(peer) == {PodRule("ingress", peer, "tcp"), PodRule("ingress", peer, "udp")}

MCPolicySets ==
    LET subjects == {<<NoSubject, PodSubject(BothWays, {}, FromPeer(a))>>,
                     <<PodSubject(BothWays, {}, ToPeer(b)), PodSubject(BothWays, {}, FromPeer(a))>>,
                     <<PodSubject({"ingress"}, {}, {}), PodSubject({"ingress"}, {}, FromPeer(a))>>,
                     <<PodSubject(BothWays, {}, ToPeer(b)), PodSubject(BothWays, {"ingress"}, FromPeer(a))>>,
                     <<PodSubject(BothWays, BothWays, {}), NoSubject>>,
                     <<PodSubject({"egress"}, {}, ToPeer(b) \cup ToPeer(n)), PodSubject(BothWays, {}, {})>>}
    IN  {[p \in {a, b} |-> IF p = a THEN s[1] ELSE s[2]] : s \in subjects}
==============================================================================
