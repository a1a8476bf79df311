--------------------------- MODULE MCPolicyCompiler ---------------------------
(* Instance of PolicyCompiler for TLC: a node with two pods and a host-network pod
   in n1, a pod of n2 with an unresolved container, and a remote pod of n2.  Every
   policy of the template alone, and next to each of a few companions. *)
EXTENDS PolicyCompiler

Pod(ns, label, ips) ==
    [ns |-> ns, label |-> label, ips |-> ips, ipv6 |-> FALSE, cgroups |-> {},
     failure |-> FALSE, local |-> TRUE, host |-> FALSE]

MCInput ==
    [nodeIPs |-> {3},
     nsLabel |-> [n \in {"n1", "n2"} |-> IF n = "n1" THEN "p" ELSE "q"],
     pods |-> {[Pod("n1", "x", {0}) EXCEPT !.cgroups = {11, 12}],
               [Pod("n1", "y", {1}) EXCEPT !.cgroups = {13}, !.ipv6 = TRUE],
               [Pod("n1", "y", {3}) EXCEPT !.host = TRUE],
               [Pod("n2", "y", {}) EXCEPT !.failure = TRUE],
               [Pod("n2", "z", {2}) EXCEPT !.cgroups = {14}],
               [Pod("n2", "x", {1, 2}) EXCEPT !.local = FALSE]}]

Peer(pods, namespaces, block) == [pods |-> pods, namespaces |-> namespaces, block |-> block]
Block(addr, bits, excepts) == [base |-> [addr |-> addr, bits |-> bits], excepts |-> excepts]
PolicyRule(peers, ports) == [peers |-> peers, ports |-> ports]

FromPods == PolicyRule({Peer({"x"}, Absent, Absent)}, {"80"})
FromNamespace == PolicyRule({Peer(Absent, {"q"}, Absent), Peer({"y"}, {"p"}, Absent)}, {"53"})
ToBlock == PolicyRule({Peer(Absent, Absent, Block(1, 0, <<[addr |-> 2, bits |-> 4]>>)),
                       Peer(Absent, Absent, Block(1, 3, << >>))}, {"53", "80"})
NoPorts == PolicyRule({Peer({"x"}, Absent, Absent)}, {})
Mixed == PolicyRule({Peer({"x"}, Absent, Block(0, 3, << >>))}, {"80"})
OddPort == PolicyRule({Peer({"x"}, Absent, Absent)}, {BadPort})

Policy(ns, selector, types, ingress, egress) ==
    [ns |-> ns, metadata |-> "ok",
     spec |-> [selector |-> selector, types |-> types, ingress |-> ingress, egress |-> egress]]

Template ==
    {Policy("n1", selector, types, ingress, egress) :
        selector \in {{"x"}, {"x", "y"}, Absent, Bad},
        types \in {Absent, << >>, <<"ingress">>, <<"egress">>, <<"egress", "ingress">>,
                   <<"ingress", "ingress">>, <<"other">>},
        ingress \in {{}, {FromPods}, {FromNamespace, FromPods}, {NoPorts}},
        egress \in {{}, {ToBlock}, {Mixed}, {OddPort}}}

Companions ==
    {Policy("n1", {"y"}, <<"ingress">>, {FromPods}, {}),
     Policy("n1", {"x"}, <<"egress">>, {}, {ToBlock}),
     Policy("n1", {"x"}, Absent, {FromNamespace}, {}),
     Policy("n1", {"x"}, << >>, {}, {}),
     Policy("n2", {"z"}, Absent, {FromPods}, {}),
     Policy("n2", {"y", "z"}, Absent, {}, {}),
     [ns |-> "n2", metadata |-> "ok", spec |-> Absent],
     [ns |-> "n1", metadata |-> "bad", spec |-> Policy("n1", {"x"}, <<"egress">>, {}, {}).spec]}

MCPolicies ==
    {<< >>} \cup {<<t>> : t \in Template}
    \cup {<<c, d>> : c \in Companions, d \in Companions}
    \cup {<<t, c>> : t \in Template, c \in Companions}
    \cup {<<c, t>> : t \in Template, c \in Companions}
==============================================================================
