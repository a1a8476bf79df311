----------------------------- MODULE MCConnState -----------------------------
(* Instance of ConnState for TLC: one TCP and one UDP conversation of a local
   endpoint x with a peer y.  In epoch 1 the client side is allowed to open both,
   in epoch 2 only the peer may open the TCP conversation. *)
EXTENDS ConnState, TLC

Packet(src, dst, proto, dir) == [src |-> src, dst |-> dst, proto |-> proto, dir |-> dir]
Out(proto) == Packet("x", "y", proto, "egress")
In(proto) == Packet("y", "x", proto, "ingress")

MixedPackets == {Out("tcp"), In("tcp"), Out("udp")}
MCRules == {KeyFor(1, Out("tcp")), KeyFor(1, Out("udp")), KeyFor(2, In("tcp"))}

Symmetry == Permutations(CPUs) \cup Permutations(Elems)
==============================================================================
