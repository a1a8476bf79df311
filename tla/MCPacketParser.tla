---------------------------- MODULE MCPacketParser ----------------------------
(* Packets around every boundary the parser looks at. *)
EXTENDS PacketParser

Lengths == {0, 1, 19, 20, 27, 28, 39, 40, 60, 79, 80, 120}

MCSkbs ==
    [len : Lengths, version : {4}, ihl : {4, 5, 6, 15}, total : Lengths, proto : {"tcp"},
     gso : {1, 2}, frag : BOOLEAN, offset : {0, 4, 5, 6, 15}, udpLength : {0}]
    \cup
    [len : Lengths, version : {4}, ihl : {4, 5, 6, 15}, total : Lengths, proto : {"udp"},
     gso : {2}, frag : BOOLEAN, offset : {0}, udpLength : {0, 7, 8, 9, 20, 60}]
    \cup
    [len : Lengths, version : {4}, ihl : {5, 6}, total : Lengths, proto : {"icmp"},
     gso : {1}, frag : BOOLEAN, offset : {0}, udpLength : {8}]
    \cup
    [len : Lengths, version : {0, 6, 15}, ihl : {5}, total : {40}, proto : {"tcp"},
     gso : {1}, frag : {FALSE}, offset : {5}, udpLength : {0}]
==============================================================================
