----------------------------- MODULE PacketParser -----------------------------
(***************************************************************************)
(* parse_packet (bpf/engine.c): which packets count as valid TCP or UDP    *)
(* over IPv4, and why the others do not.  A packet is the fields the       *)
(* parser reads, with their real sizes; header words of four bytes.        *)
(***************************************************************************)
EXTENDS Integers

\* [len, version, ihl, total, proto, gso, frag, offset, udpLength]: skb->len and
\* skb->gso_segs, the IPv4 fields, the TCP data offset and the UDP length.
CONSTANT Skbs

\* The types of the fields; the header length has four bits.
ASSUME SkbAssumption ==
    \A s \in Skbs : /\ {s.len, s.total, s.gso, s.offset, s.udpLength} \subseteq Nat
                    /\ s.ihl \in 0 .. 15 /\ s.frag \in BOOLEAN

IPv4Header == 20
IPv6Header == 40
TCPHeader == 20
UDPHeader == 8

\* bpf_skb_load_bytes
Loads(skb, from, size) == from + size <= skb.len

HeaderLength(skb) == skb.ihl * 4

\* Mutant: the length of every segmented packet is taken from the skb.
TotalLengthDeclared(skb) ==
    IF skb.proto = "tcp" /\ skb.gso > 1 THEN skb.len ELSE skb.total
\* The datagram's length, which TCP segmentation may not have filled in yet.
TotalLength(skb) ==
    IF skb.proto = "tcp" /\ skb.gso > 1 /\ skb.total < HeaderLength(skb) + TCPHeader
    THEN skb.len
    ELSE skb.total

IPv4LengthsFit(skb) ==
    /\ IPv4Header <= HeaderLength(skb) /\ HeaderLength(skb) <= 60
    /\ HeaderLength(skb) <= TotalLength(skb)
    /\ TotalLength(skb) <= skb.len

TransportFits(skb, minimum, length) ==
    /\ TotalLength(skb) >= HeaderLength(skb) + minimum
    /\ Loads(skb, HeaderLength(skb), minimum)
    /\ minimum <= length /\ length <= TotalLength(skb) - HeaderLength(skb)

ParsePacket(skb) ==
    CASE skb.len < 1 -> "malformed"
      [] skb.len >= 1 /\ skb.version = 6 ->
            IF Loads(skb, 0, IPv6Header) THEN "ipv6" ELSE "malformed"
      [] skb.len >= 1 /\ skb.version \notin {4, 6} -> "malformed"
      [] skb.len >= 1 /\ skb.version = 4 ->
            IF ~Loads(skb, 0, IPv4Header) \/ ~IPv4LengthsFit(skb) THEN "malformed"
            ELSE IF skb.frag THEN "fragment"
            ELSE IF skb.proto = "tcp"
                 THEN IF TransportFits(skb, TCPHeader, skb.offset * 4) THEN "valid" ELSE "malformed"
            ELSE IF skb.proto = "udp"
                 THEN IF TransportFits(skb, UDPHeader, skb.udpLength) THEN "valid" ELSE "malformed"
            ELSE "unsupported"

VARIABLES skb, status
parserVars == <<skb, status>>

ParserInit == skb \in Skbs /\ status = "new"
Parse == status = "new" /\ status' = ParsePacket(skb) /\ UNCHANGED skb
ParserNext == Parse
ParserSpec == ParserInit /\ [][ParserNext]_parserVars

-----------------------------------------------------------------------------
(* Properties. *)

\* The bytes of the transport header, and for UDP of its payload.
TransportBytes ==
    HeaderLength(skb) .. HeaderLength(skb)
        + (IF skb.proto = "tcp" THEN skb.offset * 4 ELSE skb.udpLength) - 1

\* A packet is valid only if every header byte lies in the packet, behind a whole IPv4
\* header that does not overlap it, and within the datagram unless TCP segmentation has
\* yet to state its length (parse_packet).
ValidIsWhole ==
    status = "valid" =>
        /\ TransportBytes # {}
        /\ TransportBytes \subseteq IPv4Header .. skb.len - 1
        /\ (skb.gso <= 1 \/ skb.proto # "tcp" \/ skb.total >= HeaderLength(skb) + TCPHeader) =>
               TransportBytes \subseteq IPv4Header .. skb.total - 1
        /\ ~skb.frag

\* Nothing well formed is refused: an unfragmented TCP or UDP datagram that fills the
\* packet, or part of it, is valid, however long its options (parse_packet).
WellFormedIsValid ==
    (/\ status # "new" /\ skb.version = 4 /\ ~skb.frag /\ skb.proto \in {"tcp", "udp"}
     /\ skb.ihl >= 5 /\ skb.total <= skb.len
     /\ TransportBytes \subseteq 0 .. skb.total - 1
     /\ IF skb.proto = "tcp" THEN skb.offset >= 5 ELSE skb.udpLength >= UDPHeader)
    => status = "valid"

\* A packet taken for valid has every byte of its headers where they are read, and no
\* well-formed TCP or UDP packet is refused (parse_packet).
ParserExact == ValidIsWhole /\ WellFormedIsValid
==============================================================================
