------------------------------ MODULE RuleKeys ------------------------------
(***************************************************************************)
(* How policy rules are kept in the kernel: the keys of the map            *)
(* policy_rules, a longest-prefix-match trie that both slots share         *)
(* (internal/enforcer/engine_keys.go), what the packet program looks up in *)
(* it (rule_matches of bpf/engine.c), how a slot is filled and cleared     *)
(* (engine_linux.go), and what a restarted agent reads back                *)
(* (persistence_linux.go).                                                 *)
(*                                                                         *)
(* PolicySlots has the protocol around the two slots, with a policy as one *)
(* value; here the entries have their bits: slot, direction, protocol and  *)
(* port are packed in one word, and the peer is a prefix.                  *)
(*                                                                         *)
(* Simplifications.  The widths of the fields are constants (16-bit ports, *)
(* 8-bit protocols, six unused bits and 32-bit addresses in the code), the *)
(* order in which a slot's keys are written and deleted is any order, and  *)
(* the subject, class and bypass maps, whose keys have a field for each    *)
(* part, are left out.                                                     *)
(***************************************************************************)
EXTENDS Naturals, FiniteSets, Functions

CONSTANTS PortBits, ProtoBits, GapBits, AddressBits,
          Fixed,     \* bits of a key before the peer, 96 in the code
          RuleCgroups,
          Protocols, \* TCP and UDP
          RuleSets,  \* the policies that can be applied, sets of rules
          MaxRules   \* MaxPolicyRules; the map has room for twice as many

DirectionBit == PortBits + ProtoBits + GapBits
SlotBit == DirectionBit + 1

Slots == {0, 1}
Egress == 0
Ingress == 1
PeerAddresses == 0 .. 2 ^ AddressBits - 1
Ports == 1 .. 2 ^ PortBits - 1

Rules == [cgroup : RuleCgroups, direction : {Egress, Ingress}, protocol : Protocols,
          port : Ports, peer : PeerAddresses, bits : 0 .. AddressBits]

\* The policies are sets of rules within the limit, and the fields of a key are
\* wide enough for what is put in them.
ASSUME KeysAssumption ==
    /\ {PortBits, ProtoBits, GapBits, AddressBits, Fixed, MaxRules} \subseteq Nat
    /\ Protocols \subseteq 0 .. 2 ^ ProtoBits - 1
    /\ \A set \in RuleSets : /\ set \subseteq Rules
                             /\ IsFiniteSet(set) /\ Cardinality(set) <= MaxRules

\* The laws of powers of two, up to the widest word and address.
ASSUME PowersOfTwo ==
    /\ 2 ^ 1 = 2
    /\ \A n \in 0 .. SlotBit + 1 + AddressBits : 2 ^ n \in Nat \ {0}
    /\ \A m, n \in 0 .. SlotBit : 2 ^ (m + n) = 2 ^ m * 2 ^ n
    /\ \A n \in 0 .. AddressBits : 2 ^ AddressBits = 2 ^ n * 2 ^ (AddressBits - n)

VARIABLES
    trie,   \* policy_rules: the keys that are present
    active, \* the slot packets are decided with
    counts, \* slotCounts[].rules, in the agent's memory
    pc,     \* "idle", "clear" or "put": at work on the other slot
    left,   \* keys still to delete or to write
    wanted, \* history: the policy each slot is filled with, {} when cleared
    whole   \* history: the slots in which no write or delete is missing

keysVars == <<trie, active, counts, pc, left, wanted, whole>>

(***************************************************************************)
(* Keys.                                                                   *)
(***************************************************************************)
\* The first n bits of an address.
Leading(address, n) == address \div 2 ^ (AddressBits - n)

MaskedPeer(r) == Leading(r.peer, r.bits) * 2 ^ (AddressBits - r.bits)

PrefixLength(r) == Fixed + r.bits

Meta(slot, direction, protocol, port) ==
    slot * 2 ^ SlotBit + direction * 2 ^ DirectionBit + protocol * 2 ^ PortBits + port

EncodePolicyRuleKey(slot, r) ==
    [length |-> PrefixLength(r),
     meta   |-> Meta(slot, r.direction, r.protocol, r.port),
     cgroup |-> r.cgroup,
     peer   |-> MaskedPeer(r)]

EncodePolicySet(slot, set) == {EncodePolicyRuleKey(slot, r) : r \in set}

\* External: a trie has one node for a prefix, and a stored key matches a
\* longer one that begins with its bits.
Matches(key, other) ==
    /\ key.length <= other.length
    /\ key.meta = other.meta /\ key.cgroup = other.cgroup
    /\ Leading(key.peer, key.length - Fixed) = Leading(other.peer, key.length - Fixed)
SameNode(key, other) == key.length = other.length /\ Matches(key, other)

\* The program asks with the destination port, whatever the direction, and
\* with the address at the other end.
RuleMatches(slot, cgroup, direction, packet) ==
    LET key == [length |-> Fixed + AddressBits,
                meta   |-> Meta(slot, direction, packet.protocol, packet.port),
                cgroup |-> cgroup,
                peer   |-> IF direction = Egress THEN packet.destination ELSE packet.source]
    IN  \E k \in trie : Matches(k, key)

\* Mutant: the slot is read from the bit below.
SlotOfDirection(key) == (key.meta \div 2 ^ DirectionBit) % 2

SlotOf(key) == key.meta \div 2 ^ SlotBit
Entries(slot) == {k \in trie : SlotOf(k) = slot}
Other(slot) == 1 - slot

(***************************************************************************)
(* The agent fills and clears the slot that is not active.                 *)
(***************************************************************************)
KeysInit ==
    /\ trie = {} /\ active = 0 /\ counts = [s \in Slots |-> 0]
    /\ pc = "idle" /\ left = {} /\ wanted = [s \in Slots |-> {}]
    /\ whole = Slots

\* ClearSlot collects the keys of the slot, then deletes them.  A slot that is
\* being cleared is not whole.
BeginClear ==
    /\ pc = "idle"
    /\ pc' = "clear" /\ left' = Entries(Other(active))
    /\ whole' = whole \ {Other(active)}
    /\ UNCHANGED <<trie, active, counts, wanted>>

DeleteKey ==
    /\ pc = "clear"
    /\ \E k \in left :
          /\ trie' = {n \in trie : ~ SameNode(n, k)}
          /\ left' = left \ {k}
    /\ UNCHANGED <<active, counts, pc, wanted, whole>>

EndClear ==
    /\ pc = "clear" /\ left = {}
    /\ counts' = [counts EXCEPT ![Other(active)] = 0]
    /\ wanted' = [wanted EXCEPT ![Other(active)] = {}]
    /\ whole' = whole \cup {Other(active)}
    /\ pc' = "idle"
    /\ UNCHANGED <<trie, active, left>>

\* PopulateSlot: only an empty slot is filled, only if the map has room for
\* both slots, and the intended count is stored before the first write.
BeginPopulate(set) ==
    LET slot == Other(active)
        keys == EncodePolicySet(slot, set)
    IN  /\ pc = "idle" /\ counts[slot] = 0
        /\ Cardinality(keys) + counts[active] <= 2 * MaxRules
        /\ counts' = [counts EXCEPT ![slot] = Cardinality(keys)]
        /\ pc' = "put" /\ left' = keys
        /\ wanted' = [wanted EXCEPT ![slot] = set]
        /\ whole' = whole \ {slot}
        /\ UNCHANGED <<trie, active>>

PutKey ==
    /\ pc = "put"
    /\ \E k \in left :
          /\ trie' = {n \in trie : ~ SameNode(n, k)} \cup {k}
          /\ left' = left \ {k}
    /\ UNCHANGED <<active, counts, pc, wanted, whole>>

\* The slot is complete and becomes the active one.
Flip ==
    /\ pc = "put" /\ left = {}
    /\ active' = Other(active)
    /\ whole' = whole \cup {Other(active)}
    /\ pc' = "idle"
    /\ UNCHANGED <<trie, counts, left, wanted>>

\* A delete or a write fails, or the context is cancelled: the count stays.
Fail ==
    /\ pc \in {"clear", "put"}
    /\ pc' = "idle" /\ left' = {}
    /\ UNCHANGED <<trie, active, counts, wanted, whole>>

\* What recovery makes of a key, and the keys it accepts.
DecodeRule(key) ==
    [cgroup    |-> key.cgroup,
     direction |-> (key.meta \div 2 ^ DirectionBit) % 2,
     protocol  |-> (key.meta \div 2 ^ PortBits) % 2 ^ ProtoBits,
     port      |-> key.meta % 2 ^ PortBits,
     peer      |-> key.peer,
     bits      |-> key.length - Fixed]

ValidKey(key) ==
    /\ key.length \in Fixed .. Fixed + AddressBits
    /\ (key.meta \div 2 ^ (PortBits + ProtoBits)) % 2 ^ GapBits = 0

\* The agent dies at any point and the next one counts what it finds.
Restart ==
    /\ pc' = "idle" /\ left' = {}
    /\ counts' = [s \in Slots |-> Cardinality(Entries(s))]
    /\ UNCHANGED <<trie, active, wanted, whole>>

KeysNext ==
    \/ BeginClear \/ DeleteKey \/ EndClear
    \/ \E set \in RuleSets : BeginPopulate(set)
    \/ PutKey \/ Flip \/ Fail \/ Restart

KeysSpec == KeysInit /\ [][KeysNext]_keysVars

(***************************************************************************)
(* Properties.                                                             *)
(***************************************************************************)
\* Every variable has its type, and the keys in the map have a length between
\* that of the fixed part and that of a full key.
KeysTypeOK ==
    /\ \A k \in trie \cup left :
          /\ k.length \in Fixed .. Fixed + AddressBits
          /\ k.meta \in 0 .. 2 ^ (SlotBit + 1) - 1
          /\ k.cgroup \in RuleCgroups /\ k.peer \in PeerAddresses
    /\ active \in Slots /\ counts \in [Slots -> 0 .. MaxRules]
    /\ pc \in {"idle", "clear", "put"}
    /\ wanted \in [Slots -> RuleSets \cup {{}}] /\ whole \subseteq Slots

KeyPackets == [source : PeerAddresses, destination : PeerAddresses, protocol : Protocols, port : Ports]

\* A rule of the policy covers the packet: the reference for the trie.
Covers(r, cgroup, direction, packet) ==
    /\ r.cgroup = cgroup /\ r.direction = direction
    /\ r.protocol = packet.protocol /\ r.port = packet.port
    /\ LET peer == IF direction = Egress THEN packet.destination ELSE packet.source
       IN  Leading(peer, r.bits) = Leading(r.peer, r.bits)

\* A lookup in a slot that is whole finds an entry exactly for the packets a
\* rule of that slot's policy covers, whatever keys of the other slot are in
\* the trie and however often both were filled, cleared in part and refilled.
LookupMatchesRules ==
    \A slot \in whole, cgroup \in RuleCgroups, direction \in {Egress, Ingress}, p \in KeyPackets :
       RuleMatches(slot, cgroup, direction, p)
         <=> \E r \in wanted[slot] : Covers(r, cgroup, direction, p)

\* The count that PopulateSlot checks against the map's size is never less
\* than the entries of the slot, is exact for a slot that is whole, and so the
\* map always has room for the keys still to be written.
CountsCoverEntries ==
    /\ \A slot \in Slots : Cardinality(Entries(slot)) <= counts[slot]
    /\ \A slot \in whole : Cardinality(Entries(slot)) = counts[slot]
    /\ pc = "put" => Cardinality(trie \cup left) <= 2 * MaxRules

\* An agent that starts over this map reads back the active policy, up to the
\* bits a prefix leaves out, and refuses none of its keys.
RecoveredEqualsCommitted ==
    /\ \A k \in trie : ValidKey(k)
    /\ {DecodeRule(k) : k \in Entries(active)}
         = {[r EXCEPT !.peer = Leading(r.peer, r.bits) * 2 ^ (AddressBits - r.bits)] :
              r \in wanted[active]}

\* The keys have legal lengths, words and peers; a lookup in a whole slot finds an entry
\* exactly for the packets its policy covers, whatever the other slot holds; the counts
\* cover the entries and the map always has room; a restarted agent reads the committed
\* policy back (encodePolicyRuleKey, rule_matches, PopulateSlot, ClearSlot,
\* recoverPolicySlots).
KeysExact ==
    KeysTypeOK /\ LookupMatchesRules /\ CountsCoverEntries /\ RecoveredEqualsCommitted
=============================================================================
