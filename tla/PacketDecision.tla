---------------------------- MODULE PacketDecision ----------------------------
(***************************************************************************)
(* enforce_packet (bpf/engine.c): the verdict on one packet of a container *)
(* under a committed policy, and the reply state that verdicts leave for   *)
(* later packets in either direction.                                      *)
(*                                                                         *)
(* A verdict is one step here: PolicySlots shows that a packet sees one    *)
(* whole committed policy, ConnState takes the updates of the reply state  *)
(* apart (idle times, FINs, concurrent packets), PacketParser the parsing. *)
(* Any packet may come to any hook at any time, so loss, duplication and   *)
(* reordering are included.  An address stands for its container's         *)
(* cgroup; a rule's peer is an address, IPBlocks has the prefixes. A       *)
(* packet at the egress hook has the address of its own pod as source:     *)
(* other sources, which the program does not check either, are left out.   *)
(***************************************************************************)
EXTENDS Integers

CONSTANTS
    Endpoints,      \* containers, with the address of their pod
    NodeIPs,        \* addresses of the node
    PolicySets,     \* policies that may be committed: pod -> subject or NoSubject
    Traffic,        \* [src, dst, sport, dport, proto, flag, form]
    MaxEpoch,       \* bound: commits
    NoSubject

Hooks == {"egress", "ingress"}

\* The constants fit together: a policy's rules are records of a hook, a peer,
\* a protocol and a port, and packets are parsed (PacketParser).
ASSUME VerdictAssumption ==
    /\ MaxEpoch \in Nat \ {0}
    /\ \A pkt \in Traffic :
           pkt.form \in {"valid", "malformed", "fragment", "ipv6", "unsupported"}
    /\ \A set \in PolicySets : \A p \in Endpoints : set[p] # NoSubject =>
           \A r \in set[p].rules :
               r = [dir |-> r.dir, peer |-> r.peer, proto |-> r.proto, port |-> r.port]

VARIABLES
    policy,     \* the committed policy
    epoch,      \* its epoch
    conn,       \* conn_state
    granted     \* history: per pod, the conversations a rule has opened in this epoch

verdictVars == <<policy, epoch, conn, granted>>

VerdictInit ==
    /\ policy \in PolicySets /\ epoch = 1
    /\ conn = {} /\ granted = [p \in Endpoints |-> {}]

\* The packet comes to a hook of the pod.
Sees(pod, dir, pkt) == pod = (IF dir = "egress" THEN pkt.src ELSE pkt.dst)
PeerOf(dir, pkt) == IF dir = "egress" THEN pkt.dst ELSE pkt.src

-----------------------------------------------------------------------------
(* Reply state. *)

ConnectionKey(pod, dir, pkt) ==
    [epoch |-> epoch, pod |-> pod, source |-> pkt.src, destination |-> pkt.dst,
     sport |-> pkt.sport, dport |-> pkt.dport, proto |-> pkt.proto, dir |-> dir]

\* Mutant: the ports stay where they are.
ReverseKeySamePorts(key) ==
    [key EXCEPT !.source = key.destination, !.destination = key.source,
                !.dir = IF key.dir = "egress" THEN "ingress" ELSE "egress"]
ReverseKey(key) ==
    [key EXCEPT !.source = key.destination, !.destination = key.source,
                !.sport = key.dport, !.dport = key.sport,
                !.dir = IF key.dir = "egress" THEN "ingress" ELSE "egress"]

\* connection_state_key: one entry for both directions, oriented as ingress.
StateKey(key) == IF key.dir = "egress" THEN ReverseKey(key) ELSE key

KeyOf(pod, dir, pkt) == StateKey(ConnectionKey(pod, dir, pkt))
NewHandshake(pkt) == pkt.proto = "tcp" /\ pkt.flag = "syn"
Reset(pkt) == pkt.proto = "tcp" /\ pkt.flag = "rst"

\* allow_connection_state
ConnectionAllows(pod, dir, pkt) == ~NewHandshake(pkt) /\ KeyOf(pod, dir, pkt) \in conn

RuleAllows(pod, dir, pkt) ==
    [dir |-> dir, peer |-> PeerOf(dir, pkt), proto |-> pkt.proto, port |-> pkt.dport]
        \in policy[pod].rules

-----------------------------------------------------------------------------
(* The verdict. *)

\* is_node_address and is_self_address, for valid packets only.
Bypassed(pod, dir, pkt) ==
    pkt.form = "valid" /\ (PeerOf(dir, pkt) \in NodeIPs \/ (pkt.src = pkt.dst /\ pkt.src = pod))

\* The reason of the decision, by the first test of enforce_packet that applies.
Reason(pod, dir, pkt) ==
    IF policy[pod] = NoSubject THEN "no subject"
    ELSE IF dir \notin policy[pod].isolated THEN "unisolated"
    ELSE IF Bypassed(pod, dir, pkt) THEN "bypass"
    ELSE IF dir \in policy[pod].quarantined THEN "quarantine"
    ELSE IF pkt.form # "valid" THEN pkt.form
    ELSE IF ConnectionAllows(pod, dir, pkt) THEN "connection"
    ELSE IF RuleAllows(pod, dir, pkt) THEN "rule" ELSE "default deny"

AllowingReasons == {"no subject", "unisolated", "bypass", "connection", "rule"}
Allowed(pod, dir, pkt) == Reason(pod, dir, pkt) \in AllowingReasons

Conversation(dir, pkt) ==
    [peer |-> PeerOf(dir, pkt), proto |-> pkt.proto,
     own |-> IF dir = "egress" THEN pkt.sport ELSE pkt.dport,
     theirs |-> IF dir = "egress" THEN pkt.dport ELSE pkt.sport]

\* A verdict that leaves the reply state alone.
Decide(pod, dir, pkt) ==
    /\ Reason(pod, dir, pkt) \notin {"connection", "rule"}
    /\ UNCHANGED verdictVars

\* allow_connection_state lets a reply pass; a reset ends the conversation.
AllowReply(pod, dir, pkt) ==
    /\ Reason(pod, dir, pkt) = "connection"
    /\ conn' = IF Reset(pkt) THEN conn \ {KeyOf(pod, dir, pkt)} ELSE conn
    /\ granted' = IF Reset(pkt) THEN [granted EXCEPT ![pod] = @ \ {Conversation(dir, pkt)}]
                  ELSE granted
    /\ UNCHANGED <<policy, epoch>>

\* A rule lets the packet pass: remember_reverse_connection.
AllowByRule(pod, dir, pkt) ==
    /\ Reason(pod, dir, pkt) = "rule"
    /\ IF Reset(pkt)
       THEN /\ conn' = conn \ {KeyOf(pod, dir, pkt)}
            /\ granted' = [granted EXCEPT ![pod] = @ \ {Conversation(dir, pkt)}]
       ELSE /\ conn' = conn \cup {KeyOf(pod, dir, pkt)}
            /\ granted' = [granted EXCEPT ![pod] = @ \cup {Conversation(dir, pkt)}]
    /\ UNCHANGED <<policy, epoch>>

\* An entry is evicted or expires.
Forget(key) ==
    /\ conn' = conn \ {key}
    /\ granted' = [granted EXCEPT ![key.pod] = {g \in @ :
            ~(key.epoch = epoch /\ g = [peer |-> key.source, proto |-> key.proto,
                                        own |-> key.dport, theirs |-> key.sport])}]
    /\ UNCHANGED <<policy, epoch>>

CommitPolicy ==
    /\ epoch < MaxEpoch
    /\ \E s \in PolicySets \ {policy} : policy' = s
    /\ epoch' = epoch + 1
    /\ granted' = [p \in Endpoints |-> {}]
    /\ UNCHANGED conn

VerdictNext ==
    \/ \E pod \in Endpoints, dir \in Hooks, pkt \in Traffic :
        /\ Sees(pod, dir, pkt)
        /\ Decide(pod, dir, pkt) \/ AllowReply(pod, dir, pkt) \/ AllowByRule(pod, dir, pkt)
    \/ \E key \in conn : Forget(key)
    \/ CommitPolicy

VerdictSpec == VerdictInit /\ [][VerdictNext]_verdictVars

-----------------------------------------------------------------------------
(* Properties. *)

VerdictTypeOK ==
    /\ policy \in PolicySets /\ epoch \in 1 .. MaxEpoch
    /\ \A key \in conn : /\ key.epoch <= epoch /\ key.pod \in Endpoints
                         /\ key.dir = "ingress" /\ key.destination = key.pod

\* What the policies promise for one packet at one hook.
Documented(pod, dir, pkt) ==
    LET subject == policy[pod]
    IN  \/ subject = NoSubject
        \/ dir \notin subject.isolated
        \/ /\ pkt.form = "valid"
           /\ \/ PeerOf(dir, pkt) \in NodeIPs
              \/ pkt.src = pod /\ pkt.dst = pod
              \/ /\ dir \notin subject.quarantined
                 /\ \/ \E r \in subject.rules :
                         /\ r.dir = dir /\ r.peer = PeerOf(dir, pkt)
                         /\ r.proto = pkt.proto /\ r.port = pkt.dport
                    \/ ~NewHandshake(pkt) /\ Conversation(dir, pkt) \in granted[pod]

\* After any history of packets, evictions and commits the verdict is the documented one:
\* an isolated direction passes only whole TCP and UDP packets, of the node, of the pod
\* itself, of a rule, or of a conversation that a rule has opened under this very policy
\* and that no reset has ended; quarantine leaves the exceptions (enforce_packet).
VerdictsAsDocumented ==
    \A pod \in Endpoints, dir \in Hooks, pkt \in Traffic :
        Sees(pod, dir, pkt) => (Allowed(pod, dir, pkt) <=> Documented(pod, dir, pkt))

\* Once rules at both ends have let a packet pass, what comes back passes both ends
\* without rules of its own, unless it opens a connection (remember_reverse_connection).
RepliesPassBothEnds ==
    \A there \in Traffic, back \in Traffic :
        (/\ back.src = there.dst /\ back.dst = there.src /\ back.src # back.dst
         /\ back.sport = there.dport /\ back.dport = there.sport /\ back.proto = there.proto
         /\ {back.src, back.dst} \subseteq Endpoints
         /\ back.form = "valid" /\ ~NewHandshake(back)
         /\ Conversation("egress", there) \in granted[there.src]
         /\ Conversation("ingress", there) \in granted[there.dst]
         /\ \A p \in {there.src, there.dst} : policy[p].quarantined = {})
        => Allowed(back.src, "egress", back) /\ Allowed(back.dst, "ingress", back)

\* Reply state is kept for pods, oriented as ingress; after any history the verdict is
\* the documented one, also after a commit has taken the reply state of earlier policies
\* out of use; replies pass the hooks of both ends without a rule (enforce_packet,
\* remember_reverse_connection, connection_key_for).
VerdictsExact == VerdictTypeOK /\ VerdictsAsDocumented /\ RepliesPassBothEnds
==============================================================================
