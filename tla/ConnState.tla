------------------------------- MODULE ConnState -------------------------------
(***************************************************************************)
(* The reply state of the packet programs (bpf/engine.c): packets of one   *)
(* connection are handled on several CPUs at once, and every lookup, map   *)
(* update and atomic operation on an entry is a step of its own.           *)
(*                                                                         *)
(* conn_state is a preallocated LRU hash: deleting or evicting an entry    *)
(* frees its element at once, and the element may serve another key while  *)
(* a CPU still holds a pointer to it.  The elements are therefore explicit *)
(* here, and `table' says which key each of them serves.                   *)
(*                                                                         *)
(* Simplifications: an endpoint is an address with its port; one cgroup;   *)
(* only the TCP flags the code tells apart; the policy is the constant     *)
(* RuleMatches; packets of other verdicts (unisolated, bypassed,           *)
(* quarantined) never get here; copying a new value into an element is     *)
(* one step.  No two packets read the same nanosecond: the clock moves by  *)
(* Tick whenever one is read.  A packet is handled within MaxLag of its    *)
(* reading, which is far below the refresh interval.                       *)
(***************************************************************************)
EXTENDS Naturals, FiniteSets

CONSTANTS
    CPUs,
    Elems,              \* elements of the LRU hash
    Packets,            \* [src, dst, proto, dir]
    RuleMatches,        \* the [epoch, packet] pairs that a policy rule matches
    TCPIdle, TCPClosing, UDPIdle, RefreshInterval,
    Tick, MaxLag,
    MaxNow, MaxEpoch,   \* bounds of the model
    None

ASSUME TimesAssumption ==
    /\ {TCPIdle, TCPClosing, UDPIdle, RefreshInterval, Tick, MaxEpoch} \subseteq Nat \ {0}
    /\ {MaxLag, MaxNow} \subseteq Nat
    /\ RefreshInterval <= TCPIdle /\ RefreshInterval <= UDPIdle
    /\ MaxLag < RefreshInterval
ASSUME ElemsAssumption == Elems # {} /\ IsFiniteSet(Elems) /\ None \notin Elems

Both == {"egress", "ingress"}
ASSUME PacketsAssumption ==
    \A p \in Packets :
        /\ p = [src |-> p.src, dst |-> p.dst, proto |-> p.proto, dir |-> p.dir]
        /\ p.dir \in Both

Flags == {"ack", "syn", "fin", "rst"}

\* A packet's key: its tuple and direction in the epoch it was classified in.
KeyFor(epoch, p) == [epoch |-> epoch, packet |-> p]

Flip(dir) == IF dir = "egress" THEN "ingress" ELSE "egress"

ReverseKey(k) ==
    [k EXCEPT !.packet.src = k.packet.dst, !.packet.dst = k.packet.src,
              !.packet.dir = Flip(k.packet.dir)]

\* Mutant: the entry survives a change of the policy.
EpochIgnored(k) ==
    [(IF k.packet.dir = "egress" THEN ReverseKey(k) ELSE k) EXCEPT !.epoch = 1]
\* One entry serves both directions: the tuple is oriented as ingress.
StateKey(k) == IF k.packet.dir = "egress" THEN ReverseKey(k) ELSE k

Epochs == 1 .. MaxEpoch
Keys == {KeyFor(e, p) : e \in Epochs, p \in Packets}
StateKeys == {StateKey(k) : k \in Keys}
IdleOf(k) == IF k.packet.proto = "tcp" THEN TCPIdle ELSE UDPIdle

VARIABLES
    clock, epoch,
    table,      \* conn_state: state key -> element or None
    expires,    \* element -> expires_at_ns
    fins,       \* element -> tcp_fin_directions
    cpu,        \* CPU -> the packet it handles and how far it is
    opened,     \* history: keys of the packets a rule allowed
    closedAt,   \* history: element -> the time its second FIN was recorded
    tied        \* history: elements whose closing expiry a pending refresh had read before

vars == <<clock, epoch, table, expires, fins, cpu, opened, closedAt, tied>>

Idle == [pc |-> "idle", key |-> None, flag |-> "ack", now |-> 0,
         elem |-> None, expiry |-> 0, reply |-> FALSE]

PCs == {"idle", "lookup", "rule", "live", "reset", "drop", "recall", "fins", "close",
        "expiry", "recheck", "cas", "install"}
MaxExpiry == MaxNow + TCPIdle + TCPClosing + UDPIdle

TypeOK ==
    /\ clock \in 0 .. MaxNow /\ epoch \in Epochs
    /\ table \in [StateKeys -> Elems \cup {None}]
    /\ expires \in [Elems -> 0 .. MaxExpiry]
    /\ fins \in [Elems -> SUBSET Both]
    /\ cpu \in [CPUs -> [pc : PCs, key : Keys \cup {None}, flag : Flags, now : 0 .. MaxNow,
                         elem : Elems \cup {None}, expiry : 0 .. MaxExpiry, reply : BOOLEAN]]
    /\ opened \subseteq Keys
    /\ closedAt \in [Elems -> 0 .. MaxNow]
    /\ tied \subseteq Elems
    /\ \A c \in CPUs : cpu[c].pc \in {"live", "fins", "close", "expiry", "recheck", "cas"}
            => cpu[c].elem # None

Init ==
    /\ clock = 0 /\ epoch = 1
    /\ table = [k \in StateKeys |-> None]
    /\ expires = [e \in Elems |-> 0]
    /\ fins = [e \in Elems |-> {}]
    /\ cpu = [c \in CPUs |-> Idle]
    /\ opened = {}
    /\ closedAt = [e \in Elems |-> 0]
    /\ tied = {}

TCP(c) == cpu[c].key.packet.proto = "tcp"
Goto(c, pc) == cpu' = [cpu EXCEPT ![c].pc = pc]
Ends(c) == cpu' = [cpu EXCEPT ![c] = Idle]

-----------------------------------------------------------------------------
Later == clock + Tick
InTime == Later <= MaxNow /\ \A c \in CPUs : cpu[c].pc # "idle" => Later <= cpu[c].now + MaxLag

\* Time passes, and the agent activates another policy.
Advance ==
    /\ InTime
    /\ clock' = Later
    /\ UNCHANGED <<epoch, table, expires, fins, cpu, opened, closedAt, tied>>

NewEpoch ==
    /\ epoch < MaxEpoch
    /\ epoch' = epoch + 1
    /\ UNCHANGED <<clock, table, expires, fins, cpu, opened, closedAt, tied>>

\* A valid packet in an isolated direction reaches allow_connection_state; a
\* new handshake is never reply traffic.
Arrive(c) ==
    /\ cpu[c].pc = "idle" /\ InTime
    /\ clock' = Later
    /\ \E p \in Packets, f \in Flags :
        /\ p.proto = "udp" => f = "ack"
        /\ cpu' = [cpu EXCEPT ![c] = [Idle EXCEPT !.key = KeyFor(epoch, p), !.flag = f,
                                                  !.now = Later,
                                                  !.pc = IF f = "syn" THEN "rule" ELSE "lookup"]]
    /\ UNCHANGED <<epoch, table, expires, fins, opened, closedAt, tied>>

\* allow_connection_state looks its entry up ...
LookupReply(c) ==
    /\ cpu[c].pc = "lookup"
    /\ LET e == table[StateKey(cpu[c].key)]
       IN  cpu' = [cpu EXCEPT ![c] = [@ EXCEPT !.elem = e, !.reply = (e # None),
                                               !.pc = IF e = None THEN "rule" ELSE "live"]]
    /\ UNCHANGED <<clock, epoch, table, expires, fins, opened, closedAt, tied>>

\* ... and reads its expiry, as remember_reverse_connection does after its lookup.
ReadLive(c) ==
    /\ cpu[c].pc = "live"
    /\ IF expires[cpu[c].elem] <= cpu[c].now
       THEN cpu' = [cpu EXCEPT ![c] = [@ EXCEPT
                     !.elem = None, !.reply = FALSE,
                     !.pc = IF cpu[c].reply THEN "rule" ELSE "install"]]
       ELSE Goto(c, IF cpu[c].flag = "rst" THEN "reset" ELSE "fins")
    /\ UNCHANGED <<clock, epoch, table, expires, fins, opened, closedAt, tied>>

\* A reset deletes the entry, whether it is a reply or allowed by a rule.
Reset(c) ==
    /\ cpu[c].pc = "reset"
    /\ table' = [table EXCEPT ![StateKey(cpu[c].key)] = None]
    /\ Ends(c)
    /\ UNCHANGED <<clock, epoch, expires, fins, opened, closedAt, tied>>

\* No live entry: the packet needs a rule, or is denied.
Deny(c) ==
    /\ cpu[c].pc = "rule" /\ cpu[c].key \notin RuleMatches
    /\ Ends(c)
    /\ UNCHANGED <<clock, epoch, table, expires, fins, opened, closedAt, tied>>

Allow(c) ==
    /\ cpu[c].pc = "rule" /\ cpu[c].key \in RuleMatches
    /\ opened' = opened \cup {cpu[c].key}
    /\ Goto(c, CASE cpu[c].flag = "rst" -> "reset"
                 [] cpu[c].flag = "syn" -> "drop"
                 [] OTHER -> "recall")
    /\ UNCHANGED <<clock, epoch, table, expires, fins, closedAt, tied>>

\* An allowed handshake replaces any previous use of the tuple.
Drop(c) ==
    /\ cpu[c].pc = "drop"
    /\ table' = [table EXCEPT ![StateKey(cpu[c].key)] = None]
    /\ Goto(c, "recall")
    /\ UNCHANGED <<clock, epoch, expires, fins, opened, closedAt, tied>>

Recall(c) ==
    /\ cpu[c].pc = "recall"
    /\ LET e == table[StateKey(cpu[c].key)]
       IN  cpu' = [cpu EXCEPT ![c] = [@ EXCEPT
                     !.elem = e, !.pc = IF e = None THEN "install" ELSE "live"]]
    /\ UNCHANGED <<clock, epoch, table, expires, fins, opened, closedAt, tied>>

\* Elements that serve no key; when there is none, an entry is evicted for its element.
FreeElems == Elems \ {table[k] : k \in StateKeys}
Unlinked(e) == [k \in StateKeys |-> IF table[k] = e THEN None ELSE table[k]]

\* The packet's own direction has sent its FIN already, if it is one.
OwnFin(c) == IF TCP(c) /\ cpu[c].flag = "fin" THEN {cpu[c].key.packet.dir} ELSE {}

Install(c) ==
    /\ cpu[c].pc = "install"
    /\ \E e \in (IF FreeElems # {} THEN FreeElems ELSE Elems) :
        /\ table' = [Unlinked(e) EXCEPT ![StateKey(cpu[c].key)] = e]
        /\ expires' = [expires EXCEPT ![e] = cpu[c].now + IdleOf(cpu[c].key)]
        /\ fins' = [fins EXCEPT ![e] = OwnFin(c)]
        /\ closedAt' = [closedAt EXCEPT ![e] = 0]
        /\ tied' = tied \ {e}
    /\ Ends(c)
    /\ UNCHANGED <<clock, epoch, opened>>

-----------------------------------------------------------------------------
(* refresh_connection, one atomic operation per step. *)

\* fetch_or of the packet's FIN; the CPU that completes the pair goes on to shorten
\* the expiry.
MarkFins(c) ==
    /\ cpu[c].pc = "fins"
    /\ LET e == cpu[c].elem
           after == fins[e] \cup OwnFin(c)
       IN  /\ fins' = [fins EXCEPT ![e] = after]
           /\ closedAt' = IF fins[e] # Both /\ after = Both
                           THEN [closedAt EXCEPT ![e] = clock] ELSE closedAt
           /\ IF after = Both
              THEN IF fins[e] # Both THEN Goto(c, "close") ELSE Ends(c)
              ELSE Goto(c, "expiry")
    /\ UNCHANGED <<clock, epoch, table, expires, opened, tied>>

\* A refresh of the same entry is about to compare, and the expiry it has read is, to
\* the nanosecond, the one that this close writes.
Ties(c) ==
    \E d \in CPUs :
        /\ cpu[d].pc = "cas" /\ cpu[d].elem = cpu[c].elem
        /\ cpu[d].expiry = cpu[c].now + TCPClosing

\* The CPU that recorded the second FIN sets the closing interval.
Close(c) ==
    /\ cpu[c].pc = "close"
    /\ expires' = [expires EXCEPT ![cpu[c].elem] = cpu[c].now + TCPClosing]
    /\ tied' = IF Ties(c) THEN tied \cup {cpu[c].elem} ELSE tied
    /\ Ends(c)
    /\ UNCHANGED <<clock, epoch, table, fins, opened, closedAt>>

\* An entry refreshed less than RefreshInterval ago is left alone.
ReadExpiry(c) ==
    /\ cpu[c].pc = "expiry"
    /\ LET x == expires[cpu[c].elem]
       IN  IF x > cpu[c].now + (IdleOf(cpu[c].key) - RefreshInterval)
           THEN Ends(c)
           ELSE cpu' = [cpu EXCEPT ![c] = [@ EXCEPT !.expiry = x, !.pc = "recheck"]]
    /\ UNCHANGED <<clock, epoch, table, expires, fins, opened, closedAt, tied>>

\* The FIN bits are read again after the expiry ...
Recheck(c) ==
    /\ cpu[c].pc = "recheck"
    /\ IF fins[cpu[c].elem] = Both THEN Ends(c) ELSE Goto(c, "cas")
    /\ UNCHANGED <<clock, epoch, table, expires, fins, opened, closedAt, tied>>

\* Mutant: the refresh is stored without comparing.
StoreBlindly(c) ==
    /\ cpu[c].pc = "cas"
    /\ expires' = [expires EXCEPT ![cpu[c].elem] = cpu[c].now + IdleOf(cpu[c].key)]
    /\ Ends(c)
    /\ UNCHANGED <<clock, epoch, table, fins, opened, closedAt, tied>>
\* ... and the refresh takes place only if the expiry is still the one that was read.
CompareAndSwap(c) ==
    /\ cpu[c].pc = "cas"
    /\ expires' = IF expires[cpu[c].elem] = cpu[c].expiry
                  THEN [expires EXCEPT ![cpu[c].elem] = cpu[c].now + IdleOf(cpu[c].key)]
                  ELSE expires
    /\ Ends(c)
    /\ UNCHANGED <<clock, epoch, table, fins, opened, closedAt, tied>>

Next ==
    \/ Advance
    \/ NewEpoch
    \/ \E c \in CPUs :
        \/ Arrive(c) \/ LookupReply(c) \/ ReadLive(c) \/ Reset(c) \/ Deny(c) \/ Allow(c)
        \/ Drop(c) \/ Recall(c) \/ Install(c)
        \/ MarkFins(c) \/ Close(c) \/ ReadExpiry(c) \/ Recheck(c) \/ CompareAndSwap(c)

Spec == Init /\ [][Next]_vars

-----------------------------------------------------------------------------
\* A packet is allowed as reply traffic only when a rule of the same policy epoch
\* allowed a packet of its connection, in its own direction or in the opposite one,
\* and it is not itself a new handshake (allow_connection_state, connection_key_for).
ReplyNeedsOpen ==
    \A c \in CPUs :
        (cpu[c].reply /\ cpu[c].pc # "live") =>
            /\ cpu[c].flag # "syn"
            /\ \E o \in opened :
                /\ o.epoch = cpu[c].key.epoch
                /\ o.packet.proto = cpu[c].key.packet.proto
                /\ LET p == cpu[c].key.packet
                       q == o.packet
                   IN  \/ <<q.src, q.dst, q.dir>> = <<p.src, p.dst, p.dir>>
                       \/ <<q.src, q.dst>> = <<p.dst, p.src>> /\ q.dir # p.dir

\* Both directions have sent their FIN, and the CPU that saw the second has set the
\* closing interval.
Closed(e) == fins[e] = Both /\ ~\E c \in CPUs : cpu[c].pc = "close" /\ cpu[c].elem = e

\* A connection that has closed in both directions ends within the closing interval:
\* neither a retransmitted FIN, nor an idle refresh that another CPU began before the
\* close, nor a CPU still holding a pointer to a recycled element moves that end
\* (refresh_connection).  One entry is excepted, which neither the comment at
\* engine.c:780 nor docs/policies.md:66 mentions: the one whose closing expiry equals the
\* expiry that a refresh already past its second look at the FIN bits has read.  The
\* compare-and-swap cannot tell the two apart and gives that entry its idle life back.
ClosedIsShort ==
    \A e \in Elems : Closed(e) => e \in tied \/ expires[e] <= closedAt[e] + TCPClosing

\* What always holds of the entries of the connection map: their types, and no
\* refresh on another CPU gives a closed conversation its long life back, unless it
\* ties with the close to the nanosecond (refresh_connection).
EntriesSound == TypeOK /\ ClosedIsShort
=============================================================================
