--------------------------- MODULE ConnStateProofs ---------------------------
(***************************************************************************)
(* Proofs about ConnState, for any CPUs, elements, packets, rules and      *)
(* intervals: reply traffic needs a connection that a rule allowed, and a  *)
(* connection that has closed keeps its closing interval unless a refresh  *)
(* meets, to the nanosecond, the expiry that it has read.                  *)
(***************************************************************************)
EXTENDS ConnState, TLAPS

\* A packet that is handled has a key and was read in the past.
Handled ==
    \A c \in CPUs : cpu[c].pc # "idle" => cpu[c].key \in Keys /\ cpu[c].now <= clock

\* An entry in the table stands for a connection that a rule allowed.
EntriesOpened ==
    \A k \in StateKeys : table[k] # None => \E o \in opened : StateKey(o) = k

\* Who writes an entry was allowed by a rule.
WritersOpened ==
    \A c \in CPUs :
        /\ cpu[c].pc \in {"drop", "recall", "install"} => cpu[c].key \in opened
        /\ cpu[c].pc = "live" /\ ~cpu[c].reply => cpu[c].key \in opened

\* A reply has met an entry, and is no handshake.
RepliesOpened ==
    \A c \in CPUs :
        /\ cpu[c].reply =>
            /\ cpu[c].flag # "syn"
            /\ \E o \in opened : StateKey(o) = StateKey(cpu[c].key)
        /\ cpu[c].pc = "lookup" => cpu[c].flag # "syn"
        /\ cpu[c].pc \in {"idle", "lookup", "rule"} => ~cpu[c].reply

IInv ==
    /\ TypeOK
    /\ Handled
    /\ EntriesOpened
    /\ WritersOpened
    /\ RepliesOpened

-----------------------------------------------------------------------------
(* TypeOK in parts.                                                        *)

Contexts ==
    [pc : PCs, key : Keys \cup {None}, flag : Flags, now : 0 .. MaxNow,
     elem : Elems \cup {None}, expiry : 0 .. MaxExpiry, reply : BOOLEAN]

\* A CPU that works on an entry holds an element.
Holds ==
    \A c \in CPUs : cpu[c].pc \in {"live", "fins", "close", "expiry", "recheck", "cas"}
        => cpu[c].elem # None

Typed ==
    /\ clock \in 0 .. MaxNow /\ epoch \in Epochs
    /\ table \in [StateKeys -> Elems \cup {None}]
    /\ expires \in [Elems -> 0 .. MaxExpiry]
    /\ fins \in [Elems -> SUBSET Both]
    /\ cpu \in [CPUs -> Contexts]
    /\ opened \subseteq Keys
    /\ closedAt \in [Elems -> 0 .. MaxNow]
    /\ tied \subseteq Elems
    /\ Holds

\* Typed and TypeOK say the same.
LEMMA TypedOK == TypeOK <=> Typed
BY DEF TypeOK, Typed, Contexts, Holds

\* ... in the next state as well.
LEMMA TypedOKNext == TypeOK' <=> Typed'
BY DEF TypeOK, Typed, Contexts, Holds

\* An idle CPU has its type.
LEMMA IdleType == Idle \in Contexts
BY TimesAssumption DEF Idle, Contexts, PCs, Flags, MaxExpiry

\* A CPU that is done with its packet has its type, and holds no element.
LEMMA EndsType ==
    ASSUME Typed, NEW c \in CPUs, Ends(c)
    PROVE  cpu' \in [CPUs -> Contexts] /\ Holds'
<1>1. cpu' \in [CPUs -> Contexts]
  BY IdleType DEF Typed, Ends
<1>2. cpu'[c].pc = "idle" /\ \A d \in CPUs \ {c} : cpu'[d] = cpu[d]
  BY DEF Typed, Ends, Idle
<1> QED
  BY <1>1, <1>2 DEF Typed, Holds

\* A CPU that goes on with the element it has keeps its type.
LEMMA GotoType ==
    ASSUME Typed, NEW c \in CPUs, NEW pc \in PCs, Goto(c, pc), cpu[c].elem # None
    PROVE  cpu' \in [CPUs -> Contexts] /\ Holds'
<1>1. cpu' \in [CPUs -> Contexts]
  BY ZenonT(30) DEF Typed, Goto, Contexts
<1>2. \A d \in CPUs : cpu'[d].elem = cpu[d].elem /\ (d # c => cpu'[d] = cpu[d])
  BY DEF Typed, Goto, Contexts
<1> QED
  BY <1>1, <1>2 DEF Typed, Holds

\* Every new expiry is in its range.
LEMMA ExpiryType ==
    ASSUME NEW n \in 0 .. MaxNow, NEW k
    PROVE  n + IdleOf(k) \in 0 .. MaxExpiry /\ n + TCPClosing \in 0 .. MaxExpiry
BY TimesAssumption DEF MaxExpiry, IdleOf

\* A CPU that handles a packet stays with its key.
Same(c) == cpu'[c].key = cpu[c].key /\ cpu'[c].flag = cpu[c].flag /\ cpu'[c].now = cpu[c].now
Others(c) == \A d \in CPUs \ {c} : cpu'[d] = cpu[d]

\* What a lookup changes.
LEMMA LookupReplyEffect ==
    ASSUME Typed, Handled, NEW c \in CPUs, LookupReply(c)
    PROVE  /\ cpu' \in [CPUs -> Contexts] /\ Others(c) /\ Same(c)
           /\ cpu'[c].elem = table[StateKey(cpu[c].key)]
           /\ cpu'[c].reply = (cpu'[c].elem # None)
           /\ cpu'[c].pc = IF cpu'[c].elem = None THEN "rule" ELSE "live"
<1> DEFINE e == table[StateKey(cpu[c].key)]
           pc == IF e = None THEN "rule" ELSE "live"
           r == (e # None)
           x == [cpu[c] EXCEPT !.elem = e, !.reply = r, !.pc = pc]
<1>1. e \in Elems \cup {None} /\ pc \in PCs /\ r \in BOOLEAN /\ cpu[c] \in Contexts
  BY DEF Typed, Handled, LookupReply, StateKeys, PCs
<1>2. cpu' = [cpu EXCEPT ![c] = x]
  BY DEF LookupReply
<1>3. /\ x \in Contexts /\ x.elem = e /\ x.reply = r /\ x.pc = pc
      /\ x.key = cpu[c].key /\ x.flag = cpu[c].flag /\ x.now = cpu[c].now
  <2> HIDE DEF e, pc, r
  <2>1. x \in Contexts
    BY <1>1, ZenonT(30) DEF Contexts
  <2>2. x.elem = e /\ x.reply = r /\ x.pc = pc
    BY <1>1 DEF Contexts
  <2>3. x.key = cpu[c].key /\ x.flag = cpu[c].flag /\ x.now = cpu[c].now
    BY <1>1 DEF Contexts
  <2> QED
    BY <2>1, <2>2, <2>3
<1>4. cpu' \in [CPUs -> Contexts] /\ Others(c) /\ cpu'[c] = x
  <2> HIDE DEF x
  <2> QED
    BY <1>2, <1>3 DEF Typed, Others
<1> QED
  <2> HIDE DEF x
  <2> QED
    BY <1>3, <1>4 DEF Same

\* What a packet changes that reads an expiry.
LEMMA ReadLiveEffect ==
    ASSUME Typed, NEW c \in CPUs, ReadLive(c)
    PROVE  /\ cpu' \in [CPUs -> Contexts] /\ Others(c) /\ Same(c)
           /\ \/ /\ ~cpu'[c].reply
                 /\ cpu'[c].pc = IF cpu[c].reply THEN "rule" ELSE "install"
              \/ /\ cpu'[c].elem = cpu[c].elem /\ cpu'[c].reply = cpu[c].reply
                 /\ cpu'[c].pc \in {"reset", "fins"}
<1> DEFINE pc == IF cpu[c].reply THEN "rule" ELSE "install"
           x == [cpu[c] EXCEPT !.elem = None, !.reply = FALSE, !.pc = pc]
<1>1. cpu[c] \in Contexts /\ pc \in PCs
  BY DEF Typed, PCs
<1>2. CASE cpu' = [cpu EXCEPT ![c] = x]
  <2>1. x \in Contexts
    <3> HIDE DEF pc
    <3> QED
      BY <1>1, ZenonT(30) DEF Contexts
  <2>2. /\ ~x.reply /\ x.pc = pc
        /\ x.key = cpu[c].key /\ x.flag = cpu[c].flag /\ x.now = cpu[c].now
    <3> HIDE DEF pc
    <3> QED
      BY <1>1 DEF Contexts
  <2>3. cpu' \in [CPUs -> Contexts] /\ Others(c) /\ cpu'[c] = x
    <3> HIDE DEF x
    <3> QED
      BY <1>2, <2>1 DEF Typed, Others
  <2> QED
    <3> HIDE DEF x
    <3> QED
      BY <2>2, <2>3 DEF Same
<1>3. CASE Goto(c, IF cpu[c].flag = "rst" THEN "reset" ELSE "fins")
  <2>1. cpu' \in [CPUs -> Contexts]
    <3> DEFINE g == IF cpu[c].flag = "rst" THEN "reset" ELSE "fins"
    <3>1. g \in PCs
      BY DEF PCs
    <3>2. Goto(c, g)
      BY <1>3
    <3> HIDE DEF g
    <3> QED
      BY <3>1, <3>2, ZenonT(30) DEF Typed, Goto, Contexts
  <2> QED
    BY <1>1, <1>3, <2>1 DEF Typed, Goto, Contexts, Same, Others
<1> QED
  BY <1>2, <1>3 DEF ReadLive

\* What a second lookup changes.
LEMMA RecallEffect ==
    ASSUME Typed, Handled, NEW c \in CPUs, Recall(c)
    PROVE  /\ cpu' \in [CPUs -> Contexts] /\ Others(c) /\ Same(c)
           /\ cpu'[c].elem = table[StateKey(cpu[c].key)] /\ cpu'[c].reply = cpu[c].reply
           /\ cpu'[c].pc = IF cpu'[c].elem = None THEN "install" ELSE "live"
<1> DEFINE e == table[StateKey(cpu[c].key)]
           pc == IF e = None THEN "install" ELSE "live"
           x == [cpu[c] EXCEPT !.elem = e, !.pc = pc]
<1>1. e \in Elems \cup {None} /\ pc \in PCs /\ cpu[c] \in Contexts
  BY DEF Typed, Handled, Recall, StateKeys, PCs
<1>2. cpu' = [cpu EXCEPT ![c] = x]
  BY DEF Recall
<1>3. /\ x \in Contexts /\ x.elem = e /\ x.reply = cpu[c].reply /\ x.pc = pc
      /\ x.key = cpu[c].key /\ x.flag = cpu[c].flag /\ x.now = cpu[c].now
  <2> HIDE DEF e, pc
  <2>1. x \in Contexts
    BY <1>1, ZenonT(30) DEF Contexts
  <2>2. x.elem = e /\ x.reply = cpu[c].reply /\ x.pc = pc
    BY <1>1 DEF Contexts
  <2>3. x.key = cpu[c].key /\ x.flag = cpu[c].flag /\ x.now = cpu[c].now
    BY <1>1 DEF Contexts
  <2> QED
    BY <2>1, <2>2, <2>3
<1>4. cpu' \in [CPUs -> Contexts] /\ Others(c) /\ cpu'[c] = x
  <2> HIDE DEF x
  <2> QED
    BY <1>2, <1>3 DEF Typed, Others
<1> QED
  <2> HIDE DEF x
  <2> QED
    BY <1>3, <1>4 DEF Same

\* What a refresh changes that reads the expiry again.
LEMMA ReadExpiryEffect ==
    ASSUME Typed, NEW c \in CPUs, ReadExpiry(c)
    PROVE  /\ cpu' \in [CPUs -> Contexts] /\ Others(c)
           /\ \/ cpu'[c].pc = "idle" /\ ~cpu'[c].reply
              \/ /\ Same(c)
                 /\ cpu'[c].elem = cpu[c].elem /\ cpu'[c].reply = cpu[c].reply
                 /\ cpu'[c].pc = "recheck"
<1>1. CASE Ends(c)
  BY <1>1, EndsType DEF Ends, Typed, Others, Idle
<1> DEFINE x == [cpu[c] EXCEPT !.expiry = expires[cpu[c].elem], !.pc = "recheck"]
<1>2. CASE cpu' = [cpu EXCEPT ![c] = x]
  <2>1. /\ cpu[c] \in Contexts /\ "recheck" \in PCs
        /\ expires[cpu[c].elem] \in 0 .. MaxExpiry
    BY DEF Typed, Contexts, Holds, PCs, ReadExpiry
  <2>2. x \in Contexts
    BY <2>1, ZenonT(30) DEF Contexts
  <2>3. /\ x.key = cpu[c].key /\ x.flag = cpu[c].flag /\ x.now = cpu[c].now
        /\ x.elem = cpu[c].elem /\ x.reply = cpu[c].reply /\ x.pc = "recheck"
    BY <2>1 DEF Contexts
  <2>4. cpu' \in [CPUs -> Contexts] /\ Others(c) /\ cpu'[c] = x
    <3> HIDE DEF x
    <3> QED
      BY <1>2, <2>2 DEF Typed, Others
  <2> QED
    <3> HIDE DEF x
    <3> QED
      BY <2>3, <2>4 DEF Same
<1> QED
  BY <1>1, <1>2 DEF ReadExpiry

-----------------------------------------------------------------------------
(* Every step preserves the invariant: one lemma per action.               *)

\* Time passes.
LEMMA AdvancePreserves ==
  ASSUME IInv, Advance
  PROVE  IInv'
<1> USE DEF InTime, Later, Advance
<1>1. TypeOK'
  BY TimesAssumption DEF IInv, TypeOK, Idle, PCs
<1>2. Handled'
  BY TimesAssumption DEF IInv, TypeOK, Handled
<1>3. EntriesOpened' /\ WritersOpened' /\ RepliesOpened'
  BY DEF IInv, EntriesOpened, WritersOpened, RepliesOpened
<1> QED
  BY <1>1, <1>2, <1>3 DEF IInv

\* Another policy is activated.
LEMMA NewEpochPreserves ==
  ASSUME IInv, NewEpoch
  PROVE  IInv'
<1>1. TypeOK'
  <2>1. epoch' \in Epochs
    BY TimesAssumption DEF IInv, TypeOK, Epochs, NewEpoch
  <2> QED
    BY <2>1 DEF IInv, TypeOK, NewEpoch
<1>2. Handled' /\ EntriesOpened' /\ WritersOpened' /\ RepliesOpened'
  BY DEF IInv, Handled, EntriesOpened, WritersOpened, RepliesOpened, NewEpoch
<1> QED
  BY <1>1, <1>2 DEF IInv

\* A packet that arrives is no reply yet.
LEMMA ArrivePreserves ==
  ASSUME IInv, NEW c \in CPUs, Arrive(c)
  PROVE  IInv'
<1>1. TypeOK'
  <2>0. Typed
    BY TypedOK DEF IInv
  <2>1. Later \in 0 .. MaxNow
    BY <2>0, TimesAssumption DEF Typed, Arrive, InTime, Later
  <2>2. PICK p \in Packets, f \in Flags, pc \in {"rule", "lookup"} :
          cpu' = [cpu EXCEPT ![c] = [Idle EXCEPT !.key = KeyFor(epoch, p), !.flag = f,
                                                 !.now = Later, !.pc = pc]]
    BY DEF Arrive
  <2> DEFINE x == [Idle EXCEPT !.key = KeyFor(epoch, p), !.flag = f, !.now = Later, !.pc = pc]
  <2>3. x \in Contexts /\ x.pc = pc
    <3>1. KeyFor(epoch, p) \in Keys /\ pc \in PCs
      BY <2>0 DEF Typed, Keys, PCs
    <3>2. x \in Contexts
      BY <2>1, <3>1, IdleType, ZenonT(30) DEF Contexts
    <3>3. x.pc = pc
      BY IdleType, ZenonT(30) DEF Contexts
    <3> QED
      BY <3>2, <3>3
  <2>4. cpu' \in [CPUs -> Contexts] /\ Holds'
    <3> HIDE DEF x
    <3> QED
      BY <2>0, <2>2, <2>3 DEF x, Typed, Holds
  <2> QED
    BY <2>0, <2>1, <2>4, TypedOKNext DEF Typed, Arrive
<1>2. Handled'
  BY TimesAssumption DEF IInv, TypeOK, Handled, Idle, Epochs, Keys, KeyFor, InTime, Later,
     Arrive
<1>3. RepliesOpened'
  BY DEF IInv, TypeOK, RepliesOpened, Idle, InTime, Later, Arrive
<1>4. EntriesOpened' /\ WritersOpened'
  BY DEF IInv, EntriesOpened, WritersOpened, InTime, Later, Arrive
<1> QED
  BY <1>1, <1>2, <1>3, <1>4 DEF IInv

\* A reply has found an entry.
LEMMA LookupReplyPreserves ==
  ASSUME IInv, NEW c \in CPUs, LookupReply(c)
  PROVE  IInv'
<1>0. Typed /\ Handled /\ cpu[c].pc = "lookup"
  BY TypedOK DEF IInv, LookupReply
<1>1. UNCHANGED <<clock, epoch, table, expires, fins, opened, closedAt, tied>>
  BY DEF LookupReply
<1>2. TypeOK'
  <2>1. Holds'
    BY <1>0, LookupReplyEffect DEF Typed, Holds, Others
  <2> QED
    BY <1>0, <1>1, <2>1, LookupReplyEffect, TypedOKNext DEF Typed
<1>3. Handled'
  BY <1>0, <1>1, LookupReplyEffect DEF Handled, Others, Same
<1>4. EntriesOpened'
  BY <1>1 DEF IInv, EntriesOpened
<1>5. WritersOpened'
  BY <1>0, <1>1, LookupReplyEffect DEF IInv, WritersOpened, RepliesOpened, Others, Same
<1>6. RepliesOpened'
  <2>1. StateKey(cpu[c].key) \in StateKeys
    BY <1>0 DEF Handled, StateKeys
  <2>2. cpu'[c].reply => \E o \in opened : StateKey(o) = StateKey(cpu[c].key)
    BY <1>0, <2>1, LookupReplyEffect DEF IInv, EntriesOpened
  <2> QED
    <3>1. /\ cpu'[c].flag = cpu[c].flag /\ cpu'[c].key = cpu[c].key
          /\ cpu'[c].pc \in {"rule", "live"} /\ (cpu'[c].pc = "rule" => ~cpu'[c].reply)
          /\ \A d \in CPUs \ {c} : cpu'[d] = cpu[d]
      BY <1>0, LookupReplyEffect DEF Others, Same
    <3> QED
      BY <1>0, <1>1, <2>2, <3>1 DEF IInv, RepliesOpened
<1> QED
  BY <1>2, <1>3, <1>4, <1>5, <1>6 DEF IInv

\* A packet without a live entry is no reply.
LEMMA ReadLivePreserves ==
  ASSUME IInv, NEW c \in CPUs, ReadLive(c)
  PROVE  IInv'
<1>0. Typed /\ Handled /\ cpu[c].pc = "live"
  BY TypedOK DEF IInv, ReadLive
<1>1. UNCHANGED <<clock, epoch, table, expires, fins, opened, closedAt, tied>>
  BY DEF ReadLive
<1>2. TypeOK'
  <2>1. Holds'
    BY <1>0, ReadLiveEffect DEF Typed, Holds, Others
  <2> QED
    BY <1>0, <1>1, <2>1, ReadLiveEffect, TypedOKNext DEF Typed
<1>3. Handled'
  BY <1>0, <1>1, ReadLiveEffect DEF Handled, Others, Same
<1>4. EntriesOpened'
  BY <1>1 DEF IInv, EntriesOpened
<1>5. WritersOpened'
  BY <1>0, <1>1, ReadLiveEffect DEF IInv, WritersOpened, RepliesOpened, Others, Same
<1>6. RepliesOpened'
  BY <1>0, <1>1, ReadLiveEffect DEF IInv, RepliesOpened, Others, Same
<1> QED
  BY <1>2, <1>3, <1>4, <1>5, <1>6 DEF IInv

\* A reset only removes.
LEMMA ResetPreserves ==
  ASSUME IInv, NEW c \in CPUs, Reset(c)
  PROVE  IInv'
<1>1. TypeOK'
  <2>0. Typed
    BY TypedOK DEF IInv
  <2>1. cpu' \in [CPUs -> Contexts] /\ Holds'
    BY <2>0, EndsType DEF Reset
  <2>2. table' \in [StateKeys -> Elems \cup {None}]
    BY <2>0 DEF Typed, Reset
  <2> QED
    BY <2>0, <2>1, <2>2, TypedOKNext DEF Typed, Reset
<1>2. Handled'
  BY DEF IInv, TypeOK, Handled, Idle, Ends, Reset
<1>3. WritersOpened'
  BY DEF IInv, TypeOK, WritersOpened, Idle, Ends, Reset
<1>4. RepliesOpened'
  BY DEF IInv, TypeOK, RepliesOpened, Idle, Ends, Reset
<1>5. EntriesOpened'
  BY DEF IInv, EntriesOpened, Ends, Reset
<1> QED
  BY <1>1, <1>2, <1>3, <1>4, <1>5 DEF IInv

\* A packet is denied.
LEMMA DenyPreserves ==
  ASSUME IInv, NEW c \in CPUs, Deny(c)
  PROVE  IInv'
<1>1. TypeOK'
  <2>0. Typed
    BY TypedOK DEF IInv
  <2> QED
    BY <2>0, EndsType, TypedOKNext DEF Typed, Deny
<1>2. Handled'
  BY DEF IInv, TypeOK, Handled, Idle, Ends, Deny
<1>3. WritersOpened'
  BY DEF IInv, TypeOK, WritersOpened, Idle, Ends, Deny
<1>4. RepliesOpened'
  BY DEF IInv, TypeOK, RepliesOpened, Idle, Ends, Deny
<1>5. EntriesOpened'
  BY DEF IInv, EntriesOpened, Ends, Deny
<1> QED
  BY <1>1, <1>2, <1>3, <1>4, <1>5 DEF IInv

\* A rule allows a packet.
LEMMA AllowPreserves ==
  ASSUME IInv, NEW c \in CPUs, Allow(c)
  PROVE  IInv'
<1> USE DEF Goto, Allow
<1>1. TypeOK'
  BY TimesAssumption DEF IInv, TypeOK, Handled, Idle, PCs, MaxExpiry, IdleOf
<1>2. Handled' /\ EntriesOpened' /\ WritersOpened' /\ RepliesOpened'
  BY DEF IInv, Handled, EntriesOpened, WritersOpened, RepliesOpened
<1> QED
  BY <1>1, <1>2 DEF IInv

\* A handshake only removes.
LEMMA DropPreserves ==
  ASSUME IInv, NEW c \in CPUs, Drop(c)
  PROVE  IInv'
<1> USE DEF Goto, Drop
<1>1. TypeOK'
  BY DEF IInv, TypeOK, Handled, PCs, StateKeys
<1>2. Handled' /\ EntriesOpened' /\ WritersOpened' /\ RepliesOpened'
  BY DEF IInv, Handled, EntriesOpened, WritersOpened, RepliesOpened
<1> QED
  BY <1>1, <1>2 DEF IInv

\* The entry is looked up again.
LEMMA RecallPreserves ==
  ASSUME IInv, NEW c \in CPUs, Recall(c)
  PROVE  IInv'
<1>0. Typed /\ Handled /\ cpu[c].pc = "recall"
  BY TypedOK DEF IInv, Recall
<1>1. UNCHANGED <<clock, epoch, table, expires, fins, opened, closedAt, tied>>
  BY DEF Recall
<1>2. TypeOK'
  <2>1. Holds'
    BY <1>0, RecallEffect DEF Typed, Holds, Others
  <2> QED
    BY <1>0, <1>1, <2>1, RecallEffect, TypedOKNext DEF Typed
<1>3. Handled'
  BY <1>0, <1>1, RecallEffect DEF Handled, Others, Same
<1>4. EntriesOpened'
  BY <1>1 DEF IInv, EntriesOpened
<1>5. WritersOpened'
  BY <1>0, <1>1, RecallEffect DEF IInv, WritersOpened, RepliesOpened, Others, Same
<1>6. RepliesOpened'
  BY <1>0, <1>1, RecallEffect DEF IInv, RepliesOpened, Others, Same
<1> QED
  BY <1>2, <1>3, <1>4, <1>5, <1>6 DEF IInv

\* A new entry is one of a connection that a rule allowed.
LEMMA InstallPreserves ==
  ASSUME IInv, NEW c \in CPUs, Install(c)
  PROVE  IInv'
<1>1. TypeOK'
  <2>0. Typed
    BY TypedOK DEF IInv
  <2>1. cpu' \in [CPUs -> Contexts] /\ Holds'
    BY <2>0, EndsType DEF Install
  <2>2. PICK e \in Elems :
          /\ table' = [Unlinked(e) EXCEPT ![StateKey(cpu[c].key)] = e]
          /\ expires' = [expires EXCEPT ![e] = cpu[c].now + IdleOf(cpu[c].key)]
          /\ fins' = [fins EXCEPT ![e] = OwnFin(c)]
          /\ closedAt' = [closedAt EXCEPT ![e] = 0]
          /\ tied' = tied \ {e}
    BY DEF Install, FreeElems
  <2>3. table' \in [StateKeys -> Elems \cup {None}]
    BY <2>0, <2>2 DEF Typed, Unlinked
  <2>4. expires' \in [Elems -> 0 .. MaxExpiry]
    <3>1. cpu[c].now \in 0 .. MaxNow
      BY <2>0 DEF Typed, Contexts
    <3> QED
      BY <2>0, <2>2, <3>1, ExpiryType DEF Typed
  <2>5. fins' \in [Elems -> SUBSET Both]
    <3>1. cpu[c].key \in Keys
      BY DEF IInv, Handled, Install
    <3>2. cpu[c].key.packet.dir \in Both
      BY <3>1, PacketsAssumption DEF Keys, KeyFor
    <3>3. OwnFin(c) \subseteq Both
      BY <3>2 DEF OwnFin
    <3> QED
      BY <2>0, <2>2, <3>3 DEF Typed
  <2>6. closedAt' \in [Elems -> 0 .. MaxNow]
    BY <2>0, <2>2, TimesAssumption DEF Typed
  <2>7. tied' \subseteq Elems
    BY <2>0, <2>2 DEF Typed
  <2> QED
    BY <2>0, <2>1, <2>3, <2>4, <2>5, <2>6, <2>7, TypedOKNext DEF Typed, Install
<1>2. Handled'
  BY DEF IInv, TypeOK, Handled, Idle, Ends, Unlinked, Install
<1>3. EntriesOpened'
  BY DEF IInv, TypeOK, Handled, EntriesOpened, WritersOpened, Ends, Unlinked, Install
<1>4. WritersOpened'
  BY DEF IInv, TypeOK, WritersOpened, Idle, Ends, Unlinked, Install
<1>5. RepliesOpened'
  BY DEF IInv, TypeOK, RepliesOpened, Idle, Ends, Unlinked, Install
<1> QED
  BY <1>1, <1>2, <1>3, <1>4, <1>5 DEF IInv

\* A FIN is marked.
LEMMA MarkFinsPreserves ==
  ASSUME IInv, NEW c \in CPUs, MarkFins(c)
  PROVE  IInv'
<1>1. TypeOK'
  <2>0. Typed
    BY TypedOK DEF IInv
  <2>1. cpu[c].elem \in Elems /\ cpu[c].elem # None
    BY <2>0 DEF Typed, Holds, Contexts, MarkFins
  <2>2. cpu' \in [CPUs -> Contexts] /\ Holds'
    <3>1. "close" \in PCs /\ "expiry" \in PCs
      BY DEF PCs
    <3> QED
      BY <2>0, <2>1, <3>1, EndsType, GotoType DEF MarkFins
  <2>3. fins' \in [Elems -> SUBSET Both]
    <3>1. cpu[c].key \in Keys
      BY DEF IInv, Handled, MarkFins
    <3>2. cpu[c].key.packet.dir \in Both
      BY <3>1, PacketsAssumption DEF Keys, KeyFor
    <3>3. OwnFin(c) \subseteq Both
      BY <3>2 DEF OwnFin
    <3> QED
      BY <2>0, <2>1, <3>3 DEF Typed, MarkFins
  <2>4. closedAt' \in [Elems -> 0 .. MaxNow]
    BY <2>0, <2>1 DEF Typed, MarkFins
  <2> QED
    BY <2>0, <2>2, <2>3, <2>4, TypedOKNext DEF Typed, MarkFins
<1>2. Handled'
  BY DEF IInv, TypeOK, Handled, Idle, Goto, Ends, MarkFins
<1>3. WritersOpened'
  BY SMTT(30) DEF IInv, TypeOK, WritersOpened, Idle, Goto, Ends, MarkFins
<1>4. RepliesOpened'
  BY DEF IInv, TypeOK, RepliesOpened, Idle, Goto, Ends, MarkFins
<1>5. EntriesOpened'
  BY DEF IInv, EntriesOpened, Goto, Ends, MarkFins
<1> QED
  BY <1>1, <1>2, <1>3, <1>4, <1>5 DEF IInv

\* The closing interval is set.
LEMMA ClosePreserves ==
  ASSUME IInv, NEW c \in CPUs, Close(c)
  PROVE  IInv'
<1>1. TypeOK'
  <2>0. Typed
    BY TypedOK DEF IInv
  <2>1. cpu' \in [CPUs -> Contexts] /\ Holds'
    BY <2>0, EndsType DEF Close
  <2>2. cpu[c].now \in 0 .. MaxNow
    BY <2>0 DEF Typed, Contexts
  <2>3. expires' \in [Elems -> 0 .. MaxExpiry]
    BY <2>0, <2>2, ExpiryType DEF Typed, Close
  <2>4. tied' \subseteq Elems
    BY <2>0 DEF Typed, Holds, Contexts, Close
  <2> QED
    BY <2>0, <2>1, <2>3, <2>4, TypedOKNext DEF Typed, Close
<1>2. Handled'
  BY DEF IInv, TypeOK, Handled, Idle, Ends, Close
<1>3. WritersOpened'
  BY DEF IInv, TypeOK, WritersOpened, Idle, Ends, Close
<1>4. RepliesOpened'
  BY DEF IInv, TypeOK, RepliesOpened, Idle, Ends, Close
<1>5. EntriesOpened'
  BY DEF IInv, EntriesOpened, Ends, Close
<1> QED
  BY <1>1, <1>2, <1>3, <1>4, <1>5 DEF IInv

\* The expiry is read.
LEMMA ReadExpiryPreserves ==
  ASSUME IInv, NEW c \in CPUs, ReadExpiry(c)
  PROVE  IInv'
<1>0. Typed /\ Handled /\ cpu[c].pc = "expiry"
  BY TypedOK DEF IInv, ReadExpiry
<1>1. UNCHANGED <<clock, epoch, table, expires, fins, opened, closedAt, tied>>
  BY DEF ReadExpiry
<1>2. TypeOK'
  <2>1. Holds'
    BY <1>0, ReadExpiryEffect DEF Typed, Holds, Others
  <2> QED
    BY <1>0, <1>1, <2>1, ReadExpiryEffect, TypedOKNext DEF Typed
<1>3. Handled'
  BY <1>0, <1>1, ReadExpiryEffect DEF Handled, Others, Same
<1>4. EntriesOpened'
  BY <1>1 DEF IInv, EntriesOpened
<1>5. WritersOpened'
  BY <1>0, <1>1, ReadExpiryEffect DEF IInv, WritersOpened, RepliesOpened, Others, Same
<1>6. RepliesOpened'
  BY <1>0, <1>1, ReadExpiryEffect DEF IInv, RepliesOpened, Others, Same
<1> QED
  BY <1>2, <1>3, <1>4, <1>5, <1>6 DEF IInv

\* The FINs are read again.
LEMMA RecheckPreserves ==
  ASSUME IInv, NEW c \in CPUs, Recheck(c)
  PROVE  IInv'
<1>1. TypeOK'
  <2>0. Typed
    BY TypedOK DEF IInv
  <2>1. cpu' \in [CPUs -> Contexts] /\ Holds'
    <3>1. "cas" \in PCs /\ cpu[c].elem # None
      BY <2>0 DEF Recheck, PCs, Typed, Holds
    <3> QED
      BY <2>0, <3>1, EndsType, GotoType DEF Recheck
  <2> QED
    BY <2>0, <2>1, TypedOKNext DEF Typed, Recheck
<1>2. Handled'
  BY DEF IInv, TypeOK, Handled, Idle, Goto, Ends, Recheck
<1>3. WritersOpened'
  BY DEF IInv, TypeOK, WritersOpened, Idle, Goto, Ends, Recheck
<1>4. RepliesOpened'
  BY DEF IInv, TypeOK, RepliesOpened, Idle, Goto, Ends, Recheck
<1>5. EntriesOpened'
  BY DEF IInv, EntriesOpened, Goto, Ends, Recheck
<1> QED
  BY <1>1, <1>2, <1>3, <1>4, <1>5 DEF IInv

\* The expiry is refreshed.
LEMMA CompareAndSwapPreserves ==
  ASSUME IInv, NEW c \in CPUs, CompareAndSwap(c)
  PROVE  IInv'
<1>1. TypeOK'
  <2>0. Typed
    BY TypedOK DEF IInv
  <2>1. cpu' \in [CPUs -> Contexts] /\ Holds'
    BY <2>0, EndsType DEF CompareAndSwap
  <2>2. cpu[c].now \in 0 .. MaxNow
    BY <2>0 DEF Typed, Contexts
  <2>3. expires' \in [Elems -> 0 .. MaxExpiry]
    BY <2>0, <2>2, ExpiryType DEF Typed, CompareAndSwap
  <2> QED
    BY <2>0, <2>1, <2>3, TypedOKNext DEF Typed, CompareAndSwap
<1>2. Handled'
  BY DEF IInv, TypeOK, Handled, Idle, Ends, CompareAndSwap
<1>3. WritersOpened'
  BY DEF IInv, TypeOK, WritersOpened, Idle, Ends, CompareAndSwap
<1>4. RepliesOpened'
  BY DEF IInv, TypeOK, RepliesOpened, Idle, Ends, CompareAndSwap
<1>5. EntriesOpened'
  BY DEF IInv, EntriesOpened, Ends, CompareAndSwap
<1> QED
  BY <1>1, <1>2, <1>3, <1>4, <1>5 DEF IInv

-----------------------------------------------------------------------------
\* An engine without connections satisfies the invariant.
LEMMA InitEstablishes == Init => IInv
<1> SUFFICES ASSUME Init
             PROVE  IInv
  OBVIOUS
<1>1. Typed
  <2>1. cpu \in [CPUs -> Contexts] /\ Holds
    BY IdleType DEF Init, Holds, Idle
  <2>2. 1 \in Epochs /\ 0 \in 0 .. MaxNow /\ 0 \in 0 .. MaxExpiry
    BY TimesAssumption DEF Epochs, MaxExpiry
  <2> QED
    BY <2>1, <2>2 DEF Init, Typed
<1>2. Handled /\ EntriesOpened /\ WritersOpened /\ RepliesOpened
  BY DEF Init, Handled, EntriesOpened, WritersOpened, RepliesOpened, Idle
<1> QED
  BY <1>1, <1>2, TypedOK DEF IInv

\* Stuttering keeps what the invariant is about.
LEMMA StutterPreserves ==
  ASSUME IInv, UNCHANGED vars
  PROVE  IInv'
BY DEF IInv, TypeOK, Handled, EntriesOpened, WritersOpened, RepliesOpened, vars

\* Every step of a CPU, of the clock and of the agent preserves the invariant.
LEMMA StepPreserves == IInv /\ [Next]_vars => IInv'
<1> SUFFICES ASSUME IInv, [Next]_vars
             PROVE  IInv'
  OBVIOUS
<1>1. CASE Advance \/ NewEpoch
  BY <1>1, AdvancePreserves, NewEpochPreserves
<1>2. ASSUME NEW c \in CPUs,
             \/ Arrive(c) \/ LookupReply(c) \/ ReadLive(c) \/ Reset(c) \/ Deny(c) \/ Allow(c)
             \/ Drop(c) \/ Recall(c) \/ Install(c)
      PROVE  IInv'
  BY <1>2, ArrivePreserves, LookupReplyPreserves, ReadLivePreserves, ResetPreserves,
     DenyPreserves, AllowPreserves, DropPreserves, RecallPreserves, InstallPreserves
<1>3. ASSUME NEW c \in CPUs,
             MarkFins(c) \/ Close(c) \/ ReadExpiry(c) \/ Recheck(c) \/ CompareAndSwap(c)
      PROVE  IInv'
  BY <1>3, MarkFinsPreserves, ClosePreserves, ReadExpiryPreserves, RecheckPreserves,
     CompareAndSwapPreserves
<1>4. CASE UNCHANGED vars
  BY <1>4, StutterPreserves
<1> QED
  BY <1>1, <1>2, <1>3, <1>4 DEF Next

\* The inductive invariant of the reply state.
THEOREM Invariant == Spec => []IInv
BY InitEstablishes, StepPreserves, PTL DEF Spec

-----------------------------------------------------------------------------
(* Replies.                                                                *)

\* Two packets share an entry exactly if they belong to one connection: same
\* epoch and protocol, and the same tuple or the opposite one.
LEMMA SameConnection ==
  ASSUME NEW k \in Keys, NEW o \in Keys, StateKey(o) = StateKey(k)
  PROVE  /\ o.epoch = k.epoch
         /\ o.packet.proto = k.packet.proto
         /\ \/ <<o.packet.src, o.packet.dst, o.packet.dir>>
                 = <<k.packet.src, k.packet.dst, k.packet.dir>>
            \/ /\ <<o.packet.src, o.packet.dst>> = <<k.packet.dst, k.packet.src>>
               /\ o.packet.dir # k.packet.dir
<1>1. ASSUME NEW x \in Keys
      PROVE  /\ x.packet.dir \in Both
             /\ x.packet.dir = "egress" =>
                  StateKey(x) = [epoch |-> x.epoch,
                                 packet |-> [src |-> x.packet.dst, dst |-> x.packet.src,
                                             proto |-> x.packet.proto, dir |-> "ingress"]]
             /\ x.packet.dir = "ingress" =>
                  StateKey(x) = [epoch |-> x.epoch,
                                 packet |-> [src |-> x.packet.src, dst |-> x.packet.dst,
                                             proto |-> x.packet.proto, dir |-> "ingress"]]
  <2>1. PICK e \in Epochs, p \in Packets : x = [epoch |-> e, packet |-> p]
    BY DEF Keys, KeyFor
  <2>2. p = [src |-> p.src, dst |-> p.dst, proto |-> p.proto, dir |-> p.dir] /\ p.dir \in Both
    BY PacketsAssumption
  <2> QED
    BY <2>1, <2>2 DEF StateKey, ReverseKey, Flip, Both
<1> QED
  BY <1>1 DEF Both

\* A packet passes as a reply only if a rule of its policy epoch allowed a packet
\* of its connection, and never as a new handshake; for any packets, rules and
\* CPUs (allow_connection_state, remember_reverse_connection).
THEOREM RepliesNeedOpen == Spec => []ReplyNeedsOpen
<1>1. IInv => ReplyNeedsOpen
  <2> SUFFICES ASSUME IInv, NEW c \in CPUs, cpu[c].reply, cpu[c].pc # "live"
               PROVE  /\ cpu[c].flag # "syn"
                      /\ \E o \in opened :
                          /\ o.epoch = cpu[c].key.epoch
                          /\ o.packet.proto = cpu[c].key.packet.proto
                          /\ \/ <<o.packet.src, o.packet.dst, o.packet.dir>>
                                  = <<cpu[c].key.packet.src, cpu[c].key.packet.dst,
                                      cpu[c].key.packet.dir>>
                             \/ /\ <<o.packet.src, o.packet.dst>>
                                     = <<cpu[c].key.packet.dst, cpu[c].key.packet.src>>
                                /\ o.packet.dir # cpu[c].key.packet.dir
    BY DEF ReplyNeedsOpen
  <2>1. cpu[c].flag # "syn" /\ cpu[c].key \in Keys
    BY DEF IInv, RepliesOpened, Handled
  <2>2. PICK o \in opened : StateKey(o) = StateKey(cpu[c].key)
    BY DEF IInv, RepliesOpened
  <2>3. o \in Keys
    BY DEF IInv, TypeOK
  <2> QED
    BY <2>1, <2>2, <2>3, SameConnection
<1> QED
  BY <1>1, Invariant, PTL

-----------------------------------------------------------------------------
(* Connections that have closed.                                           *)

\* A CPU about to set the closing interval, be it of an earlier use of the
\* element, handles a packet that was read before the entry closed.
ClosersBefore ==
    \A c \in CPUs : cpu[c].pc = "close" /\ fins[cpu[c].elem] = Both
        => cpu[c].now <= closedAt[cpu[c].elem]

\* A refresh that began before the close meets another expiry than it has read,
\* unless the close wrote the very value it had read.
SwapsFail ==
    \A d \in CPUs : cpu[d].pc = "cas" /\ Closed(cpu[d].elem) /\ cpu[d].elem \notin tied
        => expires[cpu[d].elem] # cpu[d].expiry

Closing ==
    /\ ClosersBefore
    /\ SwapsFail
    /\ ClosedIsShort

\* A CPU that neither closes nor compares leaves the closed entries alone.
LEMMA NothingCloses ==
  ASSUME Closing, NEW c \in CPUs, Others(c), UNCHANGED <<expires, fins, closedAt, tied>>,
         cpu[c].pc # "close", cpu'[c].pc \notin {"close", "cas"}
  PROVE  Closing'
<1>1. \A e \in Elems : Closed(e)' => Closed(e)
  BY DEF Closed, Others
<1>2. ClosersBefore'
  BY DEF Closing, ClosersBefore, Others
<1>3. SwapsFail'
  BY DEF Closing, SwapsFail, Others, Closed
<1>4. ClosedIsShort'
  BY <1>1 DEF Closing, ClosedIsShort
<1> QED
  BY <1>2, <1>3, <1>4 DEF Closing

\* Time passes.
LEMMA AdvanceKeepsClosed ==
  ASSUME IInv, Closing, Advance
  PROVE  Closing'
BY DEF Closing, ClosersBefore, SwapsFail, ClosedIsShort, Closed, Advance

\* A policy changes no entry.
LEMMA NewEpochKeepsClosed ==
  ASSUME IInv, Closing, NewEpoch
  PROVE  Closing'
BY DEF Closing, ClosersBefore, SwapsFail, ClosedIsShort, Closed, NewEpoch

\* A packet has touched no entry yet.
LEMMA ArriveKeepsClosed ==
  ASSUME IInv, Closing, NEW c \in CPUs, Arrive(c)
  PROVE  Closing'
BY DEF Closing, ClosersBefore, SwapsFail, ClosedIsShort, Closed, InTime, Later, Idle, Arrive

\* A lookup changes no entry.
LEMMA LookupReplyKeepsClosed ==
  ASSUME IInv, Closing, NEW c \in CPUs, LookupReply(c)
  PROVE  Closing'
<1>1. Typed /\ Handled /\ cpu[c].pc = "lookup"
  BY TypedOK DEF IInv, LookupReply
<1>2. UNCHANGED <<expires, fins, closedAt, tied>>
  BY DEF LookupReply
<1> QED
  BY <1>1, <1>2, LookupReplyEffect, NothingCloses

\* Nor does the reading of an expiry.
LEMMA ReadLiveKeepsClosed ==
  ASSUME IInv, Closing, NEW c \in CPUs, ReadLive(c)
  PROVE  Closing'
<1>1. Typed /\ Handled /\ cpu[c].pc = "live"
  BY TypedOK DEF IInv, ReadLive
<1>2. UNCHANGED <<expires, fins, closedAt, tied>>
  BY DEF ReadLive
<1> QED
  BY <1>1, <1>2, ReadLiveEffect, NothingCloses

\* A deleted entry keeps its element.
LEMMA ResetKeepsClosed ==
  ASSUME IInv, Closing, NEW c \in CPUs, Reset(c)
  PROVE  Closing'
BY DEF Closing, ClosersBefore, SwapsFail, ClosedIsShort, Closed, Ends, Idle, Reset

\* A denied packet changes nothing.
LEMMA DenyKeepsClosed ==
  ASSUME IInv, Closing, NEW c \in CPUs, Deny(c)
  PROVE  Closing'
BY DEF Closing, ClosersBefore, SwapsFail, ClosedIsShort, Closed, Ends, Idle, Deny

\* An allowed one nothing yet.
LEMMA AllowKeepsClosed ==
  ASSUME IInv, Closing, NEW c \in CPUs, Allow(c)
  PROVE  Closing'
BY DEF Closing, ClosersBefore, SwapsFail, ClosedIsShort, Closed, Goto, Allow

\* A deleted entry keeps its element.
LEMMA DropKeepsClosed ==
  ASSUME IInv, Closing, NEW c \in CPUs, Drop(c)
  PROVE  Closing'
BY DEF Closing, ClosersBefore, SwapsFail, ClosedIsShort, Closed, Goto, Drop

\* A lookup changes no entry.
LEMMA RecallKeepsClosed ==
  ASSUME IInv, Closing, NEW c \in CPUs, Recall(c)
  PROVE  Closing'
<1>1. Typed /\ Handled /\ cpu[c].pc = "recall"
  BY TypedOK DEF IInv, Recall
<1>2. UNCHANGED <<expires, fins, closedAt, tied>>
  BY DEF Recall
<1> QED
  BY <1>1, <1>2, RecallEffect, NothingCloses

\* The FINs of a new element are not complete, and no CPU that works on an
\* element changes.
LEMMA InstallFrame ==
    ASSUME IInv, NEW c \in CPUs, Install(c)
    PROVE  \E e \in Elems :
             /\ fins'[e] # Both
             /\ \A f \in Elems \ {e} : /\ fins'[f] = fins[f]
                                       /\ expires'[f] = expires[f]
                                       /\ closedAt'[f] = closedAt[f]
                                       /\ (f \in tied' <=> f \in tied)
             /\ cpu'[c].pc = "idle" /\ cpu[c].pc = "install"
             /\ \A d \in CPUs \ {c} : cpu'[d] = cpu[d]
<1>1. PICK e \in Elems :
        /\ expires' = [expires EXCEPT ![e] = cpu[c].now + IdleOf(cpu[c].key)]
        /\ fins' = [fins EXCEPT ![e] = OwnFin(c)]
        /\ closedAt' = [closedAt EXCEPT ![e] = 0]
        /\ tied' = tied \ {e}
  BY DEF Install, FreeElems
<1>2. OwnFin(c) # Both
  BY DEF OwnFin, Both
<1>3. cpu'[c].pc = "idle" /\ cpu[c].pc = "install" /\ \A d \in CPUs \ {c} : cpu'[d] = cpu[d]
  BY DEF IInv, TypeOK, Install, Ends, Idle
<1> QED
  BY <1>1, <1>2, <1>3 DEF IInv, TypeOK

\* A new entry is open, whatever its element served before.
LEMMA InstallKeepsClosed ==
    ASSUME IInv, Closing, NEW c \in CPUs, Install(c)
    PROVE  Closing'
<1>1. PICK e \in Elems :
             /\ fins'[e] # Both
             /\ \A f \in Elems \ {e} : /\ fins'[f] = fins[f]
                                       /\ expires'[f] = expires[f]
                                       /\ closedAt'[f] = closedAt[f]
                                       /\ (f \in tied' <=> f \in tied)
             /\ cpu'[c].pc = "idle" /\ cpu[c].pc = "install"
             /\ \A d \in CPUs \ {c} : cpu'[d] = cpu[d]
  BY InstallFrame
<1>2. \A d \in CPUs : cpu[d].pc \in {"close", "cas"} => cpu[d].elem \in Elems
  BY DEF IInv, TypeOK
<1>3. \A f \in Elems : Closed(f)' => Closed(f) /\ f # e
  BY <1>1 DEF Closed
<1>4. ClosersBefore'
  BY <1>1, <1>2 DEF Closing, ClosersBefore
<1>5. SwapsFail'
  BY <1>1, <1>2, <1>3 DEF Closing, SwapsFail
<1>6. ClosedIsShort'
  BY <1>1, <1>3 DEF Closing, ClosedIsShort
<1> QED
  BY <1>4, <1>5, <1>6 DEF Closing

\* The CPU that completes the pair is about to close the entry.
LEMMA MarkFinsKeepsClosed ==
  ASSUME IInv, Closing, NEW c \in CPUs, MarkFins(c)
  PROVE  Closing'
<1> USE DEF Goto, Ends, Idle, MarkFins
<1>1. ClosersBefore'
  BY DEF Closing, ClosersBefore, IInv, TypeOK, Handled
<1>2. \A e \in Elems : Closed(e)' => Closed(e)
  BY DEF IInv, TypeOK, Closed
<1>3. \A d \in CPUs : cpu'[d].pc = "cas" => cpu'[d] = cpu[d] /\ cpu[d].elem \in Elems
  BY DEF IInv, TypeOK
<1>4. SwapsFail'
  BY <1>2, <1>3 DEF Closing, SwapsFail
<1>5. ClosedIsShort'
  BY DEF Closing, ClosedIsShort, IInv, TypeOK, Closed
<1> QED
  BY <1>1, <1>4, <1>5 DEF Closing

\* The expiry that a close writes is another than a refresh has read, or the entry is
\* one of the tied.
LEMMA CloseFailsSwaps ==
    ASSUME IInv, Closing, NEW c \in CPUs, Close(c)
    PROVE  SwapsFail'
<1>1. cpu[c].elem \in Elems /\ cpu[c].pc = "close"
  BY DEF IInv, TypeOK, Close
<1>2. cpu'[c].pc = "idle" /\ \A d \in CPUs \ {c} : cpu'[d] = cpu[d]
  BY DEF IInv, TypeOK, Close, Ends, Idle
<1>3. SUFFICES ASSUME NEW d \in CPUs, cpu'[d].pc = "cas", Closed(cpu[d].elem)',
                      cpu'[d].elem \notin tied'
               PROVE  expires'[cpu'[d].elem] # cpu'[d].expiry
  BY DEF SwapsFail
<1>4. d # c /\ cpu'[d] = cpu[d] /\ cpu[d].pc = "cas" /\ cpu[d].elem \in Elems
  BY <1>2, <1>3 DEF IInv, TypeOK
<1>5. CASE cpu[d].elem = cpu[c].elem
  <2>1. expires'[cpu[c].elem] = cpu[c].now + TCPClosing
    BY <1>1 DEF IInv, TypeOK, Close
  <2> QED
    BY <1>1, <1>3, <1>4, <1>5, <2>1 DEF Ties, Close
<1>6. CASE cpu[d].elem # cpu[c].elem
  <2>1. /\ expires'[cpu[d].elem] = expires[cpu[d].elem] /\ fins' = fins
        /\ cpu[d].elem \notin tied
    BY <1>3, <1>4, <1>6 DEF IInv, TypeOK, Close
  <2>2. Closed(cpu[d].elem)
    BY <1>1, <1>2, <1>3, <1>4, <1>6, <2>1 DEF Closed
  <2> QED
    BY <1>4, <2>1, <2>2 DEF Closing, SwapsFail
<1> QED
  BY <1>5, <1>6

\* A closing entry gets the closing interval of a packet read before it closed.
LEMMA CloseKeepsClosed ==
  ASSUME IInv, Closing, NEW c \in CPUs, Close(c)
  PROVE  Closing'
<1>1. ClosersBefore'
  BY DEF Closing, ClosersBefore, Close, Ends, Idle
<1>2. ClosedIsShort'
  BY TimesAssumption
     DEF Closing, ClosersBefore, ClosedIsShort, IInv, TypeOK, Closed, Close, Ends, Idle
<1> QED
  BY <1>1, <1>2, CloseFailsSwaps DEF Closing

\* An expiry that is read is not compared yet.
LEMMA ReadExpiryKeepsClosed ==
  ASSUME IInv, Closing, NEW c \in CPUs, ReadExpiry(c)
  PROVE  Closing'
<1>1. Typed /\ Handled /\ cpu[c].pc = "expiry"
  BY TypedOK DEF IInv, ReadExpiry
<1>2. UNCHANGED <<expires, fins, closedAt, tied>>
  BY DEF ReadExpiry
<1> QED
  BY <1>1, <1>2, ReadExpiryEffect, NothingCloses

\* A refresh goes on only if the pair is not complete.
LEMMA RecheckKeepsClosed ==
  ASSUME IInv, Closing, NEW c \in CPUs, Recheck(c)
  PROVE  Closing'
<1> USE DEF Goto, Ends, Idle, Recheck
<1>1. ClosersBefore'
  BY DEF Closing, ClosersBefore, IInv, TypeOK
<1>2. SwapsFail'
  BY SMTT(30) DEF Closing, SwapsFail, IInv, TypeOK, Closed
<1>3. ClosedIsShort'
  BY DEF Closing, ClosedIsShort, IInv, TypeOK, Closed
<1> QED
  BY <1>1, <1>2, <1>3 DEF Closing

\* A refresh of a closed entry fails.
LEMMA CompareAndSwapKeepsClosed ==
  ASSUME IInv, Closing, NEW c \in CPUs, CompareAndSwap(c)
  PROVE  Closing'
<1> USE DEF Ends, Idle, CompareAndSwap
<1>1. ClosedIsShort'
  BY DEF Closing, SwapsFail, ClosedIsShort, Closed
<1>2. ClosersBefore' /\ SwapsFail'
  BY DEF Closing, ClosersBefore, SwapsFail, Closed
<1> QED
  BY <1>1, <1>2 DEF Closing

\* Nothing has closed in the beginning.
LEMMA InitClosing == Init => Closing
BY DEF Init, Closing, ClosersBefore, SwapsFail, ClosedIsShort, Closed, Idle, Both

\* Every step keeps closed connections short.
LEMMA StepKeepsClosed == IInv /\ Closing /\ [Next]_vars => Closing'
<1> SUFFICES ASSUME IInv, Closing, [Next]_vars
             PROVE  Closing'
  OBVIOUS
<1>1. CASE Advance \/ NewEpoch
  BY <1>1, AdvanceKeepsClosed, NewEpochKeepsClosed
<1>2. ASSUME NEW c \in CPUs,
             \/ Arrive(c) \/ LookupReply(c) \/ ReadLive(c) \/ Reset(c) \/ Deny(c) \/ Allow(c)
             \/ Drop(c) \/ Recall(c) \/ Install(c)
      PROVE  Closing'
  BY <1>2, ArriveKeepsClosed, LookupReplyKeepsClosed, ReadLiveKeepsClosed, ResetKeepsClosed,
     DenyKeepsClosed, AllowKeepsClosed, DropKeepsClosed, RecallKeepsClosed,
     InstallKeepsClosed
<1>3. ASSUME NEW c \in CPUs,
             MarkFins(c) \/ Close(c) \/ ReadExpiry(c) \/ Recheck(c) \/ CompareAndSwap(c)
      PROVE  Closing'
  BY <1>3, MarkFinsKeepsClosed, CloseKeepsClosed, ReadExpiryKeepsClosed,
     RecheckKeepsClosed, CompareAndSwapKeepsClosed
<1>4. CASE UNCHANGED vars
  BY <1>4 DEF Closing, ClosersBefore, SwapsFail, ClosedIsShort, Closed, vars
<1> QED
  BY <1>1, <1>2, <1>3, <1>4 DEF Next

\* A connection that has closed in both directions ends within the closing interval,
\* whatever refreshes, retransmissions and recycled elements do; the exception is an
\* entry whose closing expiry is the very value that a pending refresh had read
\* (refresh_connection).
THEOREM EntriesStaySound == Spec => []EntriesSound
<1>1. Closing /\ IInv => EntriesSound
  BY DEF Closing, IInv, EntriesSound
<1> QED
  BY <1>1, InitClosing, StepKeepsClosed, Invariant, PTL DEF Spec
=============================================================================
