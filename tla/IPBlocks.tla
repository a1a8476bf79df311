------------------------------- MODULE IPBlocks -------------------------------
(***************************************************************************)
(* ipBlock peers (internal/policy/native.go): ExpandNativeIPBlock turns a  *)
(* CIDR minus its `except' prefixes into a list of plain prefixes.         *)
(*                                                                         *)
(* Addresses have Width bits instead of 32; parsing is left out, so every  *)
(* prefix here is a parsed IPv4 prefix, whose host bits may still be set.  *)
(***************************************************************************)
EXTENDS Integers, Sequences, SequencesExt, FiniteSetsExt

CONSTANTS
    Width,                  \* bits of an address
    MaxIPBlockExpansion     \* largest number of prefixes one ipBlock may become

ASSUME WidthAssumption == Width \in Nat /\ MaxIPBlockExpansion \in Nat

\* What the prover does not know of powers of two.
ASSUME PowerLaws ==
    /\ 2^0 = 1 /\ 2^1 = 2
    /\ \A n \in 0 .. Width : 2^n \in Nat \ {0}
    /\ \A m, n \in 0 .. Width : m + n <= Width => 2^(m + n) = 2^m * 2^n

Addresses == 0 .. 2^Width - 1
AllPrefixes == [addr : Addresses, bits : 0 .. Width]

SizeOf(bits) == 2^(Width - bits)
Masked(p) == [p EXCEPT !.addr = @ - (@ % SizeOf(p.bits))]

\* nativePrefixRange
RangeStart(p) == Masked(p).addr
RangeEnd(p) == Masked(p).addr + SizeOf(p.bits) - 1
Holds(p, a) == RangeStart(p) <= a /\ a <= RangeEnd(p)
PrefixContainsPrefix(container, candidate) ==
    container.bits <= candidate.bits /\ Holds(container, Masked(candidate).addr)

\* The largest power of two that divides a start address, and the largest that is at
\* most n.
Alignment(start) ==
    IF start = 0 THEN 2^Width
    ELSE 2^Max({k \in 0 .. Width : start % 2^k = 0})
LargestPower(n) == 2^Max({k \in 0 .. Width : 2^k <= n})
BitsFor(size) == CHOOSE b \in 0 .. Width : SizeOf(b) = size

\* Mutant: a piece is as long as what is left allows, whatever its start.
PieceSizeUnaligned(start, end) == LargestPower(end - start + 1)
PieceSize(start, end) == Min({Alignment(start), LargestPower(end - start + 1)})

\* What a loop has made of its state in n turns.
Turns(turn, state, n) ==
    LET after[i \in 0 .. n] == IF i = 0 THEN state ELSE turn[after[i - 1]]
    IN  after[n]

\* One turn of appendNativeRangePrefixes: the aligned piece at the next address.
AppendPiece(s, end) ==
    IF s.next > end THEN s
    ELSE LET size == PieceSize(s.next, end)
         IN  [next |-> s.next + size,
              pieces |-> Append(s.pieces, [addr |-> s.next, bits |-> BitsFor(size)])]

\* The aligned pieces of start .. end, from the left.  Each has an address at least.
RangePrefixes(start, end) ==
    Turns([s \in [next : Nat, pieces : Seq(AllPrefixes)] |-> AppendPiece(s, end)],
          [next |-> start, pieces |-> << >>], end - start + 1).pieces

\* Excluded ranges that overlap or touch become one.
MergeInto(merged, current) ==
    IF merged = << >> \/ current.start > Last(merged).end + 1
    THEN Append(merged, current)
    ELSE IF current.end > Last(merged).end
         THEN [merged EXCEPT ![Len(merged)].end = current.end]
         ELSE merged

Ranges == [start : Nat, end : Nat]
Before(x, y) == x.start < y.start \/ (x.start = y.start /\ x.end < y.end)

\* The ranges in their order: a turn takes the first of those that are left.
Merged(excepts) ==
    LET ranges == {[start |-> RangeStart(p), end |-> RangeEnd(p)] : p \in ToSet(excepts)}
        turn[s \in [left : SUBSET ranges, merged : Seq(Ranges)]] ==
            LET current == CHOOSE r \in s.left : \A q \in s.left \ {r} : Before(r, q)
            IN  [left |-> s.left \ {current}, merged |-> MergeInto(s.merged, current)]
    IN  Turns(turn, [left |-> ranges, merged |-> << >>], Cardinality(ranges)).merged

\* The gaps between the holes, and what is left behind the last one.
Gaps(base, holes) ==
    LET turn[s \in [passed : Nat, cursor : Nat, pieces : Seq(AllPrefixes)]] ==
            LET hole == holes[s.passed + 1]
            IN  [passed |-> s.passed + 1,
                 cursor |-> hole.end + 1,
                 pieces |-> IF s.cursor < hole.start
                            THEN s.pieces \o RangePrefixes(s.cursor, hole.start - 1)
                            ELSE s.pieces]
        swept == Turns(turn, [passed |-> 0, cursor |-> RangeStart(base), pieces |-> << >>],
                       Len(holes))
    IN  IF swept.cursor <= RangeEnd(base)
        THEN swept.pieces \o RangePrefixes(swept.cursor, RangeEnd(base))
        ELSE swept.pieces

Failure == [ok |-> FALSE, prefixes |-> {}]

ExceptsAllowed(base, excepts) ==
    \A i \in DOMAIN excepts : PrefixContainsPrefix(Masked(base), Masked(excepts[i]))

ExpandNativeIPBlock(base, excepts) ==
    IF excepts = << >> THEN [ok |-> TRUE, prefixes |-> {Masked(base)}]
    ELSE IF ~ExceptsAllowed(base, excepts) THEN Failure
    ELSE LET pieces == Gaps(Masked(base), Merged(excepts))
         IN  IF Len(pieces) > MaxIPBlockExpansion THEN Failure
             ELSE [ok |-> TRUE, prefixes |-> ToSet(pieces)]

-----------------------------------------------------------------------------
(* What the expansion has to mean, independent of how it is computed. *)
Covered(prefixes) == {a \in Addresses : \E p \in prefixes : Holds(p, a)}

Wanted(base, excepts) ==
    {a \in Addresses : Holds(base, a) /\ \A i \in DOMAIN excepts : ~Holds(excepts[i], a)}

\* The largest prefixes inside a set of addresses: its smallest cover by prefixes.
Maximal(addresses) ==
    LET inside == {p \in AllPrefixes : p = Masked(p) /\ RangeStart(p) .. RangeEnd(p) \subseteq addresses}
    IN  {p \in inside : \A q \in inside : PrefixContainsPrefix(q, p) => q = p}

\* The plain prefixes of an expansion cover what the ipBlock means.
ExpansionMeans(base, excepts) ==
    LET expansion == ExpandNativeIPBlock(base, excepts)
    IN  expansion.ok =>
            /\ \A p \in expansion.prefixes : p \in AllPrefixes /\ p = Masked(p)
            /\ Covered(expansion.prefixes) = Wanted(base, excepts)
==============================================================================
