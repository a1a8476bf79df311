----------------------------- MODULE BlockExpansion -----------------------------
(***************************************************************************)
(* One call of ExpandNativeIPBlock (internal/policy/native.go) on any of   *)
(* the given ipBlocks, and what its result has to mean.                    *)
(***************************************************************************)
EXTENDS IPBlocks

CONSTANT BlockInputs    \* the ipBlocks that may be expanded

ASSUME BlocksAssumption == BlockInputs \subseteq [base : AllPrefixes, excepts : Seq(AllPrefixes)]

VARIABLES ipBlock, result
blocksVars == <<ipBlock, result>>

BlocksInit ==
    /\ ipBlock = [base |-> [addr |-> 0, bits |-> 0], excepts |-> << >>]
    /\ result = [done |-> FALSE, value |-> Failure]

Expand ==
    /\ ~result.done
    /\ ipBlock' \in BlockInputs
    /\ result' = [done |-> TRUE, value |-> ExpandNativeIPBlock(ipBlock'.base, ipBlock'.excepts)]

BlocksNext == Expand
BlocksSpec == BlocksInit /\ [][BlocksNext]_blocksVars

-----------------------------------------------------------------------------
(* The prefixes cover the addresses of the CIDR that no except covers and  *)
(* no other address; they are the largest prefixes inside them, so none    *)
(* meets another one and a block never takes more of the rule capacity     *)
(* than it must (appendNativeRangePrefixes).                               *)
ExpansionExact ==
    (result.done /\ result.value.ok) =>
        /\ ExpansionMeans(ipBlock.base, ipBlock.excepts)
        /\ ipBlock.excepts # << >> =>
               result.value.prefixes = Maximal(Wanted(ipBlock.base, ipBlock.excepts))

\* An ipBlock is refused only when an except lies outside its CIDR or the smallest
\* possible expansion exceeds the limit, and then it is refused always.
RefusedExactly ==
    result.done =>
        (~result.value.ok <=>
            /\ ipBlock.excepts # << >>
            /\ \/ \E i \in DOMAIN ipBlock.excepts :
                    ~(RangeStart(ipBlock.excepts[i]) .. RangeEnd(ipBlock.excepts[i])
                        \subseteq RangeStart(ipBlock.base) .. RangeEnd(ipBlock.base))
               \/ Cardinality(Maximal(Wanted(ipBlock.base, ipBlock.excepts)))
                    > MaxIPBlockExpansion)

\* An expansion covers the addresses of its CIDR that no except covers, each once and
\* with the fewest prefixes; it is refused for an except outside of it or for its size,
\* never otherwise (ExpandNativeIPBlock).
BlocksExact == ExpansionExact /\ RefusedExactly
==============================================================================
