------------------------------ MODULE MCIPBlocks ------------------------------
(* Every ipBlock with up to MaxExcepts exceptions.  The host bits of a prefix are all
   clear or, where there is at most one exception, all set. *)
EXTENDS BlockExpansion, TLC

CONSTANTS MaxExcepts

Ends == {p \in AllPrefixes : p.addr \in {RangeStart(p), RangeEnd(p)}}
Canonical == {p \in Ends : p.addr = RangeStart(p)}

MCBlockInputs ==
    [base : Ends, excepts : {<< >>} \cup [{1} -> Ends]]
    \cup UNION {[base : Canonical, excepts : [1 .. n -> Canonical]] : n \in 2 .. MaxExcepts}
==============================================================================
