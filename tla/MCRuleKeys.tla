---------------------------- MODULE MCRuleKeys ----------------------------
(* Rules whose prefixes overlap or are equal once masked, in both          *)
(* directions, with the smallest and the largest port.                     *)
EXTENDS RuleKeys

KeyRule(c, d, t, n, a, b) ==
    [cgroup |-> c, direction |-> d, protocol |-> t, port |-> n, peer |-> a, bits |-> b]

SomeRules == {
    KeyRule(1, Egress, 1, 1, 0, 0),   \* any peer
    KeyRule(1, Egress, 1, 1, 3, 1),   \* the upper half, not masked
    KeyRule(1, Egress, 1, 1, 2, 1),   \* the same, masked
    KeyRule(1, Ingress, 1, 1, 2, 2),  \* one peer, the other direction
    KeyRule(1, Egress, 3, 3, 1, 2),   \* all bits of protocol and port set
    KeyRule(2, Ingress, 3, 3, 1, 1)}  \* another cgroup

\* Every pair of them, and the three that overlap.
SmallSets ==
    {s \in SUBSET SomeRules : Cardinality(s) <= 2}
    \cup {{r \in SomeRules : r.direction = Egress /\ r.protocol = 1}}
=============================================================================
