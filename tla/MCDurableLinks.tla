--------------------------- MODULE MCDurableLinks ---------------------------
(* Instances of DurableLinks for TLC.                                      *)
EXTENDS DurableLinks, TLC

CONSTANTS c1, c2

OneCgroup == {c1}
TwoCgroups == {c1, c2}

\* Cgroups are interchangeable.
Symmetry == Permutations(TwoCgroups)
=============================================================================
