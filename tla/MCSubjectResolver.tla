------------------------- MODULE MCSubjectResolver -------------------------
(* Two containers in one Pod and a third in another. *)
EXTENDS SubjectResolver, TLC
CONSTANTS p1, p2

OwnPods == [c \in {1, 2, 3} |-> IF c = 3 THEN p2 ELSE p1]

Local(running, foreign) ==
    [kind |-> "local", qos |-> "burstable", running |-> running, foreign |-> foreign]
Without(kind) == [kind |-> kind, qos |-> "burstable", running |-> {}, foreign |-> FALSE]
Both(one, two) == [p \in {p1, p2} |-> IF p = p1 THEN one ELSE two]

\* Everything runs; a Pod has lost a container, has one of another runtime, or is gone.
MCShown ==
    {Both(Local({1, 2}, FALSE), Local({3}, FALSE)),
     Both(Local({1, 2}, TRUE), Without("terminal")),
     Both(Local({2}, FALSE), Local({3}, TRUE)),
     Both(Without("remote"), Local({3}, FALSE))}

InodeSymmetry == Permutations(Inodes)
=============================================================================
