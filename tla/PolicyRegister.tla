--------------------------- MODULE PolicyRegister ---------------------------
(***************************************************************************)
(* What the enforcement engine promises its packets.                       *)
(*                                                                         *)
(* The node's policy is one register.  A commit appends one whole policy,  *)
(* numbered by its epoch.  A packet arrives, and is then either judged by  *)
(* one whole policy that was current at some moment since it arrived, or   *)
(* dropped without being judged.  Nothing in this module knows of slots,   *)
(* maps, reader counters or an agent that may crash.                       *)
(***************************************************************************)
EXTENDS Naturals

CONSTANTS
  Packets,   \* packet program invocations
  Entries,   \* map entries a policy is made of
  MaxEpoch   \* the last policy epoch

VARIABLES
  current,   \* epoch of the policy in force
  log,       \* log[e] is the policy committed at epoch e, for e <= current
  stage,     \* stage[p]: "away", "arrived" or "judged"
  since,     \* since[p]: the epoch in force when p arrived
  view       \* view[p]: the policy that judges p

rvars == <<current, log, stage, since, view>>

Init ==
  /\ current = 0
  /\ log = [e \in 0..MaxEpoch |-> {}]
  /\ stage = [p \in Packets |-> "away"]
  /\ since = [p \in Packets |-> 0]
  /\ view = [p \in Packets |-> {}]

Commit(policy) ==
  /\ current < MaxEpoch
  /\ current' = current + 1
  /\ log' = [log EXCEPT ![current + 1] = policy]
  /\ UNCHANGED <<stage, since, view>>

Arrive(p) ==
  /\ stage[p] = "away"
  /\ stage' = [stage EXCEPT ![p] = "arrived"]
  /\ since' = [since EXCEPT ![p] = current]
  /\ UNCHANGED <<current, log, view>>

Judge(p) ==
  /\ stage[p] = "arrived"
  /\ stage' = [stage EXCEPT ![p] = "judged"]
  /\ \E e \in since[p]..current : view' = [view EXCEPT ![p] = log[e]]
  /\ UNCHANGED <<current, log, since>>

Depart(p) ==
  /\ stage[p] \in {"arrived", "judged"}
  /\ stage' = [stage EXCEPT ![p] = "away"]
  /\ since' = [since EXCEPT ![p] = 0]
  /\ view' = [view EXCEPT ![p] = {}]
  /\ UNCHANGED <<current, log>>

Next ==
  \/ \E policy \in SUBSET Entries : Commit(policy)
  \/ \E p \in Packets : Arrive(p) \/ Judge(p) \/ Depart(p)

Spec == Init /\ [][Next]_rvars
=============================================================================
