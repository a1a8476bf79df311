------------------------- MODULE DurableLinksProofs -------------------------
(***************************************************************************)
(* Proofs about DurableLinks, for every set of cgroups: whenever the       *)
(* process dies the next one can start, no pinned link is forgotten and    *)
(* the ownership journal is exact.                                         *)
(***************************************************************************)
EXTENDS DurableLinks, TLAPS

Up == pc # "down"
Loops == {"retry", "rollback", "detach"}

\* The job under way belongs to the loop under way, and everything that only
\* some phases of Apply use is empty in the others.
Control ==
  /\ (job = Nobody) <=> (jobStep = "none")
  /\ jobStep # "none" => pc \in Loops \cup {"attach"} /\ job \in todo
  /\ pc \in Loops => jobStep \in {"none"} \cup Removing
  /\ pc # "retry" => ~failed
  /\ newLinks # {} => pc \in {"attach", "rollback"} \/ (pc \in {"clear", "prune"} /\ why = "rollback")
  /\ pc \in {"clear", "prune"} => why \in {"reclaim", "prepare", "rollback", "retire"}

\* What the engine keeps in memory of what is committed and owned.
Memory ==
  Up =>
    /\ memOwners = owner
    /\ applied = [subj |-> subj[active], class |-> class[active]]
    /\ orphans \cap links = {}
    /\ pc # "detach" => links = subj[active]

\* What each loop has still to visit.
Todo ==
  /\ pc = "retry" => todo \subseteq orphans /\ (~failed => todo = orphans)
  /\ pc = "rollback" => todo \cap links = {}
  /\ pc = "detach" => /\ todo = links \ subj[active] /\ subj[active] \subseteq links
                      /\ why = "unchanged" => todo = {}

\* Every pinned link is in one of the engine's sets.
Known ==
  Up => \A c \in Cgroups : pins[c] # {} =>
    \/ c \in links \cup orphans
    \/ pc = "attach" /\ (c \in newLinks \/ c = job)
    \/ pc = "rollback" /\ c \in todo

\* How far the removal of a pair has come; no committed subject is removed.
RemoveJob ==
  /\ jobStep \in Removing => job \notin subj[active]
  /\ jobStep = "unpin" /\ jobDir = Ingress => Egress \notin pins[job]
  /\ jobStep = "disown" => pins[job] = {}

\* The candidate in the inactive slot, and its new links.
CandidateSlot ==
  /\ pc = "prune" => subj[Inactive] = {} /\ class[Inactive] = {}
  /\ pc = "populate" => subj[Inactive] \subseteq desired.subj /\ class[Inactive] \subseteq desired.class
  /\ pc = "attach" => subj[Inactive] = desired.subj /\ class[Inactive] = desired.class
  /\ pc \in {"populate", "attach"} => class[Inactive] \subseteq owner /\ orphans = {}
  /\ pc \in {"clear", "prune"} /\ why = "prepare" => orphans = {}

NewPairs ==
  pc = "attach" =>
    /\ todo \cup newLinks = desired.subj \ links /\ todo \cap newLinks = {}
    /\ \A c \in newLinks : c \in owner /\ pins[c] = Dirs /\ stored[c] = Dirs
    /\ job # Nobody => job \in owner

\* How far the attachment of a pair has come.
AttachJob ==
  /\ jobStep = "store" => jobDir \in pins[job]
  /\ jobStep \in {"pin", "store"} /\ jobDir = Ingress => Egress \in pins[job] /\ Egress \in stored[job]
  /\ jobStep = "attached" => pins[job] = Dirs /\ stored[job] = Dirs

\* The ownership records that no committed or orphaned cgroup accounts for are
\* those that the pruning under way has still to visit.
Journal ==
  /\ pc = "prune" => \A c \in owner : c \in Committed \cup todo \/ pins[c] # {}
  /\ \/ pc = "idle" /\ ~pending
     \/ pc = "retry"
     \/ pc = "detach" /\ why = "unchanged"
     => owner \subseteq Committed \cup orphans

IInv ==
  /\ TypeOK
  /\ Recoverable
  /\ Control
  /\ Memory
  /\ Todo
  /\ Known
  /\ RemoveJob
  /\ CandidateSlot
  /\ NewPairs
  /\ AttachJob
  /\ Journal

\* An engine without a committed policy has an empty policy set.
LEMMA EmptyIsSet == EmptySet \in PolicySets
BY DEF EmptySet, PolicySets

-----------------------------------------------------------------------------
(* Every step preserves the invariant: one lemma per action.               *)

\* A cgroup that is gone needs no links.
LEMMA DiePreserves ==
  ASSUME IInv, NEW c \in Cgroups, Die(c)
  PROVE  IInv'
BY DEF IInv, TypeOK, Recoverable, Control, Memory, Todo, Known, RemoveJob, CandidateSlot,
   NewPairs, AttachJob, Journal, Inactive, Committed, Up, Die, kernelVars, jobVars,
   linkVars, cacheVars

\* A new process knows what is committed, and takes every other owner for an orphan
\* (recoverLinks).
LEMMA RecoverPreserves ==
  ASSUME IInv, Recover
  PROVE  IInv'
<1> USE DEF Recover, kernelVars, jobVars, linkVars, cacheVars
<1>1. TypeOK'
  BY DEF IInv, TypeOK, PolicySets
<1>2. Control'
  BY DEF IInv, Control, Loops
<1>3. Known'
  BY DEF IInv, Recoverable, Known, Up
<1>4. /\ Recoverable' /\ Memory' /\ Todo' /\ RemoveJob' /\ CandidateSlot' /\ NewPairs'
      /\ AttachJob' /\ Journal'
  BY DEF IInv, Recoverable, Memory, Todo, RemoveJob, CandidateSlot, NewPairs, AttachJob,
     Journal, Inactive, Committed, Up
<1> QED
  BY <1>1, <1>2, <1>3, <1>4 DEF IInv

\* The process dies: what is pinned stays as it is.
LEMMA CrashPreserves ==
  ASSUME IInv, Crash
  PROVE  IInv'
<1> USE DEF JobEnds, JobBegins, Crash, kernelVars, jobVars, linkVars, cacheVars
<1>1. TypeOK'
  BY ZenonT(30), EmptyIsSet DEF IInv, TypeOK, Dirs
<1>2. RemoveJob'
  BY DEF IInv, RemoveJob, Removing
<1>3. /\ Recoverable' /\ Control' /\ Memory' /\ Todo' /\ Known' /\ CandidateSlot'
      /\ NewPairs' /\ AttachJob' /\ Journal'
  BY DEF IInv, Recoverable, Control, Memory, Todo, Known, CandidateSlot, NewPairs,
     AttachJob, Journal, Inactive, Committed, Up
<1> QED
  BY <1>1, <1>2, <1>3 DEF IInv

\* Apply begins with what an earlier call has left.
LEMMA ApplyStartPreserves ==
  ASSUME IInv, NEW policy \in PolicySets, ApplyStart(policy)
  PROVE  IInv'
<1> USE DEF Begin, ApplyStart, kernelVars, jobVars, linkVars, cacheVars
<1>1. Control'
  BY DEF IInv, Control, Loops
<1>2. /\ TypeOK' /\ Recoverable' /\ Memory' /\ Todo' /\ Known' /\ RemoveJob'
      /\ CandidateSlot' /\ NewPairs' /\ AttachJob' /\ Journal'
  BY DEF IInv, TypeOK, Recoverable, Memory, Todo, Known, RemoveJob, CandidateSlot, NewPairs,
     AttachJob, Journal, Inactive, Committed, Up
<1> QED
  BY <1>1, <1>2 DEF IInv

\* The inactive slot is emptied; every owner is to be looked at.
LEMMA ClearSlotPreserves ==
  ASSUME IInv, ClearSlot
  PROVE  IInv'
<1> USE DEF Begin, ClearSlot, kernelVars, jobVars, linkVars, cacheVars
<1>1. TypeOK'
  BY DEF IInv, TypeOK, Slots, Other, Inactive
<1>2. Control'
  BY DEF IInv, Control, Loops
<1>3. Memory'
  BY DEF IInv, TypeOK, Memory, Slots, Other, Inactive, Up
<1>4. CandidateSlot'
  BY DEF IInv, TypeOK, CandidateSlot, Slots, Other, Inactive
<1>5. Journal'
  BY DEF IInv, Memory, Journal, Committed, Up
<1>6. Recoverable' /\ Todo' /\ Known' /\ RemoveJob' /\ NewPairs' /\ AttachJob'
  BY DEF IInv, Recoverable, Todo, Known, RemoveJob, NewPairs, AttachJob, Up
<1> QED
  BY <1>1, <1>2, <1>3, <1>4, <1>5, <1>6 DEF IInv

\* A slot that could not be emptied is pending.
LEMMA ClearFailsPreserves ==
  ASSUME IInv, ClearFails
  PROVE  IInv'
<1> USE DEF Return, Begin, ClearFails, kernelVars, jobVars, linkVars, cacheVars
<1>1. TypeOK'
  BY ZenonT(60), EmptyIsSet DEF IInv, TypeOK
<1>2. Control'
  BY DEF IInv, Control, Loops
<1>3. Memory'
  BY DEF IInv, TypeOK, Memory, Slots, Other, Inactive, Up
<1>4. /\ Recoverable' /\ Todo' /\ Known' /\ RemoveJob' /\ CandidateSlot' /\ NewPairs'
      /\ AttachJob' /\ Journal'
  BY DEF IInv, Recoverable, Todo, Known, RemoveJob, CandidateSlot, NewPairs, AttachJob,
     Journal, Inactive, Committed, Up
<1> QED
  BY <1>1, <1>2, <1>3, <1>4 DEF IInv

\* An owner goes only if nothing committed and nothing pinned needs it
\* (pruneUnreferencedOwners).
LEMMA PrunePreserves ==
  ASSUME IInv, NEW c \in Cgroups, Prune(c)
  PROVE  IInv'
<1> USE DEF Prune, kernelVars, jobVars, linkVars, cacheVars
<1>1. Recoverable'
  BY DEF IInv, Recoverable, Committed
<1>2. Control'
  BY DEF IInv, Control, Loops
<1>3. TypeOK' /\ Journal'
  BY DEF IInv, TypeOK, Journal, Committed
<1>4. Memory' /\ Todo' /\ Known' /\ RemoveJob' /\ CandidateSlot' /\ NewPairs' /\ AttachJob'
  BY DEF IInv, Memory, Todo, Known, RemoveJob, CandidateSlot, NewPairs, AttachJob, Inactive, Up
<1> QED
  BY <1>1, <1>2, <1>3, <1>4 DEF IInv

\* After the pruning every owner is committed or has a pinned link.
LEMMA PruneDonePreserves ==
  ASSUME IInv, PruneDone
  PROVE  IInv'
<1> USE DEF Return, Begin, PruneDone, kernelVars, jobVars, linkVars, cacheVars
<1>1. TypeOK'
  BY EmptyIsSet DEF IInv, TypeOK
<1>2. Journal'
  BY DEF IInv, TypeOK, Memory, Known, Journal, Committed, Up
<1>3. /\ Recoverable' /\ Control' /\ Memory' /\ Todo' /\ Known' /\ RemoveJob'
      /\ CandidateSlot' /\ NewPairs' /\ AttachJob'
  BY DEF IInv, Recoverable, Control, Memory, Todo, Known, RemoveJob, CandidateSlot,
     NewPairs, AttachJob, Inactive, Up
<1> QED
  BY <1>1, <1>2, <1>3 DEF IInv

\* A removal begins with a pair that is not committed.
LEMMA RemoveStartPreserves ==
  ASSUME IInv, NEW c \in Cgroups, RemoveStart(c)
  PROVE  IInv'
<1> USE DEF JobBegins, RemoveStart, kernelVars, jobVars, linkVars, cacheVars
<1>1. TypeOK'
  BY DEF IInv, TypeOK, Dirs
<1>2. Control'
  BY NobodyIsNoCgroup DEF IInv, Control, Removing, Loops
<1>3. RemoveJob'
  BY DEF IInv, Memory, Todo, RemoveJob, Egress, Ingress, Up
<1>4. /\ Recoverable' /\ Memory' /\ Todo' /\ Known' /\ CandidateSlot' /\ NewPairs'
      /\ AttachJob' /\ Journal'
  BY DEF IInv, Recoverable, Memory, Todo, Known, CandidateSlot, NewPairs, AttachJob,
     Journal, Inactive, Committed, Up
<1> QED
  BY <1>1, <1>2, <1>3, <1>4 DEF IInv

\* One direction after the other is unpinned (durableLinkPair.Remove).
LEMMA RemovePinPreserves ==
  ASSUME IInv, RemovePin
  PROVE  IInv'
<1> USE DEF RemovePin, kernelVars, jobVars, linkVars, cacheVars
<1>1. TypeOK'
  BY DEF IInv, TypeOK, Control, Dirs
<1>2. Recoverable'
  BY DEF IInv, Recoverable, RemoveJob, Removing
<1>3. Control'
  BY DEF IInv, Control, Removing
<1>4. RemoveJob'
  BY DEF IInv, TypeOK, Control, RemoveJob, Dirs, Removing
<1>5. NewPairs'
  BY DEF IInv, Control, NewPairs
<1>6. Journal'
  BY DEF IInv, Control, Journal, Committed
<1>7. Memory' /\ Todo' /\ Known' /\ CandidateSlot' /\ AttachJob'
  BY DEF IInv, Memory, Todo, Known, CandidateSlot, AttachJob, Inactive, Up
<1> QED
  BY <1>1, <1>2, <1>3, <1>4, <1>5, <1>6, <1>7 DEF IInv

\* The owner goes after both pins (durableLinkPair.Remove).
LEMMA RemoveDonePreserves ==
  ASSUME IInv, RemoveDone
  PROVE  IInv'
<1> USE DEF Removed, NextJob, JobEnds, JobBegins, Begin, RemoveDone, kernelVars, jobVars,
   linkVars, cacheVars
<1>1. TypeOK'
  BY DEF IInv, TypeOK, Dirs
<1>2. Recoverable'
  BY DEF IInv, Recoverable, RemoveJob, Removing
<1>3. Todo'
  BY DEF IInv, Control, Todo, NewPairs
<1>4. Known'
  BY DEF IInv, Known, RemoveJob, Up
<1>5. RemoveJob'
  BY DEF IInv, RemoveJob, Removing
<1>6. CandidateSlot'
  BY DEF IInv, Control, CandidateSlot, Inactive, Loops
<1>7. Control' /\ Memory' /\ NewPairs' /\ AttachJob' /\ Journal'
  BY DEF IInv, Control, Memory, NewPairs, AttachJob, Journal, Committed, Up
<1> QED
  BY <1>1, <1>2, <1>3, <1>4, <1>5, <1>6, <1>7 DEF IInv

\* What could not be removed becomes an orphan.
LEMMA RemoveFailsPreserves ==
  ASSUME IInv, RemoveFails
  PROVE  IInv'
<1> USE DEF NotRemoved, NextJob, JobEnds, JobBegins, Begin, RemoveFails, kernelVars,
   jobVars, linkVars, cacheVars
<1>1. Control'
  BY DEF IInv, TypeOK, Control
<1>2. TypeOK'
  BY DEF IInv, TypeOK, Dirs
<1>3. Memory'
  BY DEF IInv, Memory, Todo, RemoveJob, Up
<1>4. Todo'
  <2> PICK c \in Cgroups : /\ c \in todo
                           /\ NotRemoved(c) /\ NextJob(c)
    BY DEF IInv, Control, Removing
  <2> QED
    BY ZenonT(60) DEF IInv, Control, Memory, Todo, NewPairs, Up, Loops
<1>5. RemoveJob'
  BY DEF IInv, RemoveJob, Removing
<1>6. CandidateSlot'
  BY DEF IInv, Control, CandidateSlot, Inactive, Removing, Loops
<1>7. Journal'
  BY DEF IInv, Control, Journal, Committed, Removing, Loops
<1>8. Recoverable' /\ Known' /\ NewPairs' /\ AttachJob'
  BY DEF IInv, Recoverable, Known, NewPairs, AttachJob, Up
<1> QED
  BY <1>1, <1>2, <1>3, <1>4, <1>5, <1>6, <1>7, <1>8 DEF IInv

\* A call that ends with orphans changes nothing else.
LEMMA RetryGivesUpPreserves ==
  ASSUME IInv, RetryGivesUp
  PROVE  IInv'
<1> USE DEF Return, Begin, LoopDone, RetryGivesUp, kernelVars, jobVars, linkVars, cacheVars
<1>1. TypeOK'
  BY EmptyIsSet DEF IInv, TypeOK
<1>2. /\ Recoverable' /\ Control' /\ Memory' /\ Todo' /\ Known' /\ RemoveJob'
      /\ CandidateSlot' /\ NewPairs' /\ AttachJob' /\ Journal'
  BY DEF IInv, Recoverable, Control, Memory, Todo, Known, RemoveJob, CandidateSlot,
     NewPairs, AttachJob, Journal, Inactive, Committed, Up
<1> QED
  BY <1>1, <1>2 DEF IInv

\* No orphan is left when the candidate is looked at.
LEMMA ComparePreserves ==
  ASSUME IInv, Compare
  PROVE  IInv'
<1> USE DEF Begin, LoopDone, Compare, kernelVars, jobVars, linkVars, cacheVars
<1>1. Todo'
  BY DEF IInv, Memory, Todo, Up
<1>2. CandidateSlot'
  BY DEF IInv, Todo, CandidateSlot, Inactive
<1>3. /\ TypeOK' /\ Recoverable' /\ Control' /\ Memory' /\ Known' /\ RemoveJob' /\ NewPairs'
      /\ AttachJob' /\ Journal'
  BY DEF IInv, TypeOK, Recoverable, Control, Memory, Known, RemoveJob, NewPairs, AttachJob,
     Journal, Committed, Up
<1> QED
  BY <1>1, <1>2, <1>3 DEF IInv

\* The candidate's subjects are written to the inactive slot.
LEMMA PopulateSubjectPreserves ==
  ASSUME IInv, NEW c \in Cgroups, PopulateSubject(c)
  PROVE  IInv'
<1> USE DEF PopulateSubject, kernelVars, jobVars, linkVars, cacheVars
<1>1. TypeOK'
  BY DEF IInv, TypeOK, Slots, Other, Inactive
<1>2. Recoverable'
  BY DEF IInv, TypeOK, Recoverable, Slots, Other, Inactive
<1>3. Memory'
  BY DEF IInv, TypeOK, Memory, Slots, Other, Inactive, Up
<1>4. RemoveJob'
  BY DEF IInv, Control, RemoveJob, Removing, Loops
<1>5. Control' /\ Todo' /\ Known' /\ CandidateSlot' /\ NewPairs' /\ AttachJob' /\ Journal'
  BY DEF IInv, Control, Todo, Known, CandidateSlot, NewPairs, AttachJob, Journal, Inactive,
     Committed, Up
<1> QED
  BY <1>1, <1>2, <1>3, <1>4, <1>5 DEF IInv

\* A classified cgroup has an owner before it is in the slot (rememberOwner).
LEMMA ClassifyPreserves ==
  ASSUME IInv, NEW c \in Cgroups, Classify(c)
  PROVE  IInv'
<1> USE DEF RememberOwner, Begin, Classify, kernelVars, jobVars, linkVars, cacheVars
<1>1. Recoverable' /\ CandidateSlot'
  BY DEF IInv, TypeOK, Recoverable, CandidateSlot, Inactive
<1>2. Control'
  BY DEF IInv, Control, Loops
<1>3. Memory'
  BY DEF IInv, TypeOK, Memory, Slots, Other, Inactive, Up
<1>4. TypeOK' /\ Todo' /\ Known' /\ RemoveJob' /\ NewPairs' /\ AttachJob' /\ Journal'
  BY DEF IInv, TypeOK, Todo, Known, RemoveJob, NewPairs, AttachJob, Journal, Committed, Up
<1> QED
  BY <1>1, <1>2, <1>3, <1>4 DEF IInv

\* The candidate is given up before anything is attached.
LEMMA PopulateFailsPreserves ==
  ASSUME IInv, PopulateFails
  PROVE  IInv'
<1> USE DEF Begin, PopulateFails, kernelVars, jobVars, linkVars, cacheVars
<1>1. Control'
  BY DEF IInv, Control, Loops
<1>2. /\ TypeOK' /\ Recoverable' /\ Memory' /\ Todo' /\ Known' /\ RemoveJob'
      /\ CandidateSlot' /\ NewPairs' /\ AttachJob' /\ Journal'
  BY DEF IInv, TypeOK, Recoverable, Memory, Todo, Known, RemoveJob, CandidateSlot, NewPairs,
     AttachJob, Journal, Inactive, Committed, Up
<1> QED
  BY <1>1, <1>2 DEF IInv

\* The subjects without a link are to be attached.
LEMMA PopulateDonePreserves ==
  ASSUME IInv, PopulateDone
  PROVE  IInv'
<1> USE DEF Begin, PopulateDone, kernelVars, jobVars, linkVars, cacheVars
<1>1. TypeOK'
  BY DEF IInv, TypeOK, PolicySets
<1>2. Control'
  BY DEF IInv, Control, Loops
<1>3. NewPairs'
  BY DEF IInv, Control, NewPairs, Loops
<1>4. /\ Recoverable' /\ Memory' /\ Todo' /\ Known' /\ RemoveJob' /\ CandidateSlot'
      /\ AttachJob' /\ Journal'
  BY DEF IInv, Recoverable, Memory, Todo, Known, RemoveJob, CandidateSlot, AttachJob,
     Journal, Inactive, Committed, Up
<1> QED
  BY <1>1, <1>2, <1>3, <1>4 DEF IInv

\* The owner is recorded before the first pin (attachPersistent).
LEMMA AttachStartPreserves ==
  ASSUME IInv, NEW c \in Cgroups, AttachStart(c)
  PROVE  IInv'
<1> USE DEF RememberOwner, JobBegins, AttachStart, kernelVars, jobVars, linkVars, cacheVars
<1>1. TypeOK'
  BY DEF IInv, TypeOK, Dirs
<1>2. Control'
  BY NobodyIsNoCgroup DEF IInv, Control, Loops
<1>3. Known'
  BY NobodyIsNoCgroup DEF IInv, Known, Up
<1>4. RemoveJob'
  BY DEF IInv, RemoveJob, Removing
<1>5. AttachJob'
  BY DEF IInv, AttachJob, Egress, Ingress
<1>6. Recoverable' /\ Memory' /\ Todo' /\ CandidateSlot' /\ NewPairs' /\ Journal'
  BY DEF IInv, Recoverable, Memory, Todo, CandidateSlot, NewPairs, Journal, Inactive,
     Committed, Up
<1> QED
  BY <1>1, <1>2, <1>3, <1>4, <1>5, <1>6 DEF IInv

\* A link is pinned for a cgroup that has an owner.
LEMMA AttachPinPreserves ==
  ASSUME IInv, AttachPin
  PROVE  IInv'
<1> USE DEF AttachPin, kernelVars, jobVars, linkVars, cacheVars
<1>1. NewPairs'
  BY DEF IInv, TypeOK, NewPairs
<1>2. TypeOK'
  BY DEF IInv, TypeOK, Control
<1>3. Recoverable'
  BY DEF IInv, TypeOK, Recoverable, Control, NewPairs, Removing
<1>4. Control'
  BY DEF IInv, Control, Removing
<1>5. Known'
  BY DEF IInv, Control, Todo, Known, Up, Loops
<1>6. RemoveJob'
  BY DEF IInv, RemoveJob, Removing
<1>7. AttachJob'
  BY DEF IInv, TypeOK, Control, AttachJob
<1>8. Memory' /\ Todo' /\ CandidateSlot' /\ Journal'
  BY DEF IInv, Memory, Todo, CandidateSlot, Journal, Inactive, Committed, Up
<1> QED
  BY <1>1, <1>2, <1>3, <1>4, <1>5, <1>6, <1>7, <1>8 DEF IInv

\* The identity is stored after the pin.
LEMMA AttachStorePreserves ==
  ASSUME IInv, AttachStore
  PROVE  IInv'
<1> USE DEF AttachStore, kernelVars, jobVars, linkVars, cacheVars
<1>1. Recoverable' /\ NewPairs'
  BY DEF IInv, TypeOK, Recoverable, NewPairs
<1>2. TypeOK'
  BY DEF IInv, TypeOK, Control, Dirs
<1>3. Control'
  BY DEF IInv, Control, Removing
<1>4. RemoveJob'
  BY DEF IInv, RemoveJob, Removing
<1>5. AttachJob'
  BY DEF IInv, TypeOK, Control, AttachJob, Dirs
<1>6. Memory' /\ Todo' /\ Known' /\ CandidateSlot' /\ Journal'
  BY DEF IInv, Memory, Todo, Known, CandidateSlot, Journal, Inactive, Committed, Up
<1> QED
  BY <1>1, <1>2, <1>3, <1>4, <1>5, <1>6 DEF IInv

\* A finished pair has both pins and both identities.
LEMMA AttachDonePreserves ==
  ASSUME IInv, AttachDone
  PROVE  IInv'
<1> USE DEF JobEnds, JobBegins, AttachDone, kernelVars, jobVars, linkVars, cacheVars
<1>1. TypeOK'
  BY DEF IInv, TypeOK, Control, Dirs
<1>2. Control'
  BY DEF IInv, Control, Removing
<1>3. Todo'
  BY DEF IInv, Control, Todo, Removing
<1>4. Known'
  BY DEF IInv, Control, Known, Removing, Up
<1>5. RemoveJob'
  BY DEF IInv, RemoveJob, Removing
<1>6. NewPairs'
  BY DEF IInv, Control, NewPairs, AttachJob
<1>7. Journal'
  BY DEF IInv, TypeOK, AttachJob, Journal, Committed
<1>8. Recoverable' /\ Memory' /\ CandidateSlot' /\ AttachJob'
  BY DEF IInv, Recoverable, Memory, CandidateSlot, AttachJob, Inactive, Up
<1> QED
  BY <1>1, <1>2, <1>3, <1>4, <1>5, <1>6, <1>7, <1>8 DEF IInv

\* A partial pair is removed; it is not committed.
LEMMA AttachFailsPreserves ==
  ASSUME IInv, AttachFails
  PROVE  IInv'
<1> USE DEF JobBegins, AttachFails, kernelVars, jobVars, linkVars, cacheVars
<1>1. TypeOK'
  BY DEF IInv, TypeOK, Dirs
<1>2. RemoveJob'
  BY DEF IInv, Control, Memory, RemoveJob, NewPairs, Egress, Ingress, Up
<1>3. /\ Recoverable' /\ Control' /\ Memory' /\ Todo' /\ Known' /\ CandidateSlot'
      /\ NewPairs' /\ AttachJob' /\ Journal'
  BY DEF IInv, Recoverable, Control, Memory, Todo, Known, CandidateSlot, NewPairs,
     AttachJob, Journal, Inactive, Committed, Up
<1> QED
  BY <1>1, <1>2, <1>3 DEF IInv

\* The new pairs are rolled back.
LEMMA CandidateFailsPreserves ==
  ASSUME IInv, CandidateFails
  PROVE  IInv'
<1> USE DEF Begin, CandidateFails, kernelVars, jobVars, linkVars, cacheVars
<1>1. Todo'
  BY DEF IInv, Todo, NewPairs
<1>2. Known'
  BY NobodyIsNoCgroup DEF IInv, Known, Up
<1>3. /\ TypeOK' /\ Recoverable' /\ Control' /\ Memory' /\ RemoveJob' /\ CandidateSlot'
      /\ NewPairs' /\ AttachJob' /\ Journal'
  BY DEF IInv, TypeOK, Recoverable, Control, Memory, RemoveJob, CandidateSlot, NewPairs,
     AttachJob, Journal, Inactive, Committed, Up
<1> QED
  BY <1>1, <1>2, <1>3 DEF IInv

\* Every new pair is gone or an orphan.
LEMMA RollbackDonePreserves ==
  ASSUME IInv, RollbackDone
  PROVE  IInv'
BY DEF IInv, TypeOK, Recoverable, Control, Memory, Todo, Known, RemoveJob, CandidateSlot,
   NewPairs, AttachJob, Journal, Inactive, Committed, Up, Begin, LoopDone, RollbackDone,
   kernelVars, jobVars, linkVars, cacheVars

\* The commit: every subject of the candidate has its links by now.
LEMMA FlipPreserves ==
  ASSUME IInv, Flip
  PROVE  IInv'
<1> USE DEF Begin, LoopDone, Flip, kernelVars, jobVars, linkVars, cacheVars
<1>1. TypeOK'
  BY DEF IInv, TypeOK, Slots, Other, Inactive
<1>2. Recoverable'
  BY DEF IInv, Recoverable, Memory, CandidateSlot, NewPairs, Up
<1>3. Memory'
  BY DEF IInv, TypeOK, Memory, CandidateSlot, Up, PolicySets
<1>4. Todo'
  BY DEF IInv, Todo, CandidateSlot, NewPairs
<1>5. Known'
  BY NobodyIsNoCgroup DEF IInv, Known, Up
<1>6. RemoveJob'
  BY DEF IInv, Control, RemoveJob, Removing
<1>7. Control' /\ CandidateSlot' /\ NewPairs' /\ AttachJob' /\ Journal'
  BY DEF IInv, Control, CandidateSlot, NewPairs, AttachJob, Journal, Inactive, Committed
<1> QED
  BY <1>1, <1>2, <1>3, <1>4, <1>5, <1>6, <1>7 DEF IInv

\* The links are those of the committed subjects again.
LEMMA DetachDonePreserves ==
  ASSUME IInv, DetachDone
  PROVE  IInv'
<1> USE DEF Return, Begin, LoopDone, DetachDone, kernelVars, jobVars, linkVars, cacheVars
<1>1. TypeOK'
  BY EmptyIsSet DEF IInv, TypeOK
<1>2. Memory'
  BY EmptyIsSet DEF IInv, Control, Memory, Todo, Dirs, Up
<1>3. /\ Recoverable' /\ Control' /\ Todo' /\ Known' /\ RemoveJob' /\ CandidateSlot'
      /\ NewPairs' /\ AttachJob' /\ Journal'
  BY DEF IInv, Recoverable, Control, Todo, Known, RemoveJob, CandidateSlot, NewPairs,
     AttachJob, Journal, Inactive, Committed, Up
<1> QED
  BY <1>1, <1>2, <1>3 DEF IInv

-----------------------------------------------------------------------------
\* A node without anything pinned satisfies the invariant.
LEMMA InitEstablishes == Init => IInv
<1> USE DEF Init, EmptySet, Slots, Dirs, Committed, Inactive, Other, Up, Loops
<1>1. Init => TypeOK
  BY EmptyIsSet DEF TypeOK
<1>2. Init => Recoverable /\ Control /\ Memory /\ Todo /\ Known
  BY DEF Recoverable, Control, Memory, Todo, Known, Removing
<1>3. Init => RemoveJob /\ CandidateSlot /\ NewPairs /\ AttachJob /\ Journal
  BY DEF RemoveJob, CandidateSlot, NewPairs, AttachJob, Journal, Removing
<1> QED
  BY <1>1, <1>2, <1>3 DEF IInv

\* Stuttering keeps what the invariant is about.
LEMMA StutterPreserves ==
  ASSUME IInv, UNCHANGED vars
  PROVE  IInv'
BY DEF IInv, TypeOK, Recoverable, Control, Memory, Todo, Known, RemoveJob, CandidateSlot,
   NewPairs, AttachJob, Journal, Inactive, Committed, Up, vars, kernelVars, jobVars,
   linkVars, cacheVars

\* Every step of an apply preserves the invariant.
LEMMA ApplyStepPreserves ==
  ASSUME IInv, ApplyStep
  PROVE  IInv'
<1>1. CASE ClearSlot \/ ClearFails \/ PruneDone \/ \E c \in Cgroups : Prune(c)
  BY <1>1, ClearSlotPreserves, ClearFailsPreserves, PruneDonePreserves, PrunePreserves
<1>2. CASE RemovePin \/ RemoveDone \/ RemoveFails \/ \E c \in Cgroups : RemoveStart(c)
  BY <1>2, RemovePinPreserves, RemoveDonePreserves, RemoveFailsPreserves,
     RemoveStartPreserves
<1>3. CASE RetryGivesUp \/ Compare \/ PopulateFails \/ PopulateDone
  BY <1>3, RetryGivesUpPreserves, ComparePreserves, PopulateFailsPreserves,
     PopulateDonePreserves
<1>4. CASE \E c \in Cgroups : PopulateSubject(c) \/ Classify(c)
  BY <1>4, PopulateSubjectPreserves, ClassifyPreserves
<1>5. CASE AttachPin \/ AttachStore \/ AttachDone \/ AttachFails \/ \E c \in Cgroups : AttachStart(c)
  BY <1>5, AttachPinPreserves, AttachStorePreserves, AttachDonePreserves,
     AttachFailsPreserves, AttachStartPreserves
<1>6. CASE CandidateFails \/ RollbackDone \/ Flip \/ DetachDone
  BY <1>6, CandidateFailsPreserves, RollbackDonePreserves, FlipPreserves,
     DetachDonePreserves
<1> QED
  BY <1>1, <1>2, <1>3, <1>4, <1>5, <1>6 DEF ApplyStep

\* So does every other step of the agent, a crash included.
LEMMA StepPreserves == IInv /\ [Next]_vars => IInv'
<1> SUFFICES ASSUME IInv, [Next]_vars
             PROVE  IInv'
  OBVIOUS
<1>1. CASE \E c \in Cgroups : Die(c)
  BY <1>1, DiePreserves
<1>2. CASE Recover \/ Crash
  BY <1>2, RecoverPreserves, CrashPreserves
<1>3. CASE \E policy \in PolicySets : ApplyStart(policy)
  BY <1>3, ApplyStartPreserves
<1>4. CASE ApplyStep
  BY <1>4, ApplyStepPreserves
<1>5. CASE UNCHANGED vars
  BY <1>5, StutterPreserves
<1> QED
  BY <1>1, <1>2, <1>3, <1>4, <1>5 DEF Next

\* The inductive invariant of Apply, recovery and crashes.
THEOREM Invariant == Spec => []IInv
BY InitEstablishes, StepPreserves, PTL DEF Spec

\* Whenever the process dies, at any step of Apply, the next one can start:
\* every live committed subject has both links pinned with their identity, and
\* everything committed or pinned has its ownership record, for any set of
\* cgroups and whatever fails (attachPersistent, durableLinkPair.Remove,
\* recoverLinks).
THEOREM RecoveryAlwaysSucceeds == Spec => []RecoverySucceeds
<1>1. IInv => RecoverySucceeds
  BY DEF IInv, RecoverySucceeds
<1> QED
  BY <1>1, Invariant, PTL

\* Between calls every pinned link is one of a committed subject or an orphan
\* that the next Apply removes first: neither a failed attachment, a failed
\* rollback nor a failed removal makes the engine forget a link (Apply,
\* retryOrphanLinks, rollbackCandidate).
THEOREM NoLinkIsForgotten == Spec => []NoLinkForgotten
<1>1. IInv => NoLinkForgotten
  BY DEF IInv, Memory, Known, Up, NoLinkForgotten
<1> QED
  BY <1>1, Invariant, PTL

\* The journal holds exactly the committed cgroups once nothing is left to
\* clean up, and the engine's copy of it is the pinned one
\* (pruneUnreferencedOwners, rememberOwner).
THEOREM BookkeepingIsExact == Spec => []BookkeepingExact
<1>1. IInv => JournalExact
  <2> SUFFICES ASSUME IInv, pc = "idle", ~pending, orphans = {}
               PROVE  owner = Committed /\ memOwners = owner
    BY DEF JournalExact
  <2>1. owner \subseteq Committed
    BY DEF IInv, Journal
  <2>2. Committed \subseteq owner
    BY DEF IInv, Recoverable, Committed, Memory, Up
  <2> QED
    BY <2>1, <2>2 DEF IInv, Memory, Up
<1>2. IInv => BookkeepingExact
  BY <1>1 DEF IInv, BookkeepingExact
<1> QED
  BY <1>2, Invariant, PTL
=============================================================================
