---------------------------- MODULE DurableLinks ----------------------------
(***************************************************************************)
(* The attachments of the policy programs to workload cgroups, through the *)
(* transactions of engineCore.Apply and across restarts of the agent.      *)
(*                                                                         *)
(* Two links (egress and ingress) are attached to every subject's cgroup   *)
(* and pinned in bpffs, so that enforcement survives the agent.  A durable *)
(* ownership record per cgroup is the journal of those pins: a new process *)
(* refuses to start if a pin has no owner, or a live committed subject     *)
(* lacks a link.  Every kernel write is a step of its own here and the     *)
(* process may die between any two of them; any store call may fail.       *)
(*                                                                         *)
(* Waiting for packet readers is part of clearing a slot here; module      *)
(* PolicySlots models it.                                                  *)
(***************************************************************************)
EXTENDS Naturals

CONSTANTS
  Cgroups,   \* workload cgroups; an ID is never reused
  Nobody     \* no cgroup

ASSUME NobodyIsNoCgroup == Nobody \notin Cgroups

Slots == {0, 1}
Other(s) == 1 - s
Egress == "egress"
Ingress == "ingress"
Dirs == {Egress, Ingress}

\* A policy set: the subjects, which get links, and the classified cgroups,
\* which the workload guard lets through.
PolicySets == [subj : SUBSET Cgroups, class : SUBSET Cgroups]

VARIABLES
  \* the kernel: cgroups, pinned maps and pinned links
  live,       \* cgroups that exist
  active,     \* the committed slot
  everCommitted,  \* the committed policy epoch is not zero
  subj,       \* subj[s]: the keys of subject_state in slot s
  class,      \* class[s]: the keys of workload_class in slot s
  owner,      \* the keys of the durable ownership map
  pins,       \* pins[c]: the directions whose link is attached and pinned
  stored,     \* stored[c]: the directions with a cgroup identity in attached_cgroup
  \* the agent
  pc,         \* "down", "idle", or the phase of Apply
  why,        \* what the clearing or the detaching under way is for
  desired,    \* the candidate of the Apply call
  todo,       \* cgroups the loop under way has still to visit
  job, jobStep, jobDir,   \* the cgroup being attached or removed, and how far
  failed,     \* an error was collected by retryOrphanLinks
  links, newLinks, orphans,   \* engineCore.links, Apply's newLinks, orphanLinks
  memOwners,  \* linuxEngineStore.owners
  applied, hasApplied, pending

kernelVars == <<live, active, everCommitted, subj, class, owner, pins, stored>>
cacheVars == <<applied, hasApplied>>
linkVars == <<links, newLinks, orphans>>
jobVars == <<job, jobStep, jobDir>>
vars == <<kernelVars, pc, why, desired, todo, jobVars, failed, linkVars, memOwners, cacheVars, pending>>

JobBegins(c, step) == job' = c /\ jobStep' = step /\ jobDir' = Egress
JobEnds == JobBegins(Nobody, "none")

EmptySet == [subj |-> {}, class |-> {}]
Inactive == Other(active)
Committed == subj[active] \cup class[active]

Init ==
  /\ live = Cgroups
  /\ active = 0 /\ everCommitted = FALSE
  /\ subj = [s \in Slots |-> {}] /\ class = [s \in Slots |-> {}]
  /\ owner = {}
  /\ pins = [c \in Cgroups |-> {}] /\ stored = [c \in Cgroups |-> {}]
  /\ pc = "down" /\ why = "none" /\ desired = EmptySet /\ todo = {}
  /\ job = Nobody /\ jobStep = "none" /\ jobDir = Egress /\ failed = FALSE
  /\ links = {} /\ newLinks = {} /\ orphans = {} /\ memOwners = {}
  /\ applied = EmptySet /\ hasApplied = FALSE /\ pending = FALSE

\* A workload ends; its links no longer filter anything, but their pins stay.
Die(c) ==
  /\ c \in live
  /\ live' = live \ {c}
  /\ UNCHANGED <<active, everCommitted, subj, class, owner, pins, stored, pc, why, desired, todo,
                 jobVars, failed, linkVars, memOwners, cacheVars, pending>>
-----------------------------------------------------------------------------
(* Start and stop of the process.                                          *)

\* What recoverLinks, validatePinInventory and engineCore.recover insist on.
Recoverable ==
  /\ \A c \in subj[active] :
       /\ c \in owner
       /\ c \in live => pins[c] = Dirs /\ stored[c] = Dirs
  /\ \A c \in class[active] : c \in owner
  /\ \A c \in Cgroups : pins[c] # {} => c \in owner

\* Owners that are no committed subjects become orphans, to be removed by the
\* next Apply; the inactive slot is left for it to reclaim.
Recover ==
  /\ pc = "down" /\ Recoverable
  /\ pc' = "idle"
  /\ links' = subj[active]
  /\ orphans' = owner \ subj[active]
  /\ memOwners' = owner
  /\ applied' = [subj |-> subj[active], class |-> class[active]]
  /\ hasApplied' = everCommitted
  /\ pending' = TRUE
  /\ UNCHANGED <<kernelVars, why, desired, todo, jobVars, failed, newLinks>>

\* The process dies or closes its handles; pins keep the links attached.
Crash ==
  /\ pc # "down"
  /\ pc' = "down" /\ why' = "none" /\ desired' = EmptySet /\ todo' = {}
  /\ JobEnds /\ failed' = FALSE
  /\ links' = {} /\ newLinks' = {} /\ orphans' = {} /\ memOwners' = {}
  /\ applied' = EmptySet /\ hasApplied' = FALSE /\ pending' = FALSE
  /\ UNCHANGED kernelVars
-----------------------------------------------------------------------------
(* Apply: helpers.                                                         *)

Begin(phase, purpose, set) == pc' = phase /\ why' = purpose /\ todo' = set

Return ==
  /\ Begin("idle", "none", {})
  /\ desired' = EmptySet /\ failed' = FALSE /\ newLinks' = {}

\* Apply up to its first write.  ValidateCandidate refuses while a committed
\* cgroup has no owner in memory; its other refusals change nothing.
ApplyStart(policy) ==
  /\ pc = "idle" /\ Committed \subseteq memOwners
  /\ desired' = policy
  /\ IF pending THEN Begin("clear", "reclaim", {}) ELSE Begin("retry", "none", orphans)
  /\ UNCHANGED <<kernelVars, jobVars, failed, linkVars, memOwners, cacheVars, pending>>

-----------------------------------------------------------------------------
(* ClearSlot on the inactive slot, and pruneUnreferencedOwners.            *)

ClearSlot ==
  /\ pc = "clear"
  /\ subj' = [subj EXCEPT ![Inactive] = {}]
  /\ class' = [class EXCEPT ![Inactive] = {}]
  /\ Begin("prune", why, memOwners)
  /\ UNCHANGED <<live, active, everCommitted, owner, pins, stored, desired, jobVars, failed, linkVars,
                 memOwners, cacheVars, pending>>

\* The wait for readers, a map deletion or the pruning fails: whatever is left
\* in the slot is pending, as it was already if it was being reclaimed.
ClearFails ==
  /\ pc \in {"clear", "prune"}
  /\ \E s \in SUBSET subj[Inactive], k \in SUBSET class[Inactive] :
       /\ subj' = [subj EXCEPT ![Inactive] = s]
       /\ class' = [class EXCEPT ![Inactive] = k]
  /\ pending' = TRUE
  /\ Return
  /\ UNCHANGED <<live, active, everCommitted, owner, pins, stored, jobVars, links, orphans, memOwners,
                 cacheVars>>

\* Mutant: an owner whose links are still pinned is dropped.
PruneUnlessCommitted(c) ==
  /\ pc = "prune" /\ c \in todo
  /\ todo' = todo \ {c}
  /\ IF c \in Committed
       THEN UNCHANGED <<owner, memOwners>>
       ELSE owner' = owner \ {c} /\ memOwners' = memOwners \ {c}
  /\ UNCHANGED <<live, active, everCommitted, subj, class, pins, stored, pc, why, desired, jobVars,
                 failed, linkVars, cacheVars, pending>>

Prune(c) ==
  /\ pc = "prune" /\ c \in todo
  /\ todo' = todo \ {c}
  /\ IF c \in Committed \/ pins[c] # {}
       THEN UNCHANGED <<owner, memOwners>>
       ELSE owner' = owner \ {c} /\ memOwners' = memOwners \ {c}
  /\ UNCHANGED <<live, active, everCommitted, subj, class, pins, stored, pc, why, desired, jobVars,
                 failed, linkVars, cacheVars, pending>>

\* Return, too, where the context is cancelled before the candidate is written.
PruneDone ==
  /\ pc = "prune" /\ todo = {}
  /\ \/ /\ why = "reclaim"
        /\ Begin("retry", "none", orphans) /\ pending' = FALSE
        /\ UNCHANGED <<desired, failed, newLinks>>
     \/ /\ why = "prepare"
        /\ Begin("populate", "none", {})
        /\ UNCHANGED <<desired, failed, newLinks, pending>>
     \/ why \in {"prepare", "rollback"} /\ Return /\ UNCHANGED pending
     \/ why = "retire" /\ Return /\ pending' = FALSE
  /\ UNCHANGED <<kernelVars, jobVars, links, orphans, memOwners, cacheVars>>
-----------------------------------------------------------------------------
(* durableLinkPair.Remove, called in a loop by retryOrphanLinks,           *)
(* rollbackCandidate and closeRemovedLinks, and for a partial pair.        *)

Removing == {"unpin", "disown"}

RemoveStart(c) ==
  /\ pc \in {"retry", "rollback", "detach"} /\ job = Nobody
  /\ c \in todo
  /\ JobBegins(c, "unpin")
  /\ UNCHANGED <<kernelVars, pc, why, desired, todo, failed, linkVars, memOwners, cacheVars, pending>>

\* The committed configuration is read again before anything is unpinned.
RemovePin ==
  /\ jobStep = "unpin"
  /\ jobDir = Egress => job \notin subj[active]
  /\ pins' = [pins EXCEPT ![job] = @ \ {jobDir}]
  /\ jobDir' = Ingress /\ jobStep' = IF jobDir = Egress THEN "unpin" ELSE "disown"
  /\ UNCHANGED <<live, active, everCommitted, subj, class, owner, stored, pc, why, desired, todo, job,
                 failed, linkVars, memOwners, cacheVars, pending>>

\* What the caller does with a pair that is gone.
Removed(c) ==
  /\ links' = IF pc = "detach" THEN links \ {c} ELSE links
  /\ orphans' = IF pc = "retry" THEN orphans \ {c} ELSE orphans
  /\ UNCHANGED <<newLinks, failed>>

\* Mutant: a link that could not be detached is only logged.
NotRemovedForgotten(c) ==
  /\ links' = IF pc = "detach" THEN links \ {c} ELSE links
  /\ orphans' = IF pc = "detach" THEN orphans ELSE orphans \cup {c}
  /\ failed' = (failed \/ pc = "retry")
  /\ UNCHANGED newLinks

\* What the caller does with a pair that is still there, in part or in whole.
NotRemoved(c) ==
  /\ links' = IF pc = "detach" THEN links \ {c} ELSE links
  /\ orphans' = orphans \cup {c}
  /\ failed' = (failed \/ pc = "retry")
  /\ UNCHANGED newLinks

\* After a partial pair Apply rolls the candidate back; a loop goes on.
NextJob(c) ==
  /\ JobEnds
  /\ IF pc = "attach" THEN Begin("rollback", "none", newLinks) ELSE Begin(pc, why, todo \ {c})

\* Mutant: the ownership record is left to a later pruning.
RemoveDoneKeepsOwner ==
  /\ jobStep = "disown"
  /\ Removed(job)
  /\ NextJob(job)
  /\ UNCHANGED <<live, active, everCommitted, subj, class, owner, memOwners, pins, stored, desired,
                 cacheVars, pending>>

\* The ownership record goes last, and stays for a classified workload.
RemoveDone ==
  /\ jobStep = "disown"
  /\ IF job \in class[active]
       THEN UNCHANGED <<owner, memOwners>>
       ELSE owner' = owner \ {job} /\ memOwners' = memOwners \ {job}
  /\ Removed(job)
  /\ NextJob(job)
  /\ UNCHANGED <<live, active, everCommitted, subj, class, pins, stored, desired, cacheVars, pending>>

RemoveFails ==
  /\ \E c \in Cgroups :
       /\ \/ jobStep \in Removing /\ c = job
          \/ pc \in {"retry", "rollback", "detach"} /\ job = Nobody /\ c \in todo
       /\ NotRemoved(c)
       /\ NextJob(c)
  /\ UNCHANGED <<kernelVars, desired, memOwners, cacheVars, pending>>

LoopDone == todo = {} /\ job = Nobody
-----------------------------------------------------------------------------
(* Apply: the phases.                                                      *)

\* An orphan that resists, or a cancelled context, ends the call.
RetryGivesUp ==
  /\ pc = "retry" /\ LoopDone
  /\ Return
  /\ UNCHANGED <<kernelVars, jobVars, links, orphans, memOwners, cacheVars, pending>>

Compare ==
  /\ pc = "retry" /\ LoopDone /\ ~failed
  /\ IF hasApplied /\ applied = desired
       THEN Begin("detach", "unchanged", links \ desired.subj)
       ELSE Begin("clear", "prepare", {})
  /\ UNCHANGED <<kernelVars, desired, jobVars, failed, linkVars, memOwners, cacheVars, pending>>

PopulateSubject(c) ==
  /\ pc = "populate" /\ c \in desired.subj \ subj[Inactive]
  /\ subj' = [subj EXCEPT ![Inactive] = @ \cup {c}]
  /\ UNCHANGED <<live, active, everCommitted, class, owner, pins, stored, pc, why, desired, todo, jobVars,
                 failed, linkVars, memOwners, cacheVars, pending>>

\* rememberOwner opens the cgroup, so it fails for one that is gone.
RememberOwner(c) ==
  /\ c \in live
  /\ owner' = owner \cup {c} /\ memOwners' = memOwners \cup {c}

Classify(c) ==
  /\ pc = "populate" /\ subj[Inactive] = desired.subj
  /\ c \in desired.class \ class[Inactive]
  /\ RememberOwner(c)
  /\ \/ class' = [class EXCEPT ![Inactive] = @ \cup {c}] /\ UNCHANGED <<pc, why, todo>>
     \/ UNCHANGED class /\ Begin("clear", "rollback", {})    \* the second write fails
  /\ UNCHANGED <<live, active, everCommitted, subj, pins, stored, desired, jobVars, failed, linkVars,
                 cacheVars, pending>>

PopulateFails ==
  /\ pc = "populate"
  /\ Begin("clear", "rollback", {})
  /\ UNCHANGED <<kernelVars, desired, jobVars, failed, linkVars, memOwners, cacheVars, pending>>

PopulateDone ==
  /\ pc = "populate" /\ subj[Inactive] = desired.subj /\ class[Inactive] = desired.class
  /\ Begin("attach", "none", desired.subj \ links)
  /\ UNCHANGED <<kernelVars, desired, jobVars, failed, linkVars, memOwners, cacheVars, pending>>

\* attachPersistent: the owner first, then link, pin and identity of each
\* direction in turn.
AttachStart(c) ==
  /\ pc = "attach" /\ job = Nobody /\ c \in todo
  /\ RememberOwner(c)
  /\ JobBegins(c, "pin")
  /\ UNCHANGED <<live, active, everCommitted, subj, class, pins, stored, pc, why, desired, todo, failed,
                 linkVars, cacheVars, pending>>

AttachPin ==
  /\ jobStep = "pin"
  /\ pins' = [pins EXCEPT ![job] = @ \cup {jobDir}]
  /\ jobStep' = "store" /\ UNCHANGED jobDir
  /\ UNCHANGED <<live, active, everCommitted, subj, class, owner, stored, pc, why, desired, todo, job,
                 failed, linkVars, memOwners, cacheVars, pending>>

AttachStore ==
  /\ jobStep = "store"
  /\ stored' = [stored EXCEPT ![job] = @ \cup {jobDir}]
  /\ jobDir' = Ingress /\ jobStep' = IF jobDir = Egress THEN "pin" ELSE "attached"
  /\ UNCHANGED <<live, active, everCommitted, subj, class, owner, pins, pc, why, desired, todo, job,
                 failed, linkVars, memOwners, cacheVars, pending>>

AttachDone ==
  /\ jobStep = "attached"
  /\ newLinks' = newLinks \cup {job} /\ todo' = todo \ {job}
  /\ JobEnds
  /\ UNCHANGED <<kernelVars, pc, why, desired, failed, links, orphans, memOwners, cacheVars, pending>>

\* A step of Attach fails: the partial pair is removed.
AttachFails ==
  /\ pc = "attach" /\ job # Nobody /\ jobStep \notin Removing
  /\ JobBegins(job, "unpin")
  /\ UNCHANGED <<kernelVars, pc, why, desired, todo, failed, linkVars, memOwners, cacheVars, pending>>

\* Attach returns no pair, the context is cancelled, or Flip fails.
CandidateFails ==
  /\ pc = "attach" /\ job = Nobody
  /\ Begin("rollback", "none", newLinks)
  /\ UNCHANGED <<kernelVars, desired, jobVars, failed, linkVars, memOwners, cacheVars, pending>>

RollbackDone ==
  /\ pc = "rollback" /\ LoopDone
  /\ Begin("clear", "rollback", {})
  /\ UNCHANGED <<kernelVars, desired, jobVars, failed, linkVars, memOwners, cacheVars, pending>>

\* The commit; only then are the links of cgroups it leaves out removed.
Flip ==
  /\ pc = "attach" /\ LoopDone
  /\ active' = Inactive /\ everCommitted' = TRUE
  /\ applied' = desired /\ hasApplied' = TRUE
  /\ links' = links \cup newLinks /\ newLinks' = {}
  /\ Begin("detach", "retire", (links \cup newLinks) \ desired.subj)
  /\ UNCHANGED <<live, subj, class, owner, pins, stored, desired, jobVars, failed, orphans, memOwners,
                 pending>>

DetachDone ==
  /\ pc = "detach" /\ LoopDone
  /\ \/ why = "unchanged" /\ Return
     \/ why = "retire" /\ Begin("clear", "retire", {}) /\ UNCHANGED <<desired, failed, newLinks>>
  /\ UNCHANGED <<kernelVars, jobVars, links, orphans, memOwners, cacheVars, pending>>

ApplyStep ==
  \/ ClearSlot \/ ClearFails \/ PruneDone
  \/ RemovePin \/ RemoveDone \/ RemoveFails
  \/ RetryGivesUp \/ Compare \/ PopulateFails \/ PopulateDone
  \/ AttachPin \/ AttachStore \/ AttachDone \/ AttachFails \/ CandidateFails \/ RollbackDone \/ Flip \/ DetachDone
  \/ \E c \in Cgroups :
       Prune(c) \/ RemoveStart(c) \/ PopulateSubject(c) \/ Classify(c) \/ AttachStart(c)

Next ==
  \/ \E c \in Cgroups : Die(c)
  \/ Recover \/ Crash
  \/ \E policy \in PolicySets : ApplyStart(policy)
  \/ ApplyStep

Spec == Init /\ [][Next]_vars
-----------------------------------------------------------------------------
(* Properties.                                                             *)

\* Every variable has its type; in particular the link sets of Apply only hold
\* cgroups.
TypeOK ==
  /\ live \in SUBSET Cgroups
  /\ active \in Slots /\ everCommitted \in BOOLEAN
  /\ subj \in [Slots -> SUBSET Cgroups] /\ class \in [Slots -> SUBSET Cgroups]
  /\ owner \in SUBSET Cgroups
  /\ pins \in [Cgroups -> SUBSET Dirs] /\ stored \in [Cgroups -> SUBSET Dirs]
  /\ pc \in {"down", "idle", "clear", "prune", "retry", "populate", "attach", "rollback", "detach"}
  /\ why \in {"none", "reclaim", "prepare", "rollback", "retire", "unchanged"}
  /\ desired \in PolicySets
  /\ todo \in SUBSET Cgroups
  /\ job \in Cgroups \cup {Nobody} /\ jobDir \in Dirs
  /\ jobStep \in {"none", "pin", "store", "attached", "unpin", "disown"}
  /\ failed \in BOOLEAN
  /\ links \in SUBSET Cgroups /\ newLinks \in SUBSET Cgroups /\ orphans \in SUBSET Cgroups
  /\ memOwners \in SUBSET Cgroups
  /\ applied \in PolicySets /\ hasApplied \in BOOLEAN /\ pending \in BOOLEAN

\* Whenever the process dies, the next one can start: every live committed
\* subject has both links pinned with their identity stored, everything
\* committed has an owner, and no pin is without one.
RecoverySucceeds == Recoverable

\* Between calls the engine knows every pinned link: the links of committed
\* subjects, apart from leftovers that the next Apply removes first.
NoLinkForgotten ==
  pc = "idle" =>
    /\ links = subj[active]
    /\ orphans \cap links = {}
    /\ \A c \in Cgroups : pins[c] # {} => c \in links \cup orphans

\* Once nothing is left to clean up, the ownership journal holds exactly the
\* committed cgroups: no dead workload keeps a record for ever.
JournalExact ==
  pc = "idle" /\ ~pending /\ orphans = {} => owner = Committed /\ memOwners = owner

\* The books are right: every variable has its type, and the cached journal,
\* the pinned journal and the pinned links agree wherever the engine relies on
\* it (attachPersistent, durableLinkPair.Remove, recoverLinks).
BookkeepingExact == TypeOK /\ JournalExact
=============================================================================
