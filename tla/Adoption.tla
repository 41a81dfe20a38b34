------------------------------ MODULE Adoption ------------------------------
(***************************************************************************)
(* What follows a successful migration with adoptVM: the end of dispatch   *)
(* (internal/controller/reconciler.go) marks the source pod's ReplicaSet   *)
(* as pending, deletes the source pod and creates the adoption pod on the  *)
(* destination, whose shim takes over the QEMU; the admission webhook      *)
(* (admission.go, cmd/katamaran-mgr/webhook.go) denies the replacements    *)
(* the ReplicaSet would start meanwhile.  The ReplicaSet, with one         *)
(* replica, the kubelet and the user are external.                         *)
(***************************************************************************)
EXTENDS AdoptedShim

CONSTANTS
  Migrated,  \* the QEMU of the Migration under dispatch
  Cleanups   \* the values of spec.sourceCleanup considered

ASSUME AdoptionAssumption ==
  Migrated \in Vms /\ Cleanups \subseteq {"none", "delete", "orphan"}

VARIABLES
  cleanup,    \* req.SourceCleanup
  dpc,        \* the dispatch goroutine
  mark,       \* r.pending has a live entry for the ReplicaSet
  lapsed,     \* history: the entry was not made, was lost, expired or not asked
  src,        \* the source pod
  srcOwned,   \* its ownerReferences name the ReplicaSet
  inherited,  \* what createAdoptionPod copied from the source pod
  adopted,    \* the adoption pod
  cold        \* a replacement pod of the ReplicaSet exists

clusterVars == <<cleanup, dpc, mark, lapsed, src, srcOwned, inherited, adopted, cold>>
vars == <<nodeVars, shimVars, clusterVars>>
otherVars == <<nodeVars, shimVars>>

LivePods == {"owned", "labels", "bare"}

Init ==
  /\ NodeInit /\ ShimInit
  /\ vm = [v \in Vms |-> "incoming"] /\ dst = [v \in Vms |-> "transfer"]
  /\ peer = [v \in Vms |-> v] /\ meta = [s \in Sandboxes |-> "absent"]
  /\ pidfile \in [Sandboxes -> Vms] /\ \A v \in Vms : pidfile[sandbox[v]] = v
  /\ cleanup \in Cleanups
  /\ dpc = "verdict" /\ mark = FALSE /\ lapsed = FALSE
  /\ src = "running" /\ srcOwned = TRUE
  /\ inherited = "bare" /\ adopted = "none" /\ cold = FALSE

-----------------------------------------------------------------------------
(* The end of dispatch *)

\* PhaseSucceeded.  The owner lookup may fail, and then nothing is marked.
MarkPending ==
  /\ dpc = "verdict" /\ dst[Migrated] = "exited"
  /\ dpc' = "marked"
  /\ mark' \in {FALSE, cleanup # "none" /\ srcOwned}
  /\ lapsed' = ~mark'
  /\ UNCHANGED <<otherVars, cleanup, src, srcOwned, inherited, adopted, cold>>

Terminate == src' = IF src = "running" THEN "terminating" ELSE src

DeleteSource ==
  /\ dpc = "marked" /\ cleanup \in {"none", "delete"}
  /\ dpc' = "cleaned"
  /\ IF cleanup = "delete" THEN Terminate \/ src' = src ELSE src' = src
  /\ UNCHANGED <<otherVars, cleanup, mark, lapsed, srcOwned, inherited, adopted, cold>>

\* OrphanAndDeletePod: a patch, and a delete when the patch went through.
OrphanSource ==
  /\ dpc = "marked" /\ cleanup = "orphan"
  /\ \/ dpc' = "orphaned" /\ srcOwned' = FALSE
     \/ dpc' = "cleaned" /\ srcOwned' = srcOwned
  /\ UNCHANGED <<otherVars, cleanup, mark, lapsed, src, inherited, adopted, cold>>

DeleteOrphan ==
  /\ dpc = "orphaned"
  /\ dpc' = "cleaned"
  /\ Terminate \/ src' = src
  /\ UNCHANGED <<otherVars, cleanup, mark, lapsed, srcOwned, inherited, adopted, cold>>

\* What createAdoptionPod copies: labels and owner of the source pod as it is now,
\* after the delete and the sleep; nothing if it is gone or cannot be read.
Inheritance ==
  {"bare"} \cup IF src = "gone" THEN {} ELSE IF srcOwned THEN {"owned"} ELSE {"labels"}

\* Without spec.destNode the destination is not known here and dispatch ends.
ReadSource ==
  /\ dpc = "cleaned"
  /\ \/ dpc' = "read" /\ inherited' \in Inheritance
     \/ dpc' = "done" /\ inherited' = inherited
  /\ UNCHANGED <<otherVars, cleanup, mark, lapsed, src, srcOwned, adopted, cold>>

ShouldDenyPodCreate(component, owned) ==
  component # "adopted-vm" /\ owned /\ mark

\* Mutant: the entry is cleared as Clear (admission.go:70) says.
CreateAdoptionPodClears ==
  /\ dpc = "read"
  /\ dpc' = "done"
  /\ adopted' = inherited
  /\ mark' = FALSE
  /\ UNCHANGED <<otherVars, cleanup, lapsed, src, srcOwned, inherited, cold>>

\* The pod is labelled adopted-vm and asks the webhook too; Create may fail.
createAdoptionPod ==
  \/ adopted' = IF ShouldDenyPodCreate("adopted-vm", inherited = "owned")
                THEN "denied" ELSE inherited
  \/ adopted' = adopted

\* The pending entry stays until it expires.
CreateAdoptionPod ==
  /\ dpc = "read"
  /\ dpc' = "done"
  /\ createAdoptionPod
  /\ UNCHANGED <<otherVars, cleanup, mark, lapsed, src, srcOwned, inherited, cold>>

\* Mutant: no TTL.
NeverExpire == FALSE /\ UNCHANGED vars

\* pendingAdoptionTTL has passed: MigrationFor drops the entry.
Expire ==
  /\ mark
  /\ mark' = FALSE /\ lapsed' = TRUE
  /\ UNCHANGED <<otherVars, cleanup, dpc, src, srcOwned, inherited, adopted, cold>>

\* The leader dies: the registry was in its memory, and the next leader's
\* recover neither cleans up nor adopts.
LoseLeader ==
  /\ dpc # "dead"
  /\ dpc' = "dead" /\ mark' = FALSE /\ lapsed' = TRUE
  /\ UNCHANGED <<otherVars, cleanup, src, srcOwned, inherited, adopted, cold>>

-----------------------------------------------------------------------------
(* The ReplicaSet and the kubelet: external *)

Count(b) == IF b THEN 1 ELSE 0
Active   == Count(srcOwned /\ src = "running") + Count(adopted = "owned") + Count(cold)

\* handleAdmit; failurePolicy=Ignore lets the pod through when it is not reached.
RSCreates(reached) ==
  /\ Active = 0
  /\ reached => ~ShouldDenyPodCreate("workload", TRUE)
  /\ lapsed' = (lapsed \/ ~reached)
  /\ cold' = TRUE
  /\ UNCHANGED <<otherVars, cleanup, dpc, mark, src, srcOwned, inherited, adopted>>

\* A terminating source pod may still be counted.
RSScalesDown ==
  /\ Active + Count(srcOwned /\ src = "terminating") > 1
  /\ \/ adopted = "owned" /\ adopted' = "deleting" /\ UNCHANGED <<src, cold>>
     \/ cold /\ cold' = FALSE /\ UNCHANGED <<src, adopted>>
     \/ src = "running" /\ src' = "terminating" /\ UNCHANGED <<adopted, cold>>
  /\ UNCHANGED <<otherVars, cleanup, dpc, mark, lapsed, srcOwned, inherited>>

RSAdopts ==
  /\ \/ adopted = "labels" /\ adopted' = "owned" /\ UNCHANGED srcOwned
     \/ ~srcOwned /\ src = "running" /\ srcOwned' = TRUE /\ UNCHANGED adopted
  /\ UNCHANGED <<otherVars, cleanup, dpc, mark, lapsed, src, inherited, cold>>

SourceGone ==
  /\ src = "terminating" /\ src' = "gone"
  /\ UNCHANGED <<otherVars, cleanup, dpc, mark, lapsed, srcOwned, inherited, adopted, cold>>

UserDeletesPod ==
  /\ adopted \in LivePods /\ adopted' = "deleting"
  /\ UNCHANGED <<otherVars, cleanup, dpc, mark, lapsed, src, srcOwned, inherited, cold>>

GuestPowersOff(v) ==
  /\ vm[v] = "running"
  /\ vm' = [vm EXCEPT ![v] = "dead"] /\ moved' = moved \ {v}
  /\ UNCHANGED <<sandbox, dst, peer, pidfile, noted, meta, cgdirs, shimVars, clusterVars>>

PodStarts ==
  /\ adopted \in LivePods
  /\ Create \/ \E w \in Watches : Start(w)
  /\ UNCHANGED clusterVars

PodWaits ==
  /\ qemuPid # "none"
  /\ \E c \in Callers : Wait(c) \/ WaitCancelled(c)
  /\ UNCHANGED clusterVars

PodKilled ==
  /\ adopted = "deleting" /\ Kill
  /\ UNCHANGED clusterVars

PodDeleted ==
  /\ adopted = "deleting" /\ adopted' = "gone" /\ Delete
  /\ UNCHANGED <<cleanup, dpc, mark, lapsed, src, srcOwned, inherited, cold>>

PodShutdown ==
  /\ adopted = "gone" /\ Shutdown
  /\ UNCHANGED clusterVars

-----------------------------------------------------------------------------
Dispatch ==
  \/ MarkPending \/ DeleteSource \/ OrphanSource \/ DeleteOrphan
  \/ ReadSource \/ CreateAdoptionPod

ReplicaSet == RSCreates(TRUE) \/ RSCreates(FALSE) \/ RSScalesDown \/ RSAdopts

Kubelet ==
  \/ SourceGone \/ PodStarts \/ PodWaits \/ PodKilled \/ PodDeleted \/ PodShutdown

ShimRuns == ShimGoes /\ UNCHANGED clusterVars

Next ==
  \/ Dispatch \/ Expire \/ LoseLeader \/ ReplicaSet \/ Kubelet \/ UserDeletesPod
  \/ \E v \in Vms : GuestPowersOff(v)
  \/ \E v \in Vms : DestTail(v) /\ UNCHANGED <<shimVars, clusterVars>>
  \/ ShimRuns

Spec == Init /\ [][Next]_vars

\* The TTL is wall-clock time, the ReplicaSet controller and the kubelet retry,
\* and the shim's goroutines run.
FairSpec ==
  /\ Spec
  /\ WF_vars(Expire) /\ WF_vars(RSCreates(TRUE)) /\ WF_vars(RSAdopts) /\ WF_vars(SourceGone)
  /\ WF_vars(ShimRuns)

-----------------------------------------------------------------------------
\* As long as the pending entry was made, has not expired, its leader lives and the
\* webhook is asked, no cold twin of the migrated VM is ever started: the entry is
\* there before the source pod goes (reconciler.go:427, 437), and it is not cleared
\* when the adoption pod is created, which the ReplicaSet may still delete (:469).
NoColdTwin == cold => lapsed

\* watchExit closes no waiter's channel twice, although each Start arms one more of
\* them and Wait calls keep coming (main.go:450-456): closing twice is a panic.
ClosedOnce == ~panicked

\* The pending entry blocks a Deployment only for a while: once the source pod is gone
\* the ReplicaSet gets a pod, whatever became of the adoption (admission.go:39-41).
SlotFilled == (src = "gone") ~> (adopted = "owned" \/ cold)

\* A Wait that blocks while a watch is armed is answered once the QEMU is gone,
\* also when it comes between the exit and the watch's next poll (main.go:340, 446).
WaitAnswered ==
  \A c \in Callers :
    (waiting[c] = "blocked" /\ vm[qemuPid] = "dead" /\ \E w \in Watches : watch[w].pc # "off")
      ~> (waiting[c] # "blocked" \/ shutdown)
=============================================================================
