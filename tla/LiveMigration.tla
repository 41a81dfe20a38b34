--------------------------- MODULE LiveMigration ---------------------------
(***************************************************************************)
(* One migration: RunSource and RunDestination run side by side on their   *)
(* nodes, and neither talks to the other; they meet in QEMU and in the     *)
(* network (Platform).                                                     *)
(***************************************************************************)
EXTENDS Source, Destination

vars == <<platformVars, srcVars, destVars>>

Init == PlatformInit /\ SourceInit /\ DestinationInit

Next ==
  \/ SourceNext /\ UNCHANGED destVars
  \/ DestinationNext /\ UNCHANGED srcVars
  \/ PlatformNext /\ UNCHANGED <<srcVars, destVars>>

Spec == Init /\ [][Next]_vars

\* RunSource makes its next call when it can, and its deadline passes.  That
\* QEMU or the destination get anywhere is not assumed.
Fairness ==
  /\ WF_vars(SourceStep /\ UNCHANGED destVars)
  /\ WF_vars(CtxDeadline /\ UNCHANGED destVars)

FairSpec == Spec /\ Fairness

\* Every variable of QEMU, the network and the two binaries has its type.
TypeOK == PlatformTypeOK /\ SourceTypeOK /\ DestinationTypeOK

-----------------------------------------------------------------------------
(* Safety.                                                                 *)

\* When the guest resumes on the destination and neither binary has given
\* up, every drive whose mirror did not break by itself has on the
\* destination what the guest last wrote: RAM is sent after all mirrors were
\* ready (waitForStorageSync), the jobs are cancelled after the handover, and
\* the NBD server is stopped after RESUME.
ResumedOnCurrentDisk ==
  dstVM = "running" /\ sres # "err" /\ dres # "err" =>
    Drives \ faulted \subseteq current

\* RunDestination returns nil only when the guest runs on its node and no
\* longer on the source node: the exit code the orchestrator trusts.
DestinationVerdict ==
  dres = "nil" => dstVM = "running" /\ srcVM # "running"

\* When RunSource has returned and none of its cleanup commands failed, it
\* has withdrawn what it set up: no traffic is redirected, no interface is
\* left but one whose ip tunnel add failed after it had taken effect, and no
\* mirror job runs of a loop that started all of them.
SourceWithdraws ==
  spc = "done" /\ ~sLeak =>
    /\ tunnel \in {"absent", "created"}
    /\ mirrorJobIDs = Drives \/ ready = Drives =>
         \A d \in Drives : job[d] \notin {"running", "ready"}

\* "A deferred cleanup ensures the drive-mirror job is torn down on any early
\* return": no job that RunSource has on record outlives it.
MirrorsTornDown ==
  spc = "done" /\ ~sLeak =>
    \A d \in mirrorJobIDs : job[d] \notin {"running", "ready"}

\* However RunDestination ends, if its cleanup commands worked then the tap
\* of the running VM is not left plugged (comment of step 6 of RunDestination).
TapNotLeftPlugged ==
  dpc = "done" /\ ~dLeak /\ dstVM = "running" => qdisc # "blocked"

\* A packet the plug holds back stays there until it is delivered to the
\* running guest, unless RunDestination fails and removes the qdisc.
PlugDelivers ==
  [][\A p \in Packets : pkt[p] = "queued" /\ dres # "err" =>
        pkt'[p] \in {"queued", "delivered"}]_vars

\* While traffic is redirected, the destination holds it or its guest runs,
\* unless the handover or RunDestination has failed.  The one gap: RAM can be
\* sent as soon as migrate-incoming listens, and the plug is set after it.
RedirectIsCovered ==
  tunnel = "routed" /\ qdiscInstalled /\ dres # "err" =>
    \/ qdisc = "blocked"
    \/ dstVM \in {"running", "dead"}
    \/ dpc = "plug"

-----------------------------------------------------------------------------
(* Refinement.                                                             *)

\* Where the guest is, as far as the two QEMUs tell: a state that is complete
\* on the destination is the guest's, whatever becomes of the source QEMU.
\* Handover knows no guest that runs in two places.
GuestPlace ==
  IF dstVM = "running" /\ srcVM = "running" THEN "twice"
  ELSE IF dstVM = "running" THEN "destination"
  ELSE IF dstVM = "loaded" \/ srcVM = "paused" THEN "paused"
  ELSE IF srcVM = "running" THEN "source" ELSE "lost"

H == INSTANCE Handover WITH guest <- GuestPlace, verdict <- dres

\* Each migration is a Handover: RunSource and RunDestination, which share no
\* state and may both fail at any call, never have the guest run twice, never
\* let it go back once it runs on the destination, and RunDestination returns
\* nil only once it has arrived.
IsHandover == H!Spec

-----------------------------------------------------------------------------
(* Liveness.                                                               *)

\* "Migration polling is bounded by migrationTimeout (1h) to prevent infinite
\* loops": RunSource returns.
SourceReturns == <>(spc = "done")

AfterStop == {"tunnelAdd", "tunnelUp", "tunnelRoute", "tunnelRollback",
              "complete", "metrics", "migrateCancel", "cancelJobs", "cniDelay",
              "teardown", "deferred"}

\* From the cutover on RunSource comes to its end, whatever QEMU answers or
\* does not answer and whichever cleanup commands fail.
CutoverEnds == []<>(spc \notin AfterStop)

\* A redirect does not outlive the migration, whether the handover succeeded,
\* failed after the cutover or left the source guest paused, unless the
\* command that deletes the tunnel fails.
RedirectWithdrawn == []<>(tunnel # "routed" \/ sLeak)
=============================================================================
