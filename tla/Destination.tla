---------------------------- MODULE Destination ----------------------------
(***************************************************************************)
(* RunDestination (internal/migration/dest.go), one action per command.    *)
(* dpc names the call it is about to make; "done" means that it has        *)
(* returned dres and run its deferred cleanups.                            *)
(***************************************************************************)
EXTENDS Platform

VARIABLES
  dpc,             \* the next call of RunDestination
  dctx,            \* its context: live or cancelled (it has no deadline)
  dtodo,           \* drives still to be exported
  qdiscInstalled,  \* the deferred qdisc deletion is armed
  nbdStarted,      \* the deferred nbd-server-stop is armed
  dres,            \* the error RunDestination returns or is bound to return
  dLeak            \* a cleanup command of the destination has failed

destVars == <<dpc, dctx, dtodo, qdiscInstalled, nbdStarted, dres, dLeak>>

DstPcs == {"start", "ifCheck", "qdiscAdd", "qdiscRelease", "qdiscRollback",
           "connect", "incoming", "nbdStart", "nbdAdd", "plug", "resume",
           "unplug", "nbdStop", "announce", "deferNbd", "deferQdisc", "done"}

DestinationTypeOK ==
  /\ dpc \in DstPcs
  /\ dctx \in {"live", "cancelled"}
  /\ dtodo \subseteq Drives
  /\ qdiscInstalled \in BOOLEAN
  /\ nbdStarted \in BOOLEAN
  /\ dres \in {"none", "nil", "err"}
  /\ dLeak \in BOOLEAN

DestinationInit ==
  /\ dpc = "start"
  /\ dctx = "live"
  /\ dtodo = {}
  /\ qdiscInstalled = FALSE
  /\ nbdStarted = FALSE
  /\ dres = "none"
  /\ dLeak = FALSE

DstAlive   == dstVM # "dead"
DstAnswers == DstAlive /\ dctx = "live"

\* The deferred calls that are armed run last-in first-out.
AfterReturn(nbd, installed) ==
  IF nbd THEN "deferNbd" ELSE IF installed THEN "deferQdisc" ELSE "done"

DstReturnErr ==
  /\ dres' = "err"
  /\ dpc' = AfterReturn(nbdStarted, qdiscInstalled)

DstGoes(to) == dpc' = to /\ UNCHANGED dres

\* Sandbox lookup, cmdline replay, validation of the flags.
DstResolve ==
  /\ dpc = "start"
  /\ \/ dctx = "live" /\ DstGoes(IF TapIface THEN "ifCheck" ELSE "connect")
     \/ DstReturnErr
  /\ UNCHANGED <<platformVars, dctx, dtodo, qdiscInstalled, nbdStarted, dLeak>>

\* ip link show; then the qdisc an earlier run left is deleted, the result
\* ignored.  A failing check counts as a missing interface and skips the
\* network queue.  Both failures may leave a stale qdisc where it was.
ClearQdisc ==
  /\ dpc = "ifCheck"
  /\ \/ /\ dctx = "live"
        /\ DstGoes("qdiscAdd")
        /\ QdiscDeleted /\ UNCHANGED dLeak
     \/ /\ \/ dctx = "live" /\ DstGoes("qdiscAdd")
           \/ DstGoes("connect")
        /\ UNCHANGED <<qdisc, pkt>>
        /\ dLeak' = (dLeak \/ qdisc # "none")
  /\ UNCHANGED <<storageVars, ramVars, dstVars, tunnel, path, dctx, dtodo,
                 qdiscInstalled, nbdStarted>>

\* A fresh plug qdisc buffers until it is told to release.
AddQdisc ==
  /\ dpc = "qdiscAdd"
  /\ \/ /\ dctx = "live" /\ qdisc = "none"
        /\ qdisc' = "blocked"
        /\ DstGoes("qdiscRelease")
     \/ UNCHANGED qdisc /\ DstReturnErr
  /\ UNCHANGED <<storageVars, ramVars, dstVars, tunnel, path, pkt, dctx, dtodo,
                 qdiscInstalled, nbdStarted, dLeak>>

ReleaseQdisc ==
  /\ dpc = "qdiscRelease"
  /\ \/ /\ dctx = "live" /\ QdiscReleased
        /\ qdiscInstalled' = TRUE
        /\ DstGoes("connect")
     \/ DstGoes("qdiscRollback") /\ UNCHANGED <<qdisc, pkt, qdiscInstalled>>
  /\ UNCHANGED <<storageVars, ramVars, dstVars, tunnel, path, dctx, dtodo,
                 nbdStarted, dLeak>>

RollbackQdisc ==
  /\ dpc = "qdiscRollback"
  /\ \/ QdiscDeleted /\ UNCHANGED dLeak
     \/ UNCHANGED <<qdisc, pkt>> /\ dLeak' = TRUE
  /\ DstReturnErr
  /\ UNCHANGED <<storageVars, ramVars, dstVars, tunnel, path, dctx, dtodo,
                 qdiscInstalled, nbdStarted>>

\* qmp.NewClient, migrate-set-capabilities, migrate-set-parameters.
DstConnect ==
  /\ dpc = "connect"
  /\ \/ DstAnswers /\ DstGoes("incoming")
     \/ DstReturnErr
  /\ UNCHANGED <<platformVars, dctx, dtodo, qdiscInstalled, nbdStarted, dLeak>>

MigrateIncoming ==
  /\ dpc = "incoming"
  /\ \/ /\ DstAnswers /\ incoming' = TRUE
        /\ DstGoes(IF SharedStorage THEN "plug" ELSE "nbdStart")
     \/ UNCHANGED incoming /\ DstReturnErr
     \/ DstAlive /\ incoming' = TRUE /\ DstReturnErr
  /\ UNCHANGED <<storageVars, ramVars, dstVM, exports, resumeEvt, netVars, dctx,
                 dtodo, qdiscInstalled, nbdStarted, dLeak>>

\* nbd-server-stop of a stale server (result ignored), nbd-server-start.
NbdServerStart ==
  /\ dpc = "nbdStart"
  /\ \/ /\ DstAnswers
        /\ nbdStarted' = TRUE
        /\ dtodo' = Drives
        /\ DstGoes("nbdAdd")
     \/ DstReturnErr /\ UNCHANGED <<nbdStarted, dtodo>>
  /\ UNCHANGED <<platformVars, dctx, qdiscInstalled, dLeak>>

NbdServerAdd(d) ==
  /\ dpc = "nbdAdd" /\ d \in dtodo
  /\ \/ /\ DstAnswers
        /\ exports' = exports \cup {d}
        /\ dtodo' = dtodo \ {d}
        /\ DstGoes(IF dtodo' = {} THEN "plug" ELSE "nbdAdd")
     \/ /\ \/ UNCHANGED exports
           \/ DstAlive /\ exports' = exports \cup {d}
        /\ UNCHANGED dtodo
        /\ DstReturnErr
  /\ UNCHANGED <<storageVars, ramVars, dstVM, incoming, resumeEvt, netVars, dctx,
                 qdiscInstalled, nbdStarted, dLeak>>

\* Mutant: the plug is left to whoever finds the queue released.
PlugLeftOpen ==
  /\ dpc = "plug"
  /\ DstGoes("resume")
  /\ UNCHANGED <<platformVars, dctx, dtodo, qdiscInstalled, nbdStarted, dLeak>>

\* tc qdisc change ... plug block: from here on the tap's packets wait.
Plug ==
  /\ dpc = "plug"
  /\ \/ /\ qdiscInstalled /\ dctx = "live"
        /\ qdisc' = "blocked"
        /\ DstGoes("resume")
     \/ ~qdiscInstalled /\ UNCHANGED qdisc /\ DstGoes("resume")
     \/ qdiscInstalled /\ UNCHANGED qdisc /\ DstReturnErr
  /\ UNCHANGED <<storageVars, ramVars, dstVars, tunnel, path, pkt, dctx, dtodo,
                 qdiscInstalled, nbdStarted, dLeak>>

\* Mutant: RESUME is not waited for.
SkipResume ==
  /\ dpc = "resume"
  /\ DstGoes("unplug")
  /\ UNCHANGED <<platformVars, dctx, dtodo, qdiscInstalled, nbdStarted, dLeak>>

\* WaitForEvent(RESUME, 30 minutes).
WaitForResume ==
  /\ dpc = "resume"
  /\ \/ /\ resumeEvt
        /\ resumeEvt' = FALSE
        /\ DstGoes("unplug")
     \/ DstReturnErr /\ UNCHANGED resumeEvt
  /\ UNCHANGED <<storageVars, ramVars, dstVM, incoming, exports, netVars, dctx,
                 dtodo, qdiscInstalled, nbdStarted, dLeak>>

\* Mutant: the deferred deletion is disarmed before the release.
UnplugDisarmsFirst ==
  /\ dpc = "unplug"
  /\ qdiscInstalled' = FALSE
  /\ \/ /\ dctx = "live" /\ QdiscReleased
        /\ DstGoes(IF SharedStorage THEN "announce" ELSE "nbdStop")
     \/ /\ UNCHANGED <<qdisc, pkt>>
        /\ dres' = "err" /\ dpc' = AfterReturn(nbdStarted, FALSE)
  /\ UNCHANGED <<storageVars, ramVars, dstVars, tunnel, path, dctx, dtodo,
                 nbdStarted, dLeak>>

\* Mutant: the plug is deleted instead of released.
UnplugDeletes ==
  /\ dpc = "unplug"
  /\ \/ qdiscInstalled /\ QdiscDeleted /\ qdiscInstalled' = FALSE
     \/ ~qdiscInstalled /\ UNCHANGED <<qdisc, pkt, qdiscInstalled>>
  /\ DstGoes(IF SharedStorage THEN "announce" ELSE "nbdStop")
  /\ UNCHANGED <<storageVars, ramVars, dstVars, tunnel, path, dctx, dtodo,
                 nbdStarted, dLeak>>

\* release_indefinite; only its success disarms the deferred deletion.
Unplug ==
  /\ dpc = "unplug"
  /\ \/ /\ qdiscInstalled /\ dctx = "live"
        /\ QdiscReleased
        /\ qdiscInstalled' = FALSE
        /\ DstGoes(IF SharedStorage THEN "announce" ELSE "nbdStop")
     \/ /\ ~qdiscInstalled
        /\ DstGoes(IF SharedStorage THEN "announce" ELSE "nbdStop")
        /\ UNCHANGED <<qdisc, pkt, qdiscInstalled>>
     \/ /\ qdiscInstalled /\ DstReturnErr
        /\ UNCHANGED <<qdisc, pkt, qdiscInstalled>>
  /\ UNCHANGED <<storageVars, ramVars, dstVars, tunnel, path, dctx, dtodo,
                 nbdStarted, dLeak>>

\* nbd-server-stop under cleanupCtx; its deferred twin is disarmed first.
StopNbd(from, to) ==
  /\ dpc = from
  /\ nbdStarted' = FALSE
  /\ \/ DstAlive /\ exports' = {} /\ dLeak' \in {dLeak, TRUE}
     \/ UNCHANGED exports /\ dLeak' = TRUE
  /\ DstGoes(to)
  /\ UNCHANGED <<storageVars, ramVars, dstVM, incoming, resumeEvt, netVars, dctx,
                 dtodo, qdiscInstalled>>

NbdServerStop == StopNbd("nbdStop", "announce")

DeferredNbdStop == StopNbd("deferNbd", AfterReturn(FALSE, qdiscInstalled))

\* announce-self; its failure fails RunDestination although the guest runs.
\* Then migration-meta.json and the cgroup move, both best effort.
AnnounceSelf ==
  /\ dpc = "announce"
  /\ \/ DstAlive /\ dres' = "nil" /\ dpc' = AfterReturn(nbdStarted, qdiscInstalled)
     \/ DstReturnErr
  /\ UNCHANGED <<platformVars, dctx, dtodo, qdiscInstalled, nbdStarted, dLeak>>

DeferredQdiscDel ==
  /\ dpc = "deferQdisc"
  /\ \/ QdiscDeleted /\ UNCHANGED dLeak
     \/ UNCHANGED <<qdisc, pkt>> /\ dLeak' = TRUE
  /\ DstGoes("done")
  /\ UNCHANGED <<storageVars, ramVars, dstVars, tunnel, path, dctx, dtodo,
                 qdiscInstalled, nbdStarted>>

DstCancel ==
  /\ dctx = "live" /\ dpc # "done"
  /\ dctx' = "cancelled"
  /\ UNCHANGED <<platformVars, dpc, dtodo, qdiscInstalled, nbdStarted, dres, dLeak>>

\* RunDestination itself.
DestinationStep ==
  \/ DstResolve \/ ClearQdisc \/ AddQdisc \/ ReleaseQdisc \/ RollbackQdisc
  \/ DstConnect \/ MigrateIncoming \/ NbdServerStart
  \/ \E d \in Drives : NbdServerAdd(d)
  \/ Plug \/ WaitForResume \/ Unplug \/ NbdServerStop \/ AnnounceSelf
  \/ DeferredNbdStop \/ DeferredQdiscDel

DestinationNext == DestinationStep \/ DstCancel
=============================================================================
