--------------------------- MODULE StorageProofs ---------------------------
(***************************************************************************)
(* Proofs about the disks, the mirror jobs and the tunnel of a migration,  *)
(* for any set of drives: the guest resumes on current disks, RunSource    *)
(* leaves neither mirror job nor tunnel behind, and traffic is redirected  *)
(* only to a destination that holds it or runs the guest.                  *)
(***************************************************************************)
EXTENDS LiveMigrationProofs

-----------------------------------------------------------------------------
(* The inductive invariant.                                                *)

\* RunSource has not started all mirrors.
Early == {"start", "sleep", "connect", "mirror"}

\* RunSource has started all mirrors and has not cancelled all of them.
Mirroring == SrcPcs \ (Early \cup {"cniDelay", "teardown", "done"})

\* The jobs on record, and the drives that were seen ready.
RecordInv ==
  /\ spc \in Early \ {"mirror"} => mirrorJobIDs = {}
  /\ spc = "mirror" => mirrorJobIDs = Drives \ todo /\ todo # {}
  /\ spc \in Mirroring => mirrorJobIDs = Drives
  /\ spc \in Early => ready = {}
  /\ spc \notin Early \cup {"sync", "deferred", "done"} => ready = Drives
  /\ spc = "done" /\ sres # "err" => ready = Drives
  /\ spc = "deferred" => sres = "err"
  /\ spc \in BeforeMigrate \cup TunnelPcs \cup {"stop", "query", "tunnelRollback", "complete"} =>
       sres = "none"

Quiet(drives) == \A d \in drives : job[d] \notin {"running", "ready"}

\* What is cancelled stays so; a loop that was not finished has not all on record.
JobsInv ==
  /\ spc \in {"cancelJobs", "deferred"} => todo # {} /\ (~sLeak => Quiet(Drives \ todo))
  /\ spc \in {"cniDelay", "teardown", "done"} /\ ~sLeak =>
       Quiet(Drives) \/ (mirrorJobIDs # Drives /\ ready # Drives)

\* The tunnel is up while RunSource works on it, or knows of it.
TunnelInv ==
  /\ tunnel # "absent" => ready = Drives
  /\ tunnel \notin {"absent", "created"} /\ ~sLeak =>
       \/ spc \in {"tunnelUp", "tunnelRoute", "tunnelRollback"}
       \/ /\ tunnelCreated
          /\ spc \in {"complete", "metrics", "migrateCancel", "cancelJobs", "cniDelay", "teardown"}

\* The source guest has stopped before RunSource goes on, unless the migration was
\* cut off.
StoppedInv ==
  /\ stopEvt # "none" /\ dstVM # "dead" => srcVM # "running"
  /\ spc \notin BeforeMigrate \cup {"stop", "query"} /\ sres # "err" /\ dstVM # "dead" =>
       srcVM # "running"

\* What the destination exports, and when it holds packets back.
ExportInv ==
  /\ BeforeIncoming \/ dpc = "nbdStart" => exports = {}
  /\ dpc = "nbdAdd" => dtodo # {} /\ exports \cap dtodo = {}
  /\ BeforeIncoming \/ dpc \in {"nbdStart", "nbdAdd"} =>
       dstVM = "dead" \/ ready \subseteq exports
  /\ dpc = "done" => dres # "none"
  /\ dpc = "resume" /\ qdiscInstalled => qdisc = "blocked"

\* Nothing has gone wrong so far.
Sound == sres # "err" /\ dres # "err" /\ dstVM # "dead"

\* A drive that was seen ready is current, and stays so: its mirror follows the guest,
\* or the guest has stopped.
DiskInv ==
  /\ \A d \in Drives : job[d] = "ready" => d \in current
  /\ dres # "err" /\ dstVM # "dead" /\ dpc \notin {"announce", "deferQdisc", "done"} =>
       \A d \in Drives : job[d] = "ready" => d \in exports
  /\ Sound => \A d \in ready \ faulted :
                d \in current /\ (job[d] = "ready" \/ srcVM # "running")

SInv == RecordInv /\ JobsInv /\ TunnelInv /\ StoppedInv /\ ExportInv /\ DiskInv
-----------------------------------------------------------------------------
(* Each part is kept.                                                      *)

\* The record: only the loop over the drives, the wait for the mirrors and the end of
\* the inline cancel loop change it.
LEMMA RecordStep == ASSUME TypeOK, RecordInv, JobsInv, SourceNext PROVE RecordInv'
<1>. USE PlatformAssumption
     DEF RecordInv, Early, Mirroring, BeforeMigrate, TunnelPcs, SrcPcs, ReturnErr, DeferArmed,
         TypeOK, SourceTypeOK
<1>1. CASE ResolveAndValidate \/ ReplaySleep \/ Connect
  BY <1>1 DEF ResolveAndValidate, ReplaySleep, Connect, Step
<1>2. ASSUME NEW d \in Drives, DriveMirror(d) PROVE RecordInv'
  BY <1>2 DEF DriveMirror
<1>3. CASE WaitForStorageSync
  BY <1>3 DEF WaitForStorageSync
<1>4. CASE Configure \/ Migrate
  BY <1>4 DEF Configure, Migrate, Step
<1>5. CASE WaitForStop \/ QueryMigrate
  BY <1>5, Zenon DEF WaitForStop, QueryMigrate
<1>6. CASE TunnelAdd \/ TunnelUp \/ TunnelRoute \/ RollbackTunnel
  BY <1>6 DEF TunnelAdd, TunnelUp, TunnelRoute, TunnelCmd, RollbackTunnel, DeleteTunnel
<1>7. CASE WaitForMigrationComplete
  BY <1>7 DEF WaitForMigrationComplete
<1>8. CASE CaptureMetrics \/ MigrateCancel
  BY <1>8 DEF CaptureMetrics, MigrateCancel, AfterMigration, TunnelTail
<1>9. CASE CancelJobs \/ DeferredCancel
  BY <1>9, Zenon DEF CancelJobs, DeferredCancel, BlockJobCancel, TunnelTail
<1>10. CASE CniDelay \/ TeardownTunnel \/ CtxDeadline \/ CtxCancel
  BY <1>10, SMTT(30) DEF CniDelay, TeardownTunnel, DeleteTunnel, CtxDeadline, CtxCancel, CtxEnds
<1>. QED BY SourceNext, <1>1, <1>2, <1>3, <1>4, <1>5, <1>6, <1>7, <1>8, <1>9, <1>10, Zenon DEF SourceNext, SourceStep

\* The tunnel: setupTunnel makes it, and it is on record or rolled back.
LEMMA TunnelStep == ASSUME TypeOK, RecordInv, TunnelInv, SourceNext PROVE TunnelInv'
<1>. USE DEF RecordInv, Early, TunnelInv, ReturnErr, TypeOK, SourceTypeOK, PlatformTypeOK, SrcPcs,
         platformVars, netVars
<1>1. CASE ResolveAndValidate \/ ReplaySleep \/ Connect
  BY <1>1 DEF ResolveAndValidate, ReplaySleep, Connect, Step
<1>2. ASSUME NEW d \in Drives, DriveMirror(d) PROVE TunnelInv'
  BY <1>2 DEF DriveMirror
<1>3. CASE WaitForStorageSync
  BY <1>3 DEF WaitForStorageSync
<1>4. CASE Configure \/ Migrate
  BY <1>4, Zenon DEF Configure, Migrate, Step
<1>5. CASE WaitForStop \/ QueryMigrate
  BY <1>5 DEF WaitForStop, QueryMigrate
<1>6. CASE TunnelAdd \/ TunnelUp \/ TunnelRoute \/ RollbackTunnel
  BY <1>6, Zenon DEF TunnelAdd, TunnelUp, TunnelRoute, TunnelCmd, RollbackTunnel, DeleteTunnel
<1>7. CASE WaitForMigrationComplete
  BY <1>7, Zenon DEF WaitForMigrationComplete
<1>8. CASE CaptureMetrics \/ MigrateCancel
  BY <1>8 DEF CaptureMetrics, MigrateCancel, AfterMigration, TunnelTail
<1>9. CASE CancelJobs \/ DeferredCancel
  BY <1>9, Zenon DEF CancelJobs, DeferredCancel, BlockJobCancel, TunnelTail
<1>10. CASE CniDelay \/ TeardownTunnel \/ CtxDeadline \/ CtxCancel
  BY <1>10, SMTT(30) DEF CniDelay, TeardownTunnel, DeleteTunnel, CtxDeadline, CtxCancel, CtxEnds
<1>. QED BY SourceNext, <1>1, <1>2, <1>3, <1>4, <1>5, <1>6, <1>7, <1>8, <1>9, <1>10, Zenon DEF SourceNext, SourceStep

\* The jobs, as RunSource steps: each round of a cancel loop leaves one less.
LEMMA JobsStep == ASSUME TypeOK, RecordInv, JobsInv, SourceNext PROVE JobsInv'
<1>. USE PlatformAssumption
     DEF RecordInv, Early, Mirroring, JobsInv, Quiet, ReturnErr, DeferArmed, TypeOK, SourceTypeOK,
         PlatformTypeOK, SrcPcs, platformVars, storageVars
<1>1. CASE ResolveAndValidate \/ ReplaySleep \/ Connect
  BY <1>1 DEF ResolveAndValidate, ReplaySleep, Connect, Step
<1>2. ASSUME NEW d \in Drives, DriveMirror(d) PROVE JobsInv'
  BY <1>2 DEF DriveMirror
<1>3. CASE WaitForStorageSync
  BY <1>3, Zenon DEF WaitForStorageSync
<1>4. CASE Configure \/ Migrate
  BY <1>4, Zenon DEF Configure, Migrate, Step
<1>5. CASE WaitForStop \/ QueryMigrate
  BY <1>5, Zenon DEF WaitForStop, QueryMigrate
<1>6. CASE TunnelAdd \/ TunnelUp \/ TunnelRoute \/ RollbackTunnel
  BY <1>6, Zenon DEF TunnelAdd, TunnelUp, TunnelRoute, TunnelCmd, RollbackTunnel, DeleteTunnel
<1>7. CASE WaitForMigrationComplete
  BY <1>7, Zenon DEF WaitForMigrationComplete
<1>8. CASE CaptureMetrics \/ MigrateCancel
  BY <1>8, Zenon DEF CaptureMetrics, MigrateCancel, AfterMigration, TunnelTail
<1>9. ASSUME NEW from \in {"cancelJobs", "deferred"}, NEW to \in {"cniDelay", "teardown", "done"},
             BlockJobCancel(from, to)
      PROVE  JobsInv'
  <2>1. PICK d \in todo :
          /\ sLeak' = FALSE => sLeak = FALSE /\ job' = [job EXCEPT ![d] = "absent"]
          /\ todo' = todo \ {d}
    BY <1>9, Zenon DEF BlockJobCancel, BlockJobCancelled
  <2>2. ~sLeak' => Quiet(Drives \ todo)'
    BY <1>9, <2>1 DEF BlockJobCancel
  <2>. QED BY <1>9, <2>1, <2>2 DEF BlockJobCancel
<1>10. CASE CancelJobs \/ DeferredCancel
  BY <1>9, <1>10, Zenon DEF CancelJobs, DeferredCancel, TunnelTail
<1>11. CASE CniDelay \/ TeardownTunnel \/ CtxDeadline \/ CtxCancel
  BY <1>11, Zenon DEF CniDelay, TeardownTunnel, DeleteTunnel, CtxDeadline, CtxCancel, CtxEnds
<1>. QED BY SourceNext, <1>1, <1>2, <1>3, <1>4, <1>5, <1>6, <1>7, <1>8, <1>10, <1>11, Zenon DEF SourceNext, SourceStep

\* A job that does not run does not start by itself.
LEMMA JobsEnd == ASSUME TypeOK, JobsInv, PlatformNext, UNCHANGED srcVars PROVE JobsInv'
<1>1. \A d \in Drives : job'[d] \in {"running", "ready"} => job[d] \in {"running", "ready"}
  BY Zenon DEF PlatformNext, MirrorReady, MirrorFails, RamPause, RamComplete, DstResume, RamFail,
         SrcExit, Send, Converge, storageVars, TypeOK, PlatformTypeOK
<1>. QED BY <1>1 DEF JobsInv, Quiet, srcVars

\* The source guest has stopped when RunSource takes a STOP event, or a completed
\* migration, for the cutover.
LEMMA StoppedStep == ASSUME IInv, RecordInv, StoppedInv, Next PROVE StoppedInv'
<1>. USE DEF RecordInv, StoppedInv, BeforeMigrate, TunnelPcs, IInv, TypeOK, PlatformTypeOK,
         SourceTypeOK, SrcPcs, HandoverInv, ReturnErr, platformVars, ramVars, dstVars
<1>1. CASE SourceNext
  <2>1. CASE ResolveAndValidate \/ ReplaySleep \/ Connect \/ Configure \/ Migrate
    BY <2>1, Zenon DEF ResolveAndValidate, ReplaySleep, Connect, Configure, Step, Migrate
  <2>2. ASSUME NEW d \in Drives, DriveMirror(d) PROVE StoppedInv'
    BY <2>2, Zenon DEF DriveMirror
  <2>3. CASE WaitForStorageSync
    BY <2>3, Zenon DEF WaitForStorageSync
  <2>4. CASE WaitForStop \/ QueryMigrate
    BY <2>4, Zenon DEF WaitForStop, QueryMigrate, BufferEvents
  <2>5. CASE TunnelAdd \/ TunnelUp \/ TunnelRoute \/ RollbackTunnel
    BY <2>5, Zenon DEF TunnelAdd, TunnelUp, TunnelRoute, TunnelCmd, RollbackTunnel, DeleteTunnel
  <2>6. CASE WaitForMigrationComplete
    BY <2>6, Zenon DEF WaitForMigrationComplete, BufferEvents
  <2>7. CASE CaptureMetrics
    BY <2>7, Zenon DEF CaptureMetrics, BufferEvents, AfterMigration, TunnelTail
  <2>8. CASE MigrateCancel
    BY <2>8 DEF MigrateCancel, HandoverAborted, AfterMigration, TunnelTail
  <2>9. CASE CancelJobs \/ DeferredCancel
    BY <2>9, Zenon DEF CancelJobs, DeferredCancel, BlockJobCancel, TunnelTail
  <2>10. CASE CniDelay \/ TeardownTunnel \/ CtxDeadline \/ CtxCancel
    BY <2>10 DEF CniDelay, TeardownTunnel, DeleteTunnel, CtxDeadline, CtxCancel, CtxEnds
  <2>. QED BY <1>1, <2>1, <2>2, <2>3, <2>4, <2>5, <2>6, <2>7, <2>8, <2>9, <2>10, Zenon DEF SourceNext, SourceStep
<1>2. CASE DestinationNext /\ UNCHANGED srcVars
  BY <1>2, ZenonT(40) DEF srcVars, DestinationNext, DestinationStep, DstResolve, ClearQdisc, AddQdisc,
        ReleaseQdisc, RollbackQdisc, DstConnect, MigrateIncoming, NbdServerStart,
        NbdServerAdd, Plug, WaitForResume, Unplug, NbdServerStop, AnnounceSelf,
        DeferredNbdStop, StopNbd, DeferredQdiscDel, DstCancel
<1>3. CASE PlatformNext /\ UNCHANGED srcVars
  BY <1>3, Zenon DEF srcVars, PlatformNext, MirrorReady, MirrorFails, RamPause, RamComplete, DstResume, RamFail,
        HandoverAborted, SrcExit, Send, Converge
<1>. QED BY Next, <1>1, <1>2, <1>3, Zenon DEF Next

\* What RunSource changes of what the destination answers for: its drives leave the
\* exports only as the destination QEMU dies, and only exported drives are seen ready.
LEMMA SourceExports ==
  ASSUME SourceNext
  PROVE  /\ UNCHANGED <<dstVM, exports>> \/ (dstVM' = "dead" /\ exports' = {})
         /\ UNCHANGED qdisc
         /\ \A d \in ready' : d \in ready \/ (d \in Drives /\ job[d] = "ready")
<1>. USE DEF platformVars, storageVars, dstVars, netVars, srcVars
<1>1. CASE ResolveAndValidate \/ ReplaySleep \/ Connect \/ Configure \/ Migrate
  BY <1>1 DEF ResolveAndValidate, ReplaySleep, Connect, Configure, Step, Migrate
<1>2. ASSUME NEW d \in Drives, DriveMirror(d)
      PROVE  UNCHANGED <<dstVM, exports, qdisc, ready>>
  BY <1>2 DEF DriveMirror
<1>3. CASE WaitForStorageSync
  BY <1>3, Zenon DEF WaitForStorageSync
<1>4. CASE WaitForStop \/ QueryMigrate \/ WaitForMigrationComplete \/ CaptureMetrics
  BY <1>4, Zenon DEF WaitForStop, QueryMigrate, WaitForMigrationComplete, CaptureMetrics
<1>5. CASE TunnelAdd \/ TunnelUp \/ TunnelRoute \/ RollbackTunnel
  BY <1>5 DEF TunnelAdd, TunnelUp, TunnelRoute, TunnelCmd, RollbackTunnel, DeleteTunnel
<1>6. CASE MigrateCancel
  BY <1>6 DEF MigrateCancel, HandoverAborted
<1>7. CASE CancelJobs \/ DeferredCancel
  BY <1>7, Zenon DEF CancelJobs, DeferredCancel, BlockJobCancel
<1>8. CASE CniDelay \/ TeardownTunnel \/ CtxDeadline \/ CtxCancel
  BY <1>8, Zenon DEF CniDelay, TeardownTunnel, DeleteTunnel, CtxDeadline, CtxCancel, CtxEnds
<1>. QED BY SourceNext, <1>1, <1>2, <1>3, <1>4, <1>5, <1>6, <1>7, <1>8, Zenon DEF SourceNext, SourceStep

\* The exports: RunDestination adds them one by one before it plugs the tap, and stops
\* the server after RESUME.
LEMMA ExportStep == ASSUME IInv, RefInv, RecordInv, ExportInv, DiskInv, Next PROVE ExportInv'
<1>. USE PlatformAssumption
     DEF ExportInv, BeforeIncoming, IInv, RefInv, DeferInv, HandoverInv, TypeOK, PlatformTypeOK, SourceTypeOK,
         DestinationTypeOK, DstPcs
<1>1. CASE SourceNext /\ UNCHANGED destVars
  <2>1. BeforeIncoming \/ dpc \in {"nbdStart", "nbdAdd"} =>
          dstVM = "dead" \/ \A d \in Drives : job[d] = "ready" => d \in exports
    BY SMTT(30) DEF DiskInv
  <2>. QED BY <1>1, <2>1, SourceExports DEF destVars
<1>2. CASE DestinationNext /\ UNCHANGED srcVars
  <2>. USE DEF srcVars, DstGoes, DstReturnErr, AfterReturn, platformVars, dstVars, netVars
  <2>1. CASE DstResolve \/ ClearQdisc \/ AddQdisc \/ ReleaseQdisc \/ RollbackQdisc
    BY <1>2, <2>1, Zenon DEF DstResolve, ClearQdisc, AddQdisc, ReleaseQdisc, RollbackQdisc
  <2>2. CASE DstConnect \/ MigrateIncoming \/ NbdServerStart
    BY <1>2, <2>2, Zenon DEF DstConnect, MigrateIncoming, NbdServerStart
  <2>3. ASSUME NEW d \in Drives, NbdServerAdd(d) PROVE ExportInv'
    BY <1>2, <2>3, Zenon DEF NbdServerAdd
  <2>4. CASE Plug \/ WaitForResume \/ Unplug
    BY <1>2, <2>4, SMTT(30) DEF Plug, WaitForResume, Unplug
  <2>5. CASE NbdServerStop \/ DeferredNbdStop \/ DeferredQdiscDel
    BY <1>2, <2>5, ZenonT(40) DEF NbdServerStop, DeferredNbdStop, StopNbd, DeferredQdiscDel
  <2>6. CASE AnnounceSelf \/ DstCancel
    BY <1>2, <2>6 DEF AnnounceSelf, DstCancel
  <2>. QED BY <1>2, <2>1, <2>2, <2>3, <2>4, <2>5, <2>6, ZenonT(40) DEF DestinationNext, DestinationStep
<1>3. CASE PlatformNext /\ UNCHANGED <<srcVars, destVars>>
  <2>1. /\ dstVM' # "dead" => dstVM # "dead" /\ exports' = exports
        /\ exports' \in {exports, {}}
        /\ UNCHANGED qdisc
    BY <1>3, Zenon DEF PlatformNext, MirrorReady, MirrorFails, RamPause, RamComplete, DstResume, RamFail,
          HandoverAborted, SrcExit, Send, Converge, dstVars, netVars
  <2>. QED BY <1>3, <2>1 DEF srcVars, destVars
<1>. QED BY Next, <1>1, <1>2, <1>3, Zenon DEF Next

\* A step that leaves the jobs, the images and the source guest alone keeps DiskInv, if
\* what has failed stays so and the exports stay while they count.
LEMMA DiskKept ==
  ASSUME TypeOK, DiskInv, UNCHANGED <<job, current, faulted, ready>>,
         srcVM' = srcVM \/ srcVM' # "running",
         Sound' => Sound,
         \/ dres' = "err" \/ dstVM' = "dead" \/ dpc' \in {"announce", "deferQdisc", "done"}
         \/ /\ exports \subseteq exports'
            /\ dres # "err" /\ dstVM # "dead" /\ dpc \notin {"announce", "deferQdisc", "done"}
  PROVE  DiskInv'
BY DEF DiskInv

\* A failure is not taken back.
LEMMA StaysFailed == ASSUME IInv, RefInv, RecordInv, Next PROVE Sound' => Sound
<1>. USE DEF IInv, TypeOK, PlatformTypeOK, SourceTypeOK, Sound
<1>1. CASE SourceNext /\ UNCHANGED destVars
  <2>1. sres = "err" => sres' = "err"
    <3>. USE DEF ReturnErr
    <3>1. CASE ResolveAndValidate \/ ReplaySleep \/ Connect \/ Configure \/ Migrate
      BY <3>1, Zenon DEF ResolveAndValidate, ReplaySleep, Connect, Configure, Step, Migrate
    <3>2. ASSUME NEW d \in Drives, DriveMirror(d) PROVE sres' \in {sres, "err"}
      BY <3>2, Zenon DEF DriveMirror
    <3>3. CASE WaitForStorageSync \/ WaitForStop \/ QueryMigrate
      BY <3>3, Zenon DEF WaitForStorageSync, WaitForStop, QueryMigrate
    <3>4. CASE TunnelAdd \/ TunnelUp \/ TunnelRoute \/ RollbackTunnel
      BY <3>4, Zenon DEF TunnelAdd, TunnelUp, TunnelRoute, TunnelCmd, RollbackTunnel, DeleteTunnel
    <3>5. CASE WaitForMigrationComplete
      BY <3>5, SMTT(30) DEF WaitForMigrationComplete, RecordInv
    <3>6. CASE CaptureMetrics \/ MigrateCancel \/ CancelJobs \/ DeferredCancel
      BY <3>6, Zenon DEF CaptureMetrics, MigrateCancel, CancelJobs, DeferredCancel, BlockJobCancel
    <3>7. CASE CniDelay \/ TeardownTunnel \/ CtxDeadline \/ CtxCancel
      BY <3>7, Zenon DEF CniDelay, TeardownTunnel, DeleteTunnel, CtxDeadline, CtxCancel, CtxEnds
    <3>. QED BY <1>1, <3>1, <3>2, <3>3, <3>4, <3>5, <3>6, <3>7, Zenon DEF SourceNext, SourceStep
  <2>. QED BY <1>1, <2>1, SourceExports, Zenon DEF destVars
<1>2. CASE DestinationNext /\ UNCHANGED srcVars
  BY <1>2, DestinationStepEffects, Zenon DEF srcVars
<1>3. CASE PlatformNext /\ UNCHANGED <<srcVars, destVars>>
  <2>1. dstVM = "dead" => dstVM' = "dead"
    BY <1>3, ZenonT(40) DEF PlatformNext, MirrorReady, MirrorFails, RamPause, RamComplete, DstResume, RamFail,
          HandoverAborted, SrcExit, Send, Converge, dstVars
  <2>. QED BY <1>3, <2>1 DEF srcVars, destVars
<1>. QED BY Next, <1>1, <1>2, <1>3, Zenon DEF Next

\* The disks, as RunSource steps: it counts a drive as ready when its mirror is, and
\* cancels the mirrors once the guest has stopped.
LEMMA DiskSource ==
  ASSUME IInv, RefInv, RecordInv, StoppedInv, DiskInv, SourceNext, UNCHANGED destVars
  PROVE  DiskInv'
<1>. USE DEF IInv, TypeOK, PlatformTypeOK, SourceTypeOK
<1>1. Sound' => Sound
  BY StaysFailed, Zenon DEF Next
<1>2. CASE UNCHANGED <<job, current, faulted, ready, srcVM, dstVM, exports>>
  BY <1>1, <1>2, Zenon DEF DiskInv, destVars
<1>3. CASE ResolveAndValidate \/ ReplaySleep \/ Connect \/ Configure \/ Migrate
  BY <1>2, <1>3, Zenon DEF ResolveAndValidate, ReplaySleep, Connect, Configure, Step, Migrate, platformVars,
        storageVars, ramVars, dstVars
<1>4. ASSUME NEW d \in Drives, DriveMirror(d) PROVE DiskInv'
  <2>1. /\ UNCHANGED <<current, faulted, srcVM, dstVM, exports, ready>>
        /\ ready = {}
        /\ job' = job \/ job' = [job EXCEPT ![d] = "running"]
    BY <1>4, Zenon DEF DriveMirror, DriveMirrorStarts, RecordInv, Early, ramVars, dstVars
  <2>. QED BY <2>1, Zenon DEF DiskInv, destVars
<1>5. CASE WaitForStorageSync
  BY <1>1, <1>5, SourceExports, ZenonT(40) DEF WaitForStorageSync, DiskInv, destVars, platformVars, storageVars, ramVars, dstVars
<1>6. CASE WaitForStop \/ QueryMigrate \/ WaitForMigrationComplete \/ CaptureMetrics
  BY <1>2, <1>6, SMTT(30) DEF WaitForStop, QueryMigrate, WaitForMigrationComplete, CaptureMetrics, storageVars, dstVars
<1>7. CASE TunnelAdd \/ TunnelUp \/ TunnelRoute \/ RollbackTunnel
  BY <1>2, <1>7, Zenon DEF TunnelAdd, TunnelUp, TunnelRoute, TunnelCmd, RollbackTunnel, DeleteTunnel, storageVars, ramVars, dstVars
<1>8. CASE MigrateCancel
  <2>1. CASE HandoverAborted("cancelled")
    BY <1>8, <2>1, Zenon DEF MigrateCancel, HandoverAborted, Follow, DiskInv, Sound
  <2>2. CASE ~HandoverAborted("cancelled")
    BY <1>2, <1>8, <2>2, Zenon DEF MigrateCancel
  <2>. QED BY <2>1, <2>2, Zenon
<1>9. CASE CancelJobs \/ DeferredCancel
  <2>1. /\ UNCHANGED <<faulted, srcVM, dstVM, exports, ready, sres>>
        /\ \/ UNCHANGED <<job, current>>
           \/ \E d \in Drives : BlockJobCancelled(d)
    BY <1>9, Zenon DEF CancelJobs, DeferredCancel, BlockJobCancel, ramVars, dstVars
  <2>2. Sound => srcVM # "running"
    BY <1>9, Zenon DEF CancelJobs, DeferredCancel, BlockJobCancel, RecordInv, StoppedInv, BeforeMigrate, Sound
  <2>3. ASSUME NEW d \in Drives, BlockJobCancelled(d) PROVE DiskInv'
    BY <1>1, <2>1, <2>2, <2>3, Zenon DEF BlockJobCancelled, Follow, DiskInv, destVars
  <2>. QED BY <1>2, <2>1, <2>3, SMTT(30)
<1>10. CASE CniDelay \/ TeardownTunnel \/ CtxDeadline \/ CtxCancel
  BY <1>2, <1>10, Zenon DEF CniDelay, TeardownTunnel, DeleteTunnel, CtxDeadline, CtxCancel, CtxEnds, platformVars, storageVars,
        ramVars, dstVars
<1>. QED BY SourceNext, <1>3, <1>4, <1>5, <1>6, <1>7, <1>8, <1>9, <1>10, Zenon DEF SourceNext, SourceStep

\* The disks, as RunDestination steps: it stops the server only after RESUME, or failed.
LEMMA DiskDestination ==
  ASSUME IInv, RefInv, RecordInv, DiskInv, DestinationNext, UNCHANGED srcVars
  PROVE  DiskInv'
<1>. USE DEF IInv, RefInv, DeferInv, TypeOK, DestinationTypeOK, DstPcs
<1>1. Sound' => Sound
  BY StaysFailed, Zenon DEF Next
<1>2. UNCHANGED <<job, current, faulted, ready, srcVM, dstVM>>
  <2>1. UNCHANGED storageVars
    BY Zenon DEF DestinationNext, DestinationStep, DstResolve, ClearQdisc, AddQdisc, ReleaseQdisc, RollbackQdisc,
       DstConnect, MigrateIncoming, NbdServerStart, NbdServerAdd, Plug, WaitForResume, Unplug,
       NbdServerStop, AnnounceSelf, DeferredNbdStop, StopNbd, DeferredQdiscDel, DstCancel, platformVars
  <2>. QED BY <2>1, DestinationStepEffects, SMTT(30) DEF storageVars, srcVars
<1>3. \/ dres' = "err" \/ dpc' \in {"announce", "deferQdisc", "done"}
      \/ /\ exports \subseteq exports'
         /\ dres # "err" /\ dpc \notin {"announce", "deferQdisc", "done"}
  <2>. USE DEF DstGoes, DstReturnErr, AfterReturn, platformVars, dstVars
  <2>1. CASE DstResolve \/ ClearQdisc \/ AddQdisc \/ ReleaseQdisc \/ RollbackQdisc
    BY <2>1, Zenon DEF DstResolve, ClearQdisc, AddQdisc, ReleaseQdisc, RollbackQdisc
  <2>2. CASE DstConnect \/ MigrateIncoming \/ NbdServerStart \/ \E d \in Drives : NbdServerAdd(d)
    BY <2>2, Zenon DEF DstConnect, MigrateIncoming, NbdServerStart, NbdServerAdd
  <2>3. CASE Plug \/ WaitForResume \/ Unplug
    BY <2>3 DEF Plug, WaitForResume, Unplug
  <2>4. CASE NbdServerStop \/ DeferredNbdStop \/ DeferredQdiscDel
    BY <2>4, ZenonT(40) DEF NbdServerStop, DeferredNbdStop, StopNbd, DeferredQdiscDel
  <2>5. CASE AnnounceSelf
    BY <2>5, Zenon DEF AnnounceSelf
  <2>6. CASE DstCancel
    BY <2>6, Zenon DEF DstCancel
  <2>. QED BY DestinationNext, <2>1, <2>2, <2>3, <2>4, <2>5, <2>6, Zenon DEF DestinationNext, DestinationStep
<1>. QED BY <1>1, <1>2, <1>3, DiskKept, Zenon

\* The disks, as QEMU steps: a mirror whose server was stopped fails when the source
\* guest writes no more.
LEMMA DiskPlatform ==
  ASSUME IInv, RefInv, RecordInv, ExportInv, DiskInv, PlatformNext, UNCHANGED <<srcVars, destVars>>
  PROVE  DiskInv'
<1>. USE DEF IInv, TypeOK, PlatformTypeOK, SourceTypeOK, srcVars, destVars
<1>1. Sound' => Sound
  BY StaysFailed, Zenon DEF Next
<1>2. ASSUME NEW d \in Drives, MirrorReady(d) PROVE DiskInv'
  BY <1>1, <1>2, Zenon DEF MirrorReady, DiskInv, ramVars, dstVars
<1>3. ASSUME NEW d \in Drives, MirrorFails(d) PROVE DiskInv'
  <2>1. Sound /\ job[d] = "ready" /\ d \notin exports => srcVM # "running"
    BY Zenon DEF DiskInv, Sound, ExportInv, HandoverInv, DeferInv, DestinationTypeOK
  <2>2. Sound /\ d \in ready \ faulted' => srcVM # "running"
    BY <1>3, <2>1 DEF MirrorFails, DiskInv
  <2>3. PICK s \in {"absent", "concluded"} : job' = [job EXCEPT ![d] = s]
    BY <1>3, Zenon DEF MirrorFails
  <2>4. /\ UNCHANGED <<srcVM, dstVM, exports>>
        /\ current' = Follow(current, job', srcVM)
        /\ faulted \subseteq faulted'
    BY <1>3, Zenon DEF MirrorFails, ramVars, dstVars
  <2>. QED BY <1>1, <2>2, <2>3, <2>4, Zenon DEF DiskInv, Follow
<1>4. CASE RamPause \/ RamComplete \/ DstResume
  BY <1>1, <1>4, Zenon DEF RamPause, RamComplete, DstResume, DiskInv, storageVars, ramVars, dstVars
<1>5. CASE RamFail
  BY <1>5, Zenon DEF RamFail, HandoverAborted, Follow, DiskInv, Sound
<1>6. CASE SrcExit
  BY <1>1, <1>6, Zenon DEF SrcExit, DiskInv
<1>7. CASE Converge \/ \E p \in Packets : Send(p)
  BY <1>1, <1>7 DEF Converge, Send, DiskInv, storageVars, ramVars, dstVars
<1>. QED BY PlatformNext, <1>2, <1>3, <1>4, <1>5, <1>6, <1>7, Zenon DEF PlatformNext
-----------------------------------------------------------------------------
(* The theorems.                                                           *)

\* The inductive invariant holds in every reachable state.
LEMMA StorageInductive == Spec => []SInv
<1>1. Init => SInv
  BY PlatformAssumption, Zenon
  DEF Init, PlatformInit, SourceInit, DestinationInit, SInv, RecordInv, JobsInv, TunnelInv, StoppedInv,
      ExportInv, DiskInv, Early, Mirroring, BeforeMigrate, TunnelPcs, BeforeIncoming
<1>2. IInv /\ RefInv /\ SInv /\ [Next]_vars => SInv'
  <2>. SUFFICES ASSUME IInv, RefInv, SInv, [Next]_vars PROVE SInv'
    BY Zenon
  <2>. USE DEF SInv
  <2>1. CASE SourceNext /\ UNCHANGED destVars
    BY <2>1, RecordStep, JobsStep, TunnelStep, StoppedStep, ExportStep, DiskSource DEF IInv, Next
  <2>2. ASSUME DestinationNext \/ PlatformNext, UNCHANGED srcVars
        PROVE  RecordInv' /\ TunnelInv'
    <3>1. RecordInv'
      BY <2>2, SMTT(30) DEF srcVars, RecordInv
    <3>2. UNCHANGED tunnel
      BY <2>2, Zenon DEF DestinationNext, DestinationStep, DstResolve, ClearQdisc, AddQdisc, ReleaseQdisc,
         RollbackQdisc, DstConnect, MigrateIncoming, NbdServerStart, NbdServerAdd, Plug, WaitForResume,
         Unplug, NbdServerStop, AnnounceSelf, DeferredNbdStop, StopNbd, DeferredQdiscDel, DstCancel,
         PlatformNext, MirrorReady, MirrorFails, RamPause, RamComplete, DstResume, RamFail, SrcExit, Send,
         Converge, platformVars, netVars
    <3>3. TunnelInv'
      BY <2>2, <3>2, Zenon DEF srcVars, TunnelInv
    <3>. QED BY <3>1, <3>3, Zenon
  <2>3. CASE DestinationNext /\ UNCHANGED srcVars
    <3>1. UNCHANGED job
      BY <2>3, Zenon DEF DestinationNext, DestinationStep, DstResolve, ClearQdisc, AddQdisc, ReleaseQdisc,
         RollbackQdisc, DstConnect, MigrateIncoming, NbdServerStart, NbdServerAdd, Plug, WaitForResume,
         Unplug, NbdServerStop, AnnounceSelf, DeferredNbdStop, StopNbd, DeferredQdiscDel, DstCancel,
         platformVars, storageVars
    <3>2. JobsInv'
      BY <2>3, <3>1, Zenon DEF srcVars, JobsInv, Quiet
    <3>. QED BY <2>2, <2>3, <3>2, StoppedStep, ExportStep, DiskDestination, SMTT(30) DEF Next
  <2>4. CASE PlatformNext /\ UNCHANGED <<srcVars, destVars>>
    BY <2>2, <2>4, JobsEnd, StoppedStep, ExportStep, DiskPlatform, Zenon DEF IInv, Next
  <2>5. CASE UNCHANGED vars
    <3>. USE <2>5 DEF vars, platformVars, srcVars, destVars
    <3>1. RecordInv'
      BY Zenon DEF RecordInv
    <3>2. JobsInv'
      BY Zenon DEF JobsInv, Quiet, storageVars
    <3>3. TunnelInv' /\ StoppedInv'
      BY Zenon DEF TunnelInv, StoppedInv, netVars, ramVars, dstVars
    <3>4. ExportInv'
      BY Zenon DEF ExportInv, BeforeIncoming, netVars, dstVars
    <3>5. DiskInv'
      BY DEF DiskInv, Sound, storageVars, ramVars, dstVars
    <3>. QED BY <3>1, <3>2, <3>3, <3>4, <3>5, Zenon
  <2>. QED BY <2>1, <2>3, <2>4, <2>5 DEF Next
<1>. QED BY <1>1, <1>2, Inductive, RefInductive, PTL DEF Spec

\* The guest resumes on disks that hold its last writes, for any number of drives:
\* RunSource waits for all mirrors, and neither side ends one before the guest stopped.
THEOREM DisksAreCurrent == Spec => []ResumedOnCurrentDisk
<1>1. IInv /\ SInv => ResumedOnCurrentDisk
  BY DEF IInv, HandoverInv, TypeOK, SourceTypeOK, SrcPcs, BeforeMigrate, SInv, RecordInv, Early, DiskInv,
     Sound, ResumedOnCurrentDisk
<1>. QED BY <1>1, Inductive, StorageInductive, PTL

\* When RunSource has returned and its cleanup worked, wherever in its sequence of calls
\* it failed, it redirects no traffic any more (rollbackTunnel, teardownTunnel), and no
\* mirror job runs if all had been started (the deferred block-job-cancel).
THEOREM SourceCleansUp == Spec => []SourceWithdraws
<1>1. IInv /\ SInv => SourceWithdraws
  <2>1. IInv => tunnel \in {"absent", "created", "up", "routed"}
    BY DEF IInv, TypeOK, PlatformTypeOK
  <2>. QED BY <2>1, Zenon DEF SInv, TunnelInv, JobsInv, Quiet, SourceWithdraws
<1>. QED BY <1>1, Inductive, StorageInductive, PTL

\* setupTunnel redirects traffic only to a tap that holds it back or that belongs to the
\* running guest: all mirrors were ready, so RunDestination has exported every drive and
\* has only the plug to set.
THEOREM RedirectIsSafe == Spec => []RedirectIsCovered
<1>1. IInv /\ SInv => RedirectIsCovered
  <2>. SUFFICES ASSUME IInv, SInv, tunnel = "routed", qdiscInstalled, dres # "err"
                PROVE  qdisc = "blocked" \/ dstVM \in {"running", "dead"} \/ dpc = "plug"
    BY DEF RedirectIsCovered
  <2>1. ready = Drives /\ ~BeforeIncoming
    BY Zenon DEF IInv, ColdInv, SInv, TunnelInv
  <2>2. dpc \in {"nbdStart", "nbdAdd"} => dstVM = "dead"
    BY <2>1, PlatformAssumption DEF IInv, TypeOK, DestinationTypeOK, DeferInv, SInv, ExportInv
  <2>. QED BY <2>1, <2>2 DEF IInv, TypeOK, DestinationTypeOK, DstPcs, BeforeIncoming, HandoverInv, DeferInv,
              SInv, ExportInv
<1>. QED BY <1>1, Inductive, StorageInductive, PTL
=============================================================================
