------------------------ MODULE LiveMigrationProofs ------------------------
(***************************************************************************)
(* Proofs about a migration, for any set of drives and packets and any     *)
(* plug limit: types, the verdict, the tap, and that LiveMigration         *)
(* implements Handover.                                                    *)
(***************************************************************************)
EXTENDS LiveMigration, TLAPS

-----------------------------------------------------------------------------
(* Type correctness, by component.                                         *)

\* Every step of RunSource keeps the types of its variables.
LEMMA SourceTypes == ASSUME TypeOK, SourceNext PROVE SourceTypeOK'
<1>. USE DEF TypeOK, SourceTypeOK, SrcPcs
<1>1. CASE ResolveAndValidate
  BY <1>1 DEF ResolveAndValidate, Step, ReturnErr
<1>2. CASE ReplaySleep
  BY <1>2 DEF ReplaySleep, ReturnErr
<1>3. CASE Connect
  BY <1>3 DEF Connect, ReturnErr
<1>4. ASSUME NEW d \in Drives, DriveMirror(d) PROVE SourceTypeOK'
  BY <1>4 DEF DriveMirror, ReturnErr
<1>5. CASE WaitForStorageSync
  BY <1>5 DEF WaitForStorageSync, ReturnErr
<1>6. CASE Configure
  BY <1>6 DEF Configure, Step, ReturnErr
<1>7. CASE Migrate
  BY <1>7 DEF Migrate, ReturnErr
<1>8. CASE WaitForStop
  BY <1>8 DEF WaitForStop, ReturnErr
<1>9. CASE QueryMigrate
  BY <1>9 DEF QueryMigrate, ReturnErr
<1>10. CASE TunnelAdd
  BY <1>10, Zenon DEF TunnelAdd, TunnelCmd, ReturnErr
<1>11. CASE TunnelUp
  BY <1>11, Zenon DEF TunnelUp, TunnelCmd, ReturnErr
<1>12. CASE TunnelRoute
  BY <1>12, Zenon DEF TunnelRoute, TunnelCmd, ReturnErr
<1>13. CASE RollbackTunnel
  BY <1>13, Zenon DEF RollbackTunnel, DeleteTunnel, ReturnErr
<1>14. CASE WaitForMigrationComplete
  BY <1>14, Zenon DEF WaitForMigrationComplete
<1>15. CASE CaptureMetrics
  BY <1>15 DEF CaptureMetrics, AfterMigration, TunnelTail
<1>16. CASE MigrateCancel
  BY <1>16, Zenon DEF MigrateCancel, AfterMigration, TunnelTail
<1>17. CASE CancelJobs
  BY <1>17, Zenon DEF CancelJobs, BlockJobCancel, TunnelTail
<1>18. CASE DeferredCancel
  BY <1>18, Zenon DEF DeferredCancel, BlockJobCancel
<1>19. CASE CniDelay
  BY <1>19 DEF CniDelay
<1>20. CASE TeardownTunnel
  BY <1>20, Zenon DEF TeardownTunnel, DeleteTunnel
<1>21. CASE CtxDeadline
  BY <1>21 DEF CtxDeadline, CtxEnds
<1>22. CASE CtxCancel
  BY <1>22, Zenon DEF CtxCancel, CtxEnds
<1>. QED
  BY SourceNext, <1>1, <1>2, <1>3, <1>4, <1>5, <1>6, <1>7, <1>8, <1>9, <1>10, <1>11, <1>12, <1>13, <1>14, <1>15, <1>16, <1>17, <1>18, <1>19, <1>20, <1>21, <1>22, Zenon DEF SourceNext, SourceStep

\* Every step of RunDestination keeps the types of its variables.
LEMMA DestinationTypes == ASSUME TypeOK, DestinationNext PROVE DestinationTypeOK'
<1>. USE DEF TypeOK, DestinationTypeOK, DstPcs
<1>1. CASE DstResolve
  BY <1>1 DEF DstResolve, DstGoes, DstReturnErr, AfterReturn
<1>2. CASE ClearQdisc
  BY <1>2, Zenon DEF ClearQdisc, DstGoes
<1>3. CASE AddQdisc
  BY <1>3 DEF AddQdisc, DstGoes, DstReturnErr, AfterReturn
<1>4. CASE ReleaseQdisc
  BY <1>4, Zenon DEF ReleaseQdisc, DstGoes
<1>5. CASE RollbackQdisc
  BY <1>5, Zenon DEF RollbackQdisc, DstReturnErr, AfterReturn
<1>6. CASE DstConnect
  BY <1>6 DEF DstConnect, DstGoes, DstReturnErr, AfterReturn
<1>7. CASE MigrateIncoming
  BY <1>7 DEF MigrateIncoming, DstGoes, DstReturnErr, AfterReturn
<1>8. CASE NbdServerStart
  BY <1>8, Zenon DEF NbdServerStart, DstGoes, DstReturnErr, AfterReturn
<1>9. ASSUME NEW d \in Drives, NbdServerAdd(d) PROVE DestinationTypeOK'
  BY <1>9 DEF NbdServerAdd, DstGoes, DstReturnErr, AfterReturn
<1>10. CASE Plug
  BY <1>10 DEF Plug, DstGoes, DstReturnErr, AfterReturn
<1>11. CASE WaitForResume
  BY <1>11 DEF WaitForResume, DstGoes, DstReturnErr, AfterReturn
<1>12. CASE Unplug
  BY <1>12, Zenon DEF Unplug, DstGoes, DstReturnErr, AfterReturn
<1>13. CASE NbdServerStop
  BY <1>13, Zenon DEF NbdServerStop, StopNbd, DstGoes
<1>14. CASE AnnounceSelf
  BY <1>14 DEF AnnounceSelf, DstReturnErr, AfterReturn
<1>15. CASE DeferredNbdStop
  BY <1>15, Zenon DEF DeferredNbdStop, StopNbd, DstGoes, AfterReturn
<1>16. CASE DeferredQdiscDel
  BY <1>16, ZenonT(40) DEF DeferredQdiscDel, DstGoes
<1>17. CASE DstCancel
  BY <1>17 DEF DstCancel
<1>. QED
  BY DestinationNext, <1>1, <1>2, <1>3, <1>4, <1>5, <1>6, <1>7, <1>8, <1>9, <1>10, <1>11, <1>12, <1>13, <1>14, <1>15, <1>16, <1>17, Zenon DEF DestinationNext, DestinationStep

\* Every step keeps the types of what the binaries act upon.
LEMMA PlatformTypes == ASSUME TypeOK, Next PROVE PlatformTypeOK'
<1>. USE DEF TypeOK, PlatformTypeOK, storageVars, ramVars, dstVars, netVars
<1>1. ASSUME NEW d \in Drives, DriveMirror(d) PROVE PlatformTypeOK'
  BY <1>1 DEF DriveMirror, DriveMirrorStarts, JobStates
<1>2. CASE Migrate
  BY <1>2 DEF Migrate, MigrateStarts, RamStates
<1>3. CASE WaitForStop
  BY <1>3 DEF WaitForStop
<1>4. CASE QueryMigrate
  BY <1>4 DEF QueryMigrate, BufferEvents
<1>5. CASE TunnelAdd
  BY <1>5 DEF TunnelAdd, TunnelCmd
<1>6. CASE TunnelUp
  BY <1>6 DEF TunnelUp, TunnelCmd
<1>7. CASE TunnelRoute
  BY <1>7 DEF TunnelRoute, TunnelCmd
<1>8. CASE RollbackTunnel
  BY <1>8 DEF RollbackTunnel, DeleteTunnel
<1>9. CASE WaitForMigrationComplete
  BY <1>9 DEF WaitForMigrationComplete, BufferEvents
<1>10. CASE CaptureMetrics
  BY <1>10 DEF CaptureMetrics, BufferEvents
<1>11. CASE MigrateCancel
  BY <1>11, ZenonT(40) DEF MigrateCancel, HandoverAborted, SrcTapBecomes, Follow, RamStates, PktStates
<1>12. CASE CancelJobs
  <2>1. UNCHANGED <<faulted, ramVars, dstVars, netVars>>
    BY <1>12 DEF CancelJobs, BlockJobCancel
  <2>2. UNCHANGED <<job, current>> \/ \E d \in todo : BlockJobCancelled(d)
    BY <1>12, Zenon DEF CancelJobs, BlockJobCancel
  <2>3. job' \in [Drives -> JobStates] /\ current' \subseteq Drives
    BY <2>2 DEF BlockJobCancelled, Follow, JobStates
  <2>. QED BY <2>1, <2>3
<1>13. CASE DeferredCancel
  <2>1. UNCHANGED <<faulted, ramVars, dstVars, netVars>>
    BY <1>13 DEF DeferredCancel, BlockJobCancel
  <2>2. UNCHANGED <<job, current>> \/ \E d \in todo : BlockJobCancelled(d)
    BY <1>13, Zenon DEF DeferredCancel, BlockJobCancel
  <2>3. job' \in [Drives -> JobStates] /\ current' \subseteq Drives
    BY <2>2 DEF BlockJobCancelled, Follow, JobStates
  <2>. QED BY <2>1, <2>3
<1>14. CASE TeardownTunnel
  BY <1>14 DEF TeardownTunnel, DeleteTunnel
<1>15. CASE ClearQdisc
  BY <1>15 DEF ClearQdisc, QdiscDeleted, PktStates
<1>16. CASE AddQdisc
  BY <1>16 DEF AddQdisc
<1>17. CASE ReleaseQdisc
  BY <1>17 DEF ReleaseQdisc, QdiscReleased, PktStates
<1>18. CASE RollbackQdisc
  BY <1>18 DEF RollbackQdisc, QdiscDeleted, PktStates
<1>19. CASE MigrateIncoming
  <2>1. incoming' \in BOOLEAN
    BY <1>19, Zenon DEF MigrateIncoming
  <2>2. UNCHANGED <<storageVars, ramVars, dstVM, exports, resumeEvt, netVars>>
    BY <1>19 DEF MigrateIncoming
  <2>. QED BY <2>1, <2>2
<1>20. ASSUME NEW d \in Drives, NbdServerAdd(d) PROVE PlatformTypeOK'
  BY <1>20 DEF NbdServerAdd
<1>21. CASE Plug
  BY <1>21 DEF Plug
<1>22. CASE WaitForResume
  <2>1. resumeEvt' \in BOOLEAN
    BY <1>22, Zenon DEF WaitForResume
  <2>2. UNCHANGED <<storageVars, ramVars, dstVM, incoming, exports, netVars>>
    BY <1>22 DEF WaitForResume
  <2>. QED BY <2>1, <2>2
<1>23. CASE Unplug
  BY <1>23 DEF Unplug, QdiscReleased, PktStates
<1>24. CASE NbdServerStop
  <2>1. exports' \subseteq Drives
    BY <1>24, Zenon DEF NbdServerStop, StopNbd
  <2>2. UNCHANGED <<storageVars, ramVars, dstVM, incoming, resumeEvt, netVars>>
    BY <1>24 DEF NbdServerStop, StopNbd
  <2>. QED BY <2>1, <2>2
<1>25. CASE DeferredNbdStop
  <2>1. exports' \subseteq Drives
    BY <1>25, Zenon DEF DeferredNbdStop, StopNbd
  <2>2. UNCHANGED <<storageVars, ramVars, dstVM, incoming, resumeEvt, netVars>>
    BY <1>25 DEF DeferredNbdStop, StopNbd
  <2>. QED BY <2>1, <2>2
<1>26. CASE DeferredQdiscDel
  BY <1>26 DEF DeferredQdiscDel, QdiscDeleted, PktStates
<1>27. ASSUME NEW d \in Drives, MirrorReady(d) PROVE PlatformTypeOK'
  BY <1>27 DEF MirrorReady, JobStates
<1>28. ASSUME NEW d \in Drives, MirrorFails(d) PROVE PlatformTypeOK'
  BY <1>28 DEF MirrorFails, Follow, JobStates
<1>29. CASE RamPause
  BY <1>29 DEF RamPause
<1>30. CASE RamComplete
  BY <1>30, Zenon DEF RamComplete, SrcTapBecomes, RamStates, PktStates
<1>31. CASE DstResume
  BY <1>31 DEF DstResume
<1>32. CASE RamFail
  BY <1>32, Zenon DEF RamFail, HandoverAborted, SrcTapBecomes, Follow, RamStates, PktStates
<1>33. CASE SrcExit
  BY <1>33, Zenon DEF SrcExit, SrcTapBecomes, JobStates, RamStates, PktStates
<1>34. ASSUME NEW p \in Packets, Send(p) PROVE PlatformTypeOK'
  BY <1>34 DEF Send, AtSource, AtDestTap, PktStates
<1>35. CASE Converge
  BY <1>35 DEF Converge
<1>36. CASE UNCHANGED platformVars
  BY <1>36 DEF platformVars
<1>. QED
  BY Next, <1>1, <1>2, <1>3, <1>4, <1>5, <1>6, <1>7, <1>8, <1>9, <1>10, <1>11, <1>12, <1>13, <1>14, <1>15, <1>16, <1>17, <1>18, <1>19, <1>20, <1>21, <1>22, <1>23, <1>24, <1>25, <1>26, <1>27, <1>28, <1>29, <1>30, <1>31, <1>32, <1>33, <1>34, <1>35, <1>36, Zenon
  DEF Next, SourceNext, SourceStep, DestinationNext, DestinationStep, PlatformNext,
      ResolveAndValidate, ReplaySleep, Step, Connect, WaitForStorageSync, Configure, CniDelay, CtxDeadline, CtxCancel, CtxEnds, DstResolve, DstConnect, NbdServerStart, AnnounceSelf, DstCancel

\* The variables of RunSource, of RunDestination, of QEMU and of the network
\* keep their types.
THEOREM Typing == Spec => []TypeOK
<1>1. Init => TypeOK
  BY PlatformAssumption, ZenonT(40)
  DEF Init, PlatformInit, SourceInit, DestinationInit, TypeOK, PlatformTypeOK,
      SourceTypeOK, DestinationTypeOK, JobStates, RamStates, PktStates, SrcPcs, DstPcs
<1>2. TypeOK /\ [Next]_vars => TypeOK'
  <2>. SUFFICES ASSUME TypeOK, [Next]_vars PROVE TypeOK'
    OBVIOUS
  <2>1. CASE Next
    <3>1. PlatformTypeOK'
      BY <2>1, PlatformTypes
    <3>2. SourceTypeOK'
      BY <2>1, SourceTypes DEF Next, TypeOK, SourceTypeOK, srcVars
    <3>3. DestinationTypeOK'
      BY <2>1, DestinationTypes, Zenon DEF Next, TypeOK, DestinationTypeOK, destVars
    <3>. QED BY <3>1, <3>2, <3>3 DEF TypeOK
  <2>2. CASE UNCHANGED vars
    BY <2>2 DEF vars, platformVars, storageVars, ramVars, dstVars, netVars, srcVars,
       destVars, TypeOK, PlatformTypeOK, SourceTypeOK, DestinationTypeOK
  <2>. QED BY <2>1, <2>2
<1>. QED BY <1>1, <1>2, PTL DEF Spec

-----------------------------------------------------------------------------
(* The inductive invariant.                                                *)

\* RunDestination has not asked QEMU to listen for the migration yet.
BeforeIncoming ==
  dpc \in {"start", "ifCheck", "qdiscAdd", "qdiscRelease", "qdiscRollback",
           "connect", "incoming"}

\* RunSource has not sent migrate yet; RunSource is setting up the tunnel.
BeforeMigrate ==
  {"start", "sleep", "connect", "mirror", "sync", "configure", "migrate"}

TunnelPcs == {"tunnelAdd", "tunnelUp", "tunnelRoute"}

\* No RAM can have reached the destination.
Cold ==
  /\ ~incoming
  /\ dstVM \in {"waiting", "dead"}
  /\ ram \notin {"active", "completed"}

\* The guest is handed over once, and a RESUME event says that it was.
HandoverInv ==
  /\ spc \in BeforeMigrate => ram = "none"
  /\ dstVM \in {"loaded", "running"} => ram = "completed"
  /\ ram = "completed" => srcVM # "running"
  /\ resumeEvt => dstVM = "running"
  /\ dpc \in {"unplug", "nbdStop", "announce"} => dstVM = "running"
  /\ dres = "nil" => dstVM = "running"

\* Before RunDestination listens, no packet is on its way to its tap.
ColdInv ==
  BeforeIncoming =>
    /\ Cold
    /\ stopEvt = "none"
    /\ tunnel = "absent"
    /\ path = "src"
    /\ spc \notin TunnelPcs
    /\ \A p \in Packets : pkt[p] # "queued"

\* Who answers for a blocked qdisc.
TapInv ==
  /\ qdisc = "blocked" /\ ~dLeak =>
       \/ qdiscInstalled
       \/ dpc \in {"qdiscRelease", "qdiscRollback"}
       \/ dpc \in {"start", "ifCheck", "done"} /\ Cold
  /\ dpc = "start" /\ ~TapIface => qdisc = "none"
  /\ dpc = "qdiscAdd" /\ ~dLeak => qdisc = "none"
  /\ dpc = "done" /\ qdiscInstalled /\ ~dLeak => qdisc # "blocked"

\* The deferred calls run only after a failure.
DeferInv ==
  /\ dpc = "start" => ~nbdStarted
  /\ dpc \in {"nbdStart", "nbdAdd", "nbdStop"} \/ nbdStarted => ~SharedStorage
  /\ dpc \in {"nbdStop", "announce"} => ~qdiscInstalled
  /\ dpc = "announce" => ~nbdStarted
  /\ dpc \in {"deferNbd", "deferQdisc"} => dres = "err"

IInv == TypeOK /\ HandoverInv /\ ColdInv /\ TapInv /\ DeferInv

-----------------------------------------------------------------------------
(* What the steps of one side leave alone.                                 *)

\* A step of RunSource: only migrate and migrate-cancel reach the guest, and
\* the tunnel is worked on after a STOP event or a completed migration.
SourceEffects ==
  /\ UNCHANGED <<resumeEvt, qdisc, path>>
  /\ \/ Migrate
     \/ MigrateCancel
     \/ UNCHANGED <<ram, srcVM, dstVM, incoming, pkt>>
  /\ spc' \in BeforeMigrate => spc \in BeforeMigrate
  /\ stopEvt' = stopEvt \/ stopEvt # "none"
  /\ spc' \in TunnelPcs => spc \in TunnelPcs \/ stopEvt # "none" \/ ram = "completed"
  /\ tunnel' \in {tunnel, "absent"} \/ spc \in TunnelPcs

\* Every step of RunSource has these effects only.
LEMMA SourceFrame == ASSUME TypeOK, SourceNext PROVE SourceEffects
<1>. USE DEF SourceEffects, BeforeMigrate, TunnelPcs, TypeOK, PlatformTypeOK, SourceTypeOK,
       platformVars, storageVars, ramVars, dstVars, netVars
<1>1. CASE ResolveAndValidate
  BY <1>1 DEF ResolveAndValidate, Step, ReturnErr
<1>2. CASE ReplaySleep
  BY <1>2 DEF ReplaySleep, ReturnErr
<1>3. CASE Connect
  BY <1>3 DEF Connect, ReturnErr
<1>4. ASSUME NEW d \in Drives, DriveMirror(d) PROVE SourceEffects
  BY <1>4 DEF DriveMirror, DriveMirrorStarts, ReturnErr
<1>5. CASE WaitForStorageSync
  BY <1>5 DEF WaitForStorageSync, ReturnErr
<1>6. CASE Configure
  BY <1>6, Zenon DEF Configure, Step, ReturnErr
<1>7. CASE Migrate
  BY <1>7 DEF Migrate, MigrateStarts, ReturnErr
<1>8. CASE WaitForStop
  BY <1>8 DEF WaitForStop, ReturnErr
<1>9. CASE QueryMigrate
  BY <1>9 DEF QueryMigrate, BufferEvents, ReturnErr
<1>10. CASE TunnelAdd
  BY <1>10 DEF TunnelAdd, TunnelCmd, ReturnErr
<1>11. CASE TunnelUp
  BY <1>11 DEF TunnelUp, TunnelCmd, ReturnErr
<1>12. CASE TunnelRoute
  BY <1>12 DEF TunnelRoute, TunnelCmd, ReturnErr
<1>13. CASE RollbackTunnel
  BY <1>13 DEF RollbackTunnel, DeleteTunnel, ReturnErr
<1>14. CASE WaitForMigrationComplete
  BY <1>14 DEF WaitForMigrationComplete, BufferEvents
<1>15. CASE CaptureMetrics
  BY <1>15, Zenon DEF CaptureMetrics, BufferEvents, AfterMigration, TunnelTail
<1>16. CASE MigrateCancel
  BY <1>16 DEF MigrateCancel, AfterMigration, TunnelTail
<1>17. CASE CancelJobs
  BY <1>17 DEF CancelJobs, BlockJobCancel, TunnelTail
<1>18. CASE DeferredCancel
  BY <1>18 DEF DeferredCancel, BlockJobCancel
<1>19. CASE CniDelay
  BY <1>19 DEF CniDelay
<1>20. CASE TeardownTunnel
  BY <1>20 DEF TeardownTunnel, DeleteTunnel
<1>21. CASE CtxDeadline
  BY <1>21 DEF CtxDeadline, CtxEnds
<1>22. CASE CtxCancel
  BY <1>22, SMTT(30) DEF CtxCancel, CtxEnds
<1>. QED
  BY SourceNext, <1>1, <1>2, <1>3, <1>4, <1>5, <1>6, <1>7, <1>8, <1>9, <1>10, <1>11, <1>12, <1>13, <1>14, <1>15, <1>16, <1>17, <1>18, <1>19, <1>20, <1>21, <1>22, Zenon DEF SourceNext, SourceStep

-----------------------------------------------------------------------------
(* The invariant is kept, part by part.                                    *)

\* Every step keeps HandoverInv.
LEMMA HandoverStep == ASSUME IInv, Next PROVE HandoverInv'
<1>. USE DEF IInv, HandoverInv, BeforeMigrate, platformVars, storageVars, ramVars, dstVars, netVars
<1>1. CASE Migrate /\ UNCHANGED destVars
  BY <1>1, Zenon DEF Migrate, MigrateStarts, ReturnErr, destVars
<1>2. CASE MigrateCancel /\ UNCHANGED destVars
  BY <1>2 DEF MigrateCancel, HandoverAborted, SrcTapBecomes, AfterMigration, TunnelTail, destVars
<1>3. CASE SourceNext /\ ~Migrate /\ ~MigrateCancel /\ UNCHANGED destVars
  BY <1>3, SourceFrame DEF SourceEffects, destVars
<1>4. CASE DstResolve /\ UNCHANGED srcVars
  BY <1>4 DEF DstResolve, DstGoes, DstReturnErr, AfterReturn, srcVars
<1>5. CASE ClearQdisc /\ UNCHANGED srcVars
  BY <1>5 DEF ClearQdisc, QdiscDeleted, DstGoes, srcVars
<1>6. CASE AddQdisc /\ UNCHANGED srcVars
  BY <1>6, Zenon DEF AddQdisc, DstGoes, DstReturnErr, AfterReturn, srcVars
<1>7. CASE ReleaseQdisc /\ UNCHANGED srcVars
  BY <1>7 DEF ReleaseQdisc, DstGoes, QdiscReleased, srcVars
<1>8. CASE RollbackQdisc /\ UNCHANGED srcVars
  BY <1>8 DEF RollbackQdisc, DstReturnErr, AfterReturn, QdiscDeleted, srcVars
<1>9. CASE DstConnect /\ UNCHANGED srcVars
  BY <1>9 DEF DstConnect, DstGoes, DstReturnErr, AfterReturn, srcVars
<1>10. CASE MigrateIncoming /\ UNCHANGED srcVars
  BY <1>10 DEF MigrateIncoming, DstGoes, DstReturnErr, AfterReturn, srcVars
<1>11. CASE NbdServerStart /\ UNCHANGED srcVars
  BY <1>11 DEF NbdServerStart, DstGoes, DstReturnErr, AfterReturn, srcVars
<1>12. ASSUME NEW d \in Drives, NbdServerAdd(d), UNCHANGED srcVars PROVE HandoverInv'
  BY <1>12 DEF NbdServerAdd, DstGoes, DstReturnErr, AfterReturn, srcVars
<1>13. CASE Plug /\ UNCHANGED srcVars
  BY <1>13 DEF Plug, DstGoes, DstReturnErr, AfterReturn, srcVars
<1>14. CASE WaitForResume /\ UNCHANGED srcVars
  BY <1>14 DEF WaitForResume, DstGoes, DstReturnErr, AfterReturn, srcVars
<1>15. CASE Unplug /\ UNCHANGED srcVars
  BY <1>15 DEF Unplug, DstGoes, DstReturnErr, AfterReturn, QdiscReleased, srcVars
<1>16. CASE NbdServerStop /\ UNCHANGED srcVars
  BY <1>16 DEF NbdServerStop, StopNbd, DstGoes, srcVars
<1>17. CASE AnnounceSelf /\ UNCHANGED srcVars
  BY <1>17 DEF AnnounceSelf, DstReturnErr, AfterReturn, srcVars
<1>18. CASE DeferredNbdStop /\ UNCHANGED srcVars
  BY <1>18 DEF DeferredNbdStop, StopNbd, DstGoes, AfterReturn, srcVars
<1>19. CASE DeferredQdiscDel /\ UNCHANGED srcVars
  BY <1>19 DEF DeferredQdiscDel, DstGoes, QdiscDeleted, srcVars
<1>20. CASE DstCancel /\ UNCHANGED srcVars
  BY <1>20 DEF DstCancel, srcVars
<1>21. ASSUME NEW d \in Drives, MirrorReady(d), UNCHANGED <<srcVars, destVars>> PROVE HandoverInv'
  BY <1>21 DEF MirrorReady, srcVars, destVars
<1>22. ASSUME NEW d \in Drives, MirrorFails(d), UNCHANGED <<srcVars, destVars>> PROVE HandoverInv'
  BY <1>22 DEF MirrorFails, srcVars, destVars
<1>23. CASE RamPause /\ UNCHANGED <<srcVars, destVars>>
  BY <1>23 DEF RamPause, srcVars, destVars
<1>24. CASE RamComplete /\ UNCHANGED <<srcVars, destVars>>
  BY <1>24, Zenon DEF RamComplete, SrcTapBecomes, srcVars, destVars
<1>25. CASE DstResume /\ UNCHANGED <<srcVars, destVars>>
  BY <1>25, Zenon DEF DstResume, srcVars, destVars
<1>26. CASE RamFail /\ UNCHANGED <<srcVars, destVars>>
  BY <1>26, Zenon DEF RamFail, HandoverAborted, SrcTapBecomes, srcVars, destVars
<1>27. CASE SrcExit /\ UNCHANGED <<srcVars, destVars>>
  BY <1>27, Zenon DEF SrcExit, SrcTapBecomes, srcVars, destVars
<1>28. ASSUME NEW p \in Packets, Send(p), UNCHANGED <<srcVars, destVars>> PROVE HandoverInv'
  BY <1>28 DEF Send, AtSource, AtDestTap, srcVars, destVars
<1>29. CASE Converge /\ UNCHANGED <<srcVars, destVars>>
  BY <1>29, SMTT(30) DEF Converge, srcVars, destVars
<1>. QED
  BY Next, <1>1, <1>2, <1>3, <1>4, <1>5, <1>6, <1>7, <1>8, <1>9, <1>10, <1>11, <1>12, <1>13, <1>14, <1>15, <1>16, <1>17, <1>18, <1>19, <1>20, <1>21, <1>22, <1>23, <1>24, <1>25, <1>26, <1>27, <1>28, <1>29, Zenon
  DEF Next, DestinationNext, DestinationStep, PlatformNext

\* Every step keeps ColdInv.
LEMMA ColdStep == ASSUME IInv, Next PROVE ColdInv'
<1>. USE DEF IInv, ColdInv, BeforeIncoming, Cold, TunnelPcs, platformVars, storageVars, ramVars, dstVars, netVars
<1>1. CASE Migrate /\ UNCHANGED destVars
  BY <1>1, Zenon DEF Migrate, MigrateStarts, ReturnErr, destVars
<1>2. CASE MigrateCancel /\ UNCHANGED destVars
  BY <1>2 DEF MigrateCancel, HandoverAborted, SrcTapBecomes, AfterMigration, TunnelTail, destVars
<1>3. CASE SourceNext /\ ~Migrate /\ ~MigrateCancel /\ UNCHANGED destVars
  BY <1>3, SourceFrame DEF SourceEffects, destVars
<1>4. CASE DstResolve /\ UNCHANGED srcVars
  BY <1>4, Zenon DEF DstResolve, DstGoes, DstReturnErr, AfterReturn, srcVars
<1>5. CASE ClearQdisc /\ UNCHANGED srcVars
  BY <1>5, Zenon DEF ClearQdisc, QdiscDeleted, DstGoes, srcVars
<1>6. CASE AddQdisc /\ UNCHANGED srcVars
  BY <1>6, Zenon DEF AddQdisc, DstGoes, DstReturnErr, AfterReturn, srcVars
<1>7. CASE ReleaseQdisc /\ UNCHANGED srcVars
  BY <1>7, Zenon DEF ReleaseQdisc, DstGoes, QdiscReleased, srcVars
<1>8. CASE RollbackQdisc /\ UNCHANGED srcVars
  BY <1>8, Zenon DEF RollbackQdisc, DstReturnErr, AfterReturn, QdiscDeleted, srcVars
<1>9. CASE DstConnect /\ UNCHANGED srcVars
  BY <1>9, Zenon DEF DstConnect, DstGoes, DstReturnErr, AfterReturn, srcVars
<1>10. CASE MigrateIncoming /\ UNCHANGED srcVars
  BY <1>10, Zenon DEF MigrateIncoming, DstGoes, DstReturnErr, AfterReturn, srcVars
<1>11. CASE NbdServerStart /\ UNCHANGED srcVars
  BY <1>11, Zenon DEF NbdServerStart, DstGoes, DstReturnErr, AfterReturn, srcVars
<1>12. ASSUME NEW d \in Drives, NbdServerAdd(d), UNCHANGED srcVars PROVE ColdInv'
  BY <1>12, Zenon DEF NbdServerAdd, DstGoes, DstReturnErr, AfterReturn, srcVars
<1>13. CASE Plug /\ UNCHANGED srcVars
  BY <1>13, Zenon DEF Plug, DstGoes, DstReturnErr, AfterReturn, srcVars
<1>14. CASE WaitForResume /\ UNCHANGED srcVars
  BY <1>14, Zenon DEF WaitForResume, DstGoes, DstReturnErr, AfterReturn, srcVars
<1>15. CASE Unplug /\ UNCHANGED srcVars
  BY <1>15, Zenon DEF Unplug, DstGoes, DstReturnErr, AfterReturn, QdiscReleased, srcVars
<1>16. CASE NbdServerStop /\ UNCHANGED srcVars
  BY <1>16, Zenon DEF NbdServerStop, StopNbd, DstGoes, srcVars
<1>17. CASE AnnounceSelf /\ UNCHANGED srcVars
  BY <1>17, Zenon DEF AnnounceSelf, DstReturnErr, AfterReturn, srcVars
<1>18. CASE DeferredNbdStop /\ UNCHANGED srcVars
  BY <1>18 DEF DeferredNbdStop, StopNbd, DstGoes, AfterReturn, srcVars
<1>19. CASE DeferredQdiscDel /\ UNCHANGED srcVars
  BY <1>19, Zenon DEF DeferredQdiscDel, DstGoes, QdiscDeleted, srcVars
<1>20. CASE DstCancel /\ UNCHANGED srcVars
  BY <1>20, Zenon DEF DstCancel, srcVars
<1>21. ASSUME NEW d \in Drives, MirrorReady(d), UNCHANGED <<srcVars, destVars>> PROVE ColdInv'
  BY <1>21, Zenon DEF MirrorReady, srcVars, destVars
<1>22. ASSUME NEW d \in Drives, MirrorFails(d), UNCHANGED <<srcVars, destVars>> PROVE ColdInv'
  BY <1>22 DEF MirrorFails, srcVars, destVars
<1>23. CASE RamPause /\ UNCHANGED <<srcVars, destVars>>
  BY <1>23, Zenon DEF RamPause, srcVars, destVars
<1>24. CASE RamComplete /\ UNCHANGED <<srcVars, destVars>>
  BY <1>24 DEF RamComplete, SrcTapBecomes, srcVars, destVars
<1>25. CASE DstResume /\ UNCHANGED <<srcVars, destVars>>
  BY <1>25 DEF DstResume, srcVars, destVars
<1>26. CASE RamFail /\ UNCHANGED <<srcVars, destVars>>
  BY <1>26 DEF RamFail, HandoverAborted, SrcTapBecomes, srcVars, destVars
<1>27. CASE SrcExit /\ UNCHANGED <<srcVars, destVars>>
  BY <1>27, Zenon DEF SrcExit, SrcTapBecomes, srcVars, destVars
<1>28. ASSUME NEW p \in Packets, Send(p), UNCHANGED <<srcVars, destVars>> PROVE ColdInv'
  BY <1>28 DEF Send, AtSource, AtDestTap, srcVars, destVars
<1>29. CASE Converge /\ UNCHANGED <<srcVars, destVars>>
  BY <1>29, SMTT(30) DEF Converge, srcVars, destVars
<1>. QED
  BY Next, <1>1, <1>2, <1>3, <1>4, <1>5, <1>6, <1>7, <1>8, <1>9, <1>10, <1>11, <1>12, <1>13, <1>14, <1>15, <1>16, <1>17, <1>18, <1>19, <1>20, <1>21, <1>22, <1>23, <1>24, <1>25, <1>26, <1>27, <1>28, <1>29, ZenonT(40)
  DEF Next, DestinationNext, DestinationStep, PlatformNext

\* Every step keeps TapInv.
LEMMA TapStep == ASSUME IInv, Next PROVE TapInv'
<1>. USE DEF IInv, TapInv, ColdInv, DeferInv, BeforeIncoming, Cold, platformVars, storageVars, ramVars, dstVars, netVars
<1>1. CASE Migrate /\ UNCHANGED destVars
  BY <1>1, Zenon DEF Migrate, MigrateStarts, ReturnErr, destVars
<1>2. CASE MigrateCancel /\ UNCHANGED destVars
  BY <1>2 DEF MigrateCancel, HandoverAborted, SrcTapBecomes, AfterMigration, TunnelTail, destVars
<1>3. CASE SourceNext /\ ~Migrate /\ ~MigrateCancel /\ UNCHANGED destVars
  BY <1>3, SourceFrame DEF SourceEffects, destVars
<1>4. CASE DstResolve /\ UNCHANGED srcVars
  BY <1>4 DEF DstResolve, DstGoes, DstReturnErr, AfterReturn, srcVars
<1>5. CASE ClearQdisc /\ UNCHANGED srcVars
  BY <1>5, Zenon DEF ClearQdisc, QdiscDeleted, DstGoes, srcVars
<1>6. CASE AddQdisc /\ UNCHANGED srcVars
  BY <1>6, Zenon DEF AddQdisc, DstGoes, DstReturnErr, AfterReturn, srcVars
<1>7. CASE ReleaseQdisc /\ UNCHANGED srcVars
  BY <1>7, Zenon DEF ReleaseQdisc, DstGoes, QdiscReleased, srcVars
<1>8. CASE RollbackQdisc /\ UNCHANGED srcVars
  BY <1>8, Zenon DEF RollbackQdisc, DstReturnErr, AfterReturn, QdiscDeleted, srcVars
<1>9. CASE DstConnect /\ UNCHANGED srcVars
  BY <1>9, Zenon DEF DstConnect, DstGoes, DstReturnErr, AfterReturn, srcVars
<1>10. CASE MigrateIncoming /\ UNCHANGED srcVars
  BY <1>10, Zenon DEF MigrateIncoming, DstGoes, DstReturnErr, AfterReturn, srcVars
<1>11. CASE NbdServerStart /\ UNCHANGED srcVars
  BY <1>11, Zenon DEF NbdServerStart, DstGoes, DstReturnErr, AfterReturn, srcVars
<1>12. ASSUME NEW d \in Drives, NbdServerAdd(d), UNCHANGED srcVars PROVE TapInv'
  BY <1>12, Zenon DEF NbdServerAdd, DstGoes, DstReturnErr, AfterReturn, srcVars
<1>13. CASE Plug /\ UNCHANGED srcVars
  BY <1>13, Zenon DEF Plug, DstGoes, DstReturnErr, AfterReturn, srcVars
<1>14. CASE WaitForResume /\ UNCHANGED srcVars
  BY <1>14, Zenon DEF WaitForResume, DstGoes, DstReturnErr, AfterReturn, srcVars
<1>15. CASE Unplug /\ UNCHANGED srcVars
  BY <1>15 DEF Unplug, DstGoes, DstReturnErr, AfterReturn, QdiscReleased, srcVars
<1>16. CASE NbdServerStop /\ UNCHANGED srcVars
  BY <1>16, Zenon DEF NbdServerStop, StopNbd, DstGoes, srcVars
<1>17. CASE AnnounceSelf /\ UNCHANGED srcVars
  BY <1>17 DEF AnnounceSelf, DstReturnErr, AfterReturn, srcVars
<1>18. CASE DeferredNbdStop /\ UNCHANGED srcVars
  BY <1>18, Zenon DEF DeferredNbdStop, StopNbd, DstGoes, AfterReturn, srcVars
<1>19. CASE DeferredQdiscDel /\ UNCHANGED srcVars
  BY <1>19, Zenon DEF DeferredQdiscDel, DstGoes, QdiscDeleted, srcVars
<1>20. CASE DstCancel /\ UNCHANGED srcVars
  BY <1>20, Zenon DEF DstCancel, srcVars
<1>21. ASSUME NEW d \in Drives, MirrorReady(d), UNCHANGED <<srcVars, destVars>> PROVE TapInv'
  BY <1>21, Zenon DEF MirrorReady, srcVars, destVars
<1>22. ASSUME NEW d \in Drives, MirrorFails(d), UNCHANGED <<srcVars, destVars>> PROVE TapInv'
  BY <1>22, Zenon DEF MirrorFails, srcVars, destVars
<1>23. CASE RamPause /\ UNCHANGED <<srcVars, destVars>>
  BY <1>23, Zenon DEF RamPause, srcVars, destVars
<1>24. CASE RamComplete /\ UNCHANGED <<srcVars, destVars>>
  BY <1>24, Zenon DEF RamComplete, SrcTapBecomes, srcVars, destVars
<1>25. CASE DstResume /\ UNCHANGED <<srcVars, destVars>>
  BY <1>25, Zenon DEF DstResume, srcVars, destVars
<1>26. CASE RamFail /\ UNCHANGED <<srcVars, destVars>>
  BY <1>26, Zenon DEF RamFail, HandoverAborted, SrcTapBecomes, srcVars, destVars
<1>27. CASE SrcExit /\ UNCHANGED <<srcVars, destVars>>
  BY <1>27, Zenon DEF SrcExit, SrcTapBecomes, srcVars, destVars
<1>28. ASSUME NEW p \in Packets, Send(p), UNCHANGED <<srcVars, destVars>> PROVE TapInv'
  BY <1>28, Zenon DEF Send, AtSource, AtDestTap, srcVars, destVars
<1>29. CASE Converge /\ UNCHANGED <<srcVars, destVars>>
  BY <1>29, SMTT(30) DEF Converge, srcVars, destVars
<1>. QED
  BY Next, <1>1, <1>2, <1>3, <1>4, <1>5, <1>6, <1>7, <1>8, <1>9, <1>10, <1>11, <1>12, <1>13, <1>14, <1>15, <1>16, <1>17, <1>18, <1>19, <1>20, <1>21, <1>22, <1>23, <1>24, <1>25, <1>26, <1>27, <1>28, <1>29, ZenonT(40)
  DEF Next, DestinationNext, DestinationStep, PlatformNext

\* Every step keeps DeferInv.
LEMMA DeferStep == ASSUME IInv, Next PROVE DeferInv'
<1>. USE DEF IInv, DeferInv, HandoverInv, platformVars, storageVars, ramVars, dstVars, netVars
<1>1. CASE SourceNext /\ UNCHANGED destVars
  BY <1>1, SourceFrame, Zenon DEF SourceEffects, destVars
<1>2. CASE DstResolve /\ UNCHANGED srcVars
  BY <1>2, Zenon DEF DstResolve, DstGoes, DstReturnErr, AfterReturn, srcVars
<1>3. CASE ClearQdisc /\ UNCHANGED srcVars
  BY <1>3, Zenon DEF ClearQdisc, QdiscDeleted, DstGoes, srcVars
<1>4. CASE AddQdisc /\ UNCHANGED srcVars
  BY <1>4, Zenon DEF AddQdisc, DstGoes, DstReturnErr, AfterReturn, srcVars
<1>5. CASE ReleaseQdisc /\ UNCHANGED srcVars
  BY <1>5, Zenon DEF ReleaseQdisc, DstGoes, QdiscReleased, srcVars
<1>6. CASE RollbackQdisc /\ UNCHANGED srcVars
  BY <1>6, Zenon DEF RollbackQdisc, DstReturnErr, AfterReturn, QdiscDeleted, srcVars
<1>7. CASE DstConnect /\ UNCHANGED srcVars
  BY <1>7, Zenon DEF DstConnect, DstGoes, DstReturnErr, AfterReturn, srcVars
<1>8. CASE MigrateIncoming /\ UNCHANGED srcVars
  BY <1>8, Zenon DEF MigrateIncoming, DstGoes, DstReturnErr, AfterReturn, srcVars
<1>9. CASE NbdServerStart /\ UNCHANGED srcVars
  BY <1>9, Zenon DEF NbdServerStart, DstGoes, DstReturnErr, AfterReturn, srcVars
<1>10. ASSUME NEW d \in Drives, NbdServerAdd(d), UNCHANGED srcVars PROVE DeferInv'
  BY <1>10, Zenon DEF NbdServerAdd, DstGoes, DstReturnErr, AfterReturn, srcVars
<1>11. CASE Plug /\ UNCHANGED srcVars
  BY <1>11, Zenon DEF Plug, DstGoes, DstReturnErr, AfterReturn, srcVars
<1>12. CASE WaitForResume /\ UNCHANGED srcVars
  BY <1>12, Zenon DEF WaitForResume, DstGoes, DstReturnErr, AfterReturn, srcVars
<1>13. CASE Unplug /\ UNCHANGED srcVars
  BY <1>13 DEF Unplug, DstGoes, DstReturnErr, AfterReturn, QdiscReleased, srcVars
<1>14. CASE NbdServerStop /\ UNCHANGED srcVars
  BY <1>14, Zenon DEF NbdServerStop, StopNbd, DstGoes, srcVars
<1>15. CASE AnnounceSelf /\ UNCHANGED srcVars
  BY <1>15, Zenon DEF AnnounceSelf, DstReturnErr, AfterReturn, srcVars
<1>16. CASE DeferredNbdStop /\ UNCHANGED srcVars
  BY <1>16, Zenon DEF DeferredNbdStop, StopNbd, DstGoes, AfterReturn, srcVars
<1>17. CASE DeferredQdiscDel /\ UNCHANGED srcVars
  BY <1>17, Zenon DEF DeferredQdiscDel, DstGoes, QdiscDeleted, srcVars
<1>18. CASE DstCancel /\ UNCHANGED srcVars
  BY <1>18, Zenon DEF DstCancel, srcVars
<1>19. ASSUME NEW d \in Drives, MirrorReady(d), UNCHANGED <<srcVars, destVars>> PROVE DeferInv'
  BY <1>19, Zenon DEF MirrorReady, srcVars, destVars
<1>20. ASSUME NEW d \in Drives, MirrorFails(d), UNCHANGED <<srcVars, destVars>> PROVE DeferInv'
  BY <1>20, Zenon DEF MirrorFails, srcVars, destVars
<1>21. CASE RamPause /\ UNCHANGED <<srcVars, destVars>>
  BY <1>21, Zenon DEF RamPause, srcVars, destVars
<1>22. CASE RamComplete /\ UNCHANGED <<srcVars, destVars>>
  BY <1>22, Zenon DEF RamComplete, SrcTapBecomes, srcVars, destVars
<1>23. CASE DstResume /\ UNCHANGED <<srcVars, destVars>>
  BY <1>23, Zenon DEF DstResume, srcVars, destVars
<1>24. CASE RamFail /\ UNCHANGED <<srcVars, destVars>>
  BY <1>24, Zenon DEF RamFail, HandoverAborted, SrcTapBecomes, srcVars, destVars
<1>25. CASE SrcExit /\ UNCHANGED <<srcVars, destVars>>
  BY <1>25, Zenon DEF SrcExit, SrcTapBecomes, srcVars, destVars
<1>26. ASSUME NEW p \in Packets, Send(p), UNCHANGED <<srcVars, destVars>> PROVE DeferInv'
  BY <1>26, Zenon DEF Send, AtSource, AtDestTap, srcVars, destVars
<1>27. CASE Converge /\ UNCHANGED <<srcVars, destVars>>
  BY <1>27 DEF Converge, srcVars, destVars
<1>. QED
  BY Next, <1>1, <1>2, <1>3, <1>4, <1>5, <1>6, <1>7, <1>8, <1>9, <1>10, <1>11, <1>12, <1>13, <1>14, <1>15, <1>16, <1>17, <1>18, <1>19, <1>20, <1>21, <1>22, <1>23, <1>24, <1>25, <1>26, <1>27, Zenon
  DEF Next, DestinationNext, DestinationStep, PlatformNext

-----------------------------------------------------------------------------
(* The theorems.                                                           *)

\* The inductive invariant holds in every reachable state.
LEMMA Inductive == Spec => []IInv
<1>1. Init => HandoverInv /\ ColdInv /\ TapInv /\ DeferInv
  BY DEF Init, PlatformInit, SourceInit, DestinationInit, HandoverInv, ColdInv,
         TapInv, DeferInv, Cold, BeforeIncoming, TunnelPcs
<1>2. IInv /\ TypeOK' /\ [Next]_vars => IInv'
  <2>. SUFFICES ASSUME IInv, TypeOK', [Next]_vars PROVE IInv'
    OBVIOUS
  <2>1. CASE Next
    BY <2>1, HandoverStep, ColdStep, TapStep, DeferStep, Zenon DEF IInv
  <2>2. CASE UNCHANGED vars
    BY <2>2 DEF vars, platformVars, storageVars, ramVars, dstVars, netVars, srcVars,
       destVars, IInv, HandoverInv, ColdInv, TapInv, DeferInv, Cold, BeforeIncoming
  <2>. QED BY <2>1, <2>2
<1>. QED BY <1>1, <1>2, Typing, PTL DEF Spec, IInv

\* RunDestination reports success only for a guest that runs on its node and
\* has stopped on the other: its verdict, on which the orchestrator relies.
THEOREM VerdictIsRight == Spec => []DestinationVerdict
<1>1. IInv => DestinationVerdict
  BY DEF IInv, HandoverInv, DestinationVerdict
<1>. QED BY <1>1, Inductive, PTL

\* RunDestination does not leave the tap of the running guest plugged, on any
\* of its paths, unless one of its own cleanup commands failed.
THEOREM TapIsReleased == Spec => []TapNotLeftPlugged
<1>1. IInv => TapNotLeftPlugged
  BY DEF IInv, HandoverInv, TapInv, TapNotLeftPlugged, Cold
<1>. QED BY <1>1, Inductive, PTL

\* A packet held by the plug is delivered to the running guest: no step of
\* either binary or of QEMU drops it before RunDestination fails.
THEOREM HeldPacketsArrive == Spec => PlugDelivers
<1>. DEFINE Held == \A p \in Packets : pkt[p] = "queued" /\ dres # "err" =>
                      pkt'[p] \in {"queued", "delivered"}
<1>1. IInv /\ [Next]_vars => Held
  <2>. SUFFICES ASSUME IInv, [Next]_vars,
                       NEW p \in Packets, pkt[p] = "queued", dres # "err"
                PROVE  pkt'[p] \in {"queued", "delivered"}
    BY SMTT(30)
  <2>. USE DEF IInv, TypeOK, PlatformTypeOK, ColdInv, BeforeIncoming, HandoverInv,
               DeferInv, platformVars, netVars
  <2>1. CASE SourceNext
    BY <2>1, SourceFrame, ZenonT(40)
    DEF SourceEffects, Migrate, MigrateCancel, HandoverAborted, SrcTapBecomes
  <2>2. CASE DestinationNext
    BY <2>2, ZenonT(40)
    DEF DestinationNext, DestinationStep, DstResolve, ClearQdisc, AddQdisc,
        ReleaseQdisc, RollbackQdisc, DstConnect, MigrateIncoming, NbdServerStart,
        NbdServerAdd, Plug, WaitForResume, Unplug, NbdServerStop, AnnounceSelf,
        DeferredNbdStop, StopNbd, DeferredQdiscDel, DstCancel, QdiscDeleted, QdiscReleased
  <2>3. CASE PlatformNext
    BY <2>3, ZenonT(40)
    DEF PlatformNext, MirrorReady, MirrorFails, RamPause, RamComplete, DstResume,
        RamFail, HandoverAborted, SrcExit, Send, Converge, SrcTapBecomes
  <2>4. CASE UNCHANGED vars
    BY <2>4, Zenon DEF vars
  <2>. QED BY <2>1, <2>2, <2>3, <2>4 DEF Next
<1>. QED BY <1>1, Inductive, PTL DEF Spec, PlugDelivers, Held

-----------------------------------------------------------------------------
(* LiveMigration implements Handover.                                      *)

\* Beyond IInv, the refinement needs that RAM moves only while the source
\* QEMU lives, and that RunDestination decides on its result once.
RefInv ==
  /\ ram = "active" => srcVM # "gone"
  /\ dpc \notin {"deferNbd", "deferQdisc", "done"} => dres = "none"

-----------------------------------------------------------------------------
(* What a step does to the guest and to the verdict.                       *)

\* A step of RunDestination does not touch the guest, and it returns once.
LEMMA DestinationStepEffects ==
  ASSUME IInv, RefInv, DestinationNext
  PROVE  /\ UNCHANGED <<ram, srcVM, dstVM>>
         /\ RefInv'
         /\ \/ dres' = dres
            \/ dres = "none" /\ dres' = "err"
            \/ dres = "none" /\ dres' = "nil" /\ dstVM = "running"
<1>. USE DEF RefInv, platformVars, storageVars, ramVars, dstVars, DstGoes, DstReturnErr, AfterReturn
<1>1. CASE DstResolve \/ ClearQdisc \/ AddQdisc \/ ReleaseQdisc \/ RollbackQdisc
  BY <1>1, Zenon DEF DstResolve, ClearQdisc, AddQdisc, ReleaseQdisc, RollbackQdisc
<1>2. CASE DstConnect \/ MigrateIncoming \/ NbdServerStart \/ \E d \in Drives : NbdServerAdd(d)
  BY <1>2, Zenon DEF DstConnect, MigrateIncoming, NbdServerStart, NbdServerAdd
<1>3. CASE Plug \/ WaitForResume \/ Unplug
  BY <1>3, SMTT(30) DEF Plug, WaitForResume, Unplug
<1>4. CASE NbdServerStop \/ DeferredNbdStop \/ DeferredQdiscDel \/ DstCancel
  BY <1>4, ZenonT(40) DEF NbdServerStop, DeferredNbdStop, StopNbd, DeferredQdiscDel, DstCancel
<1>5. CASE AnnounceSelf
  BY <1>5, Zenon DEF AnnounceSelf, IInv, HandoverInv
<1>. QED BY DestinationNext, <1>1, <1>2, <1>3, <1>4, <1>5, Zenon DEF DestinationNext, DestinationStep

\* The guest leaves its place only as Handover allows.
Moves ==
  \/ UNCHANGED GuestPlace
  \/ GuestPlace = "source" /\ GuestPlace' \in {"paused", "lost"}
  \/ GuestPlace = "paused" /\ GuestPlace' \in {"source", "destination", "lost"}

\* Cutting off an active migration gives the guest back to the source.
LEMMA AbortMoves ==
  ASSUME IInv, RefInv, NEW s \in {"failed", "cancelled"}, ram = "active", HandoverAborted(s)
  PROVE  Moves /\ ram' # "active"
BY DEF IInv, RefInv, HandoverInv, TypeOK, PlatformTypeOK, HandoverAborted, Moves, GuestPlace

\* A step of RunSource or of QEMU moves the guest as Handover allows.
LEMMA GuestMoves ==
  ASSUME IInv, RefInv, SourceNext \/ PlatformNext, UNCHANGED destVars
  PROVE  Moves /\ RefInv'
<1>. USE DEF Moves, GuestPlace, RefInv, IInv, HandoverInv, TypeOK, PlatformTypeOK,
       storageVars, ramVars, dstVars, netVars, destVars
<1>1. CASE Migrate
  BY <1>1, SMTT(30) DEF Migrate, MigrateStarts, Answers, ReturnErr
<1>2. CASE MigrateCancel
  <2>1. CASE UNCHANGED <<ram, srcVM, dstVM>>
    BY <2>1, Zenon
  <2>2. CASE ram = "active" /\ HandoverAborted("cancelled")
    BY <2>2, AbortMoves, Zenon
  <2>. QED BY <1>2, <2>1, <2>2, Zenon DEF MigrateCancel
<1>3. CASE SourceNext /\ ~Migrate /\ ~MigrateCancel
  BY <1>3, SourceFrame, Zenon DEF SourceEffects
<1>4. CASE \E d \in Drives : MirrorReady(d) \/ MirrorFails(d)
  BY <1>4, Zenon DEF MirrorReady, MirrorFails
<1>5. CASE RamPause
  BY <1>5, Zenon DEF RamPause
<1>6. CASE RamComplete
  BY <1>6, Zenon DEF RamComplete
<1>7. CASE DstResume
  BY <1>7, SMTT(30) DEF DstResume
<1>8. CASE RamFail
  BY <1>8, AbortMoves, ZenonT(40) DEF RamFail
<1>9. CASE SrcExit
  BY <1>9, Zenon DEF SrcExit
<1>10. CASE Converge \/ \E p \in Packets : Send(p)
  BY <1>10 DEF Converge, Send
<1>. QED BY <1>1, <1>2, <1>3, <1>4, <1>5, <1>6, <1>7, <1>8, <1>9, <1>10, Zenon DEF PlatformNext

-----------------------------------------------------------------------------
(* The refinement.                                                         *)

\* The two facts RefInv adds hold in every reachable state.
LEMMA RefInductive == Spec => []RefInv
<1>1. Init => RefInv
  BY DEF Init, PlatformInit, DestinationInit, RefInv
<1>2. IInv /\ RefInv /\ [Next]_vars => RefInv'
  <2>. SUFFICES ASSUME IInv, RefInv, [Next]_vars PROVE RefInv'
    OBVIOUS
  <2>1. CASE Next
    BY <2>1, GuestMoves, DestinationStepEffects, Zenon DEF Next
  <2>2. CASE UNCHANGED vars
    BY <2>2 DEF vars, platformVars, ramVars, destVars, RefInv
  <2>. QED BY <2>1, <2>2
<1>. QED BY <1>1, <1>2, Inductive, PTL DEF Spec

\* Every migration is a handover: the steps of RunSource, RunDestination and
\* QEMU map to steps of Handover or change nothing it can see.
THEOREM MigrationIsHandover == Spec => IsHandover
<1>1. Init => H!Init
  BY DEF Init, PlatformInit, DestinationInit, H!Init, GuestPlace
<1>2. IInv /\ RefInv /\ [Next]_vars => [H!Next]_(H!vars)
  <2>. SUFFICES ASSUME IInv, RefInv, [Next]_vars PROVE [H!Next]_(H!vars)
    OBVIOUS
  <2>. USE DEF H!vars, H!Next
  <2>1. CASE DestinationNext
    <3>1. UNCHANGED GuestPlace
      BY <2>1, DestinationStepEffects DEF GuestPlace
    <3>2. dstVM = "running" => GuestPlace = "destination"
      BY DEF GuestPlace, IInv, HandoverInv
    <3>. QED BY <2>1, <3>1, <3>2, DestinationStepEffects DEF H!Succeed, H!Fail
  <2>2. CASE (SourceNext \/ PlatformNext) /\ UNCHANGED destVars
    <3>1. UNCHANGED dres
      BY <2>2 DEF destVars
    <3>2. Moves
      BY <2>2, GuestMoves, Zenon
    <3>. QED BY <3>1, <3>2 DEF Moves, H!Pause, H!Return, H!Arrive, H!Lose
  <2>3. CASE UNCHANGED vars
    BY <2>3 DEF vars, platformVars, ramVars, dstVars, destVars, GuestPlace
  <2>. QED BY <2>1, <2>2, <2>3 DEF Next
<1>. QED BY <1>1, <1>2, Inductive, RefInductive, PTL DEF Spec, IsHandover, H!Spec
=============================================================================
