------------------------------- MODULE Source -------------------------------
(***************************************************************************)
(* RunSource (internal/migration/source.go): the source binary, one action *)
(* per QMP round trip or command, in the order the function makes them.    *)
(* spc names the call the function is about to make; "done" means that     *)
(* RunSource has returned sres.                                            *)
(*                                                                         *)
(* Every QMP Execute may fail, with or without effect on QEMU: a reply     *)
(* that is late or lost looks to the caller like a command that was not    *)
(* executed.                                                               *)
(***************************************************************************)
EXTENDS Platform

CONSTANTS
  TunnelNone,  \* cfg.TunnelMode = "none"
  ReplayMode   \* cfg.EmitCmdlineTo # "": sleep before the first connection

ASSUME SourceAssumption == TunnelNone \in BOOLEAN /\ ReplayMode \in BOOLEAN

VARIABLES
  spc,           \* the next call of RunSource
  ctx,           \* its context: live, past its deadline, or cancelled
  todo,          \* drives left of the loop RunSource is in
  mirrorJobIDs,  \* the jobs it believes it has started
  seen,          \* waitForStorageSync: jobs seen in some poll
  ready,         \* waitForStorageSync: jobs seen ready in some poll
  stalled,       \* waitForMigrationComplete: firstStallAt is set
  tunnelCreated, \* setupTunnel returned nil
  sres,          \* the error RunSource returns or is bound to return
  sLeak          \* a cleanup command of the source has failed

srcVars == <<spc, ctx, todo, mirrorJobIDs, seen, ready, stalled,
             tunnelCreated, sres, sLeak>>

SrcPcs == {"start", "sleep", "connect", "mirror", "sync", "configure",
           "migrate", "stop", "query", "tunnelAdd", "tunnelUp", "tunnelRoute",
           "tunnelRollback", "complete", "metrics", "migrateCancel",
           "cancelJobs", "cniDelay", "teardown", "deferred", "done"}

SourceTypeOK ==
  /\ spc \in SrcPcs
  /\ ctx \in {"live", "deadline", "cancelled"}
  /\ todo \subseteq Drives
  /\ mirrorJobIDs \subseteq Drives
  /\ seen \subseteq Drives
  /\ ready \subseteq Drives
  /\ stalled \in BOOLEAN
  /\ tunnelCreated \in BOOLEAN
  /\ sres \in {"none", "nil", "err"}
  /\ sLeak \in BOOLEAN

SourceInit ==
  /\ spc = "start"
  /\ ctx = "live"
  /\ todo = {}
  /\ mirrorJobIDs = {}
  /\ seen = {}
  /\ ready = {}
  /\ stalled = FALSE
  /\ tunnelCreated = FALSE
  /\ sres = "none"
  /\ sLeak = FALSE

\* The source QEMU answers a command sent under the main context.
Answers == srcVM # "gone" /\ ctx = "live"

\* Events that arrive while Execute waits for its reply are buffered.
BufferEvents ==
  stopEvt' = IF stopEvt = "socket" /\ srcVM # "gone" THEN "buffered" ELSE stopEvt

\* Mutant: the deferred block-job-cancel is armed after waitForStorageSync.
DeferArmedLate == spc \notin {"start", "sleep", "connect", "mirror", "sync"}

\* Before the mirror loop is over, no deferred block-job-cancel is armed.
DeferArmed == spc \notin {"start", "sleep", "connect", "mirror"}

\* return err: the deferred block-job-cancel runs for the jobs on record.
ReturnErr ==
  /\ sres' = "err"
  /\ IF DeferArmed /\ mirrorJobIDs # {}
     THEN spc' = "deferred" /\ todo' = mirrorJobIDs
     ELSE spc' = "done" /\ todo' = {}

\* A call that reaches no modelled state: it succeeds, or RunSource returns.
Step(from, to, ok) ==
  /\ spc = from
  /\ \/ ok /\ spc' = to /\ UNCHANGED <<todo, sres>>
     \/ ReturnErr
  /\ UNCHANGED <<platformVars, ctx, mirrorJobIDs, seen, ready, stalled,
                 tunnelCreated, sLeak>>

\* Pod lookup, sandbox resolution, cmdline capture, flag validation.  The tc
\* filter taken off the source pod's eth0 is no state of this model.
ResolveAndValidate ==
  Step("start", IF ReplayMode THEN "sleep" ELSE "connect", ctx = "live")

ReplaySleep ==
  /\ spc = "sleep"
  /\ \/ spc' = "connect" /\ UNCHANGED <<todo, sres>>
     \/ ctx # "live" /\ ReturnErr
  /\ UNCHANGED <<platformVars, ctx, mirrorJobIDs, seen, ready, stalled,
                 tunnelCreated, sLeak>>

\* qmp.NewClient; on success the mirror loop starts with every drive to do.
Connect ==
  /\ spc = "connect"
  /\ \/ /\ Answers
        /\ spc' = IF SharedStorage THEN "configure" ELSE "mirror"
        /\ todo' = Drives
        /\ UNCHANGED sres
     \/ ReturnErr
  /\ UNCHANGED <<platformVars, ctx, mirrorJobIDs, seen, ready, stalled,
                 tunnelCreated, sLeak>>

\* Mutant: the record holds the export URI instead of the job.
DriveMirrorRecordsTarget(d) ==
  /\ spc = "mirror" /\ d \in todo
  /\ Answers /\ d \in exports
  /\ DriveMirrorStarts(d)
  /\ mirrorJobIDs' = mirrorJobIDs \cup {<<"nbd", d>>}
  /\ todo' = todo \ {d}
  /\ spc' = IF todo' = {} THEN "sync" ELSE "mirror"
  /\ UNCHANGED <<current, faulted, ramVars, dstVars, netVars, ctx, seen, ready,
                 stalled, tunnelCreated, sLeak, sres>>

DriveMirror(d) ==
  /\ spc = "mirror" /\ d \in todo
  /\ \/ /\ Answers /\ d \in exports
        /\ DriveMirrorStarts(d)
        /\ mirrorJobIDs' = mirrorJobIDs \cup {d}
        /\ todo' = todo \ {d}
        /\ spc' = IF todo' = {} THEN "sync" ELSE "mirror"
        /\ UNCHANGED sres
     \/ /\ \/ UNCHANGED job
           \/ srcVM # "gone" /\ d \in exports /\ DriveMirrorStarts(d)
        /\ ReturnErr
        /\ UNCHANGED mirrorJobIDs
  /\ UNCHANGED <<current, faulted, ramVars, dstVars, netVars, ctx, seen, ready,
                 stalled, tunnelCreated, sLeak>>

\* One poll of waitForStorageSync.  A job once seen ready is not looked at
\* again; a job not seen yet may still appear until jobAppearTimeout.
JobBad(d) ==
  \/ job[d] = "absent" /\ d \in seen
  \/ job[d] = "concluded"

\* Mutant: one ready job is enough.
WaitForAnySync ==
  /\ spc = "sync"
  /\ \/ /\ Answers
        /\ \A d \in Drives : ~JobBad(d)
        /\ seen' = seen \cup {d \in Drives : job[d] # "absent"}
        /\ ready' = {d \in Drives : job[d] = "ready"}
        /\ spc' = IF ready' # {} THEN "configure" ELSE "sync"
        /\ UNCHANGED <<todo, sres>>
     \/ ReturnErr /\ UNCHANGED <<seen, ready>>
  /\ UNCHANGED <<platformVars, ctx, mirrorJobIDs, stalled, tunnelCreated, sLeak>>

WaitForStorageSync ==
  /\ spc = "sync"
  /\ LET left   == Drives \ ready
         listed == {d \in left : job[d] # "absent"}
         nowReady == {d \in left : job[d] = "ready"}
     IN \/ /\ Answers
           /\ \A d \in left : ~JobBad(d)
           /\ seen' = seen \cup listed
           /\ ready' = ready \cup nowReady
           /\ spc' = IF ready' = Drives THEN "configure" ELSE "sync"
           /\ UNCHANGED <<todo, sres>>
        \/ /\ ReturnErr
           /\ UNCHANGED <<seen, ready>>
  /\ UNCHANGED <<platformVars, ctx, mirrorJobIDs, stalled, tunnelCreated, sLeak>>

\* migrate-set-capabilities, the downtime limit, migrate-set-parameters.
Configure == Step("configure", "migrate", Answers)

Migrate ==
  /\ spc = "migrate"
  /\ \/ Answers /\ MigrateStarts /\ spc' = "stop" /\ UNCHANGED <<todo, sres>>
     \/ UNCHANGED ram /\ ReturnErr
     \/ srcVM # "gone" /\ MigrateStarts /\ ReturnErr
  /\ UNCHANGED <<storageVars, srcVM, stopEvt, dstVars, netVars, ctx,
                 mirrorJobIDs, seen, ready, stalled, tunnelCreated, sLeak>>
-----------------------------------------------------------------------------
(* The STOP loop.                                                          *)

\* WaitForEvent(STOP, 1s).  Under an expired context the socket is not read
\* any more, and context.DeadlineExceeded counts as a network timeout, so the
\* loop goes on to query-migrate; context.Canceled does not, and neither does
\* the end of the stream.
WaitForStop ==
  /\ spc = "stop"
  /\ \/ /\ stopEvt = "buffered" \/ (stopEvt = "socket" /\ ctx = "live")
        /\ stopEvt' = "none"
        /\ spc' = IF TunnelNone THEN "complete" ELSE "tunnelAdd"
        /\ UNCHANGED <<todo, sres>>
     \/ /\ stopEvt # "buffered"
        /\ (stopEvt = "none" /\ Answers) \/ ctx = "deadline"
        /\ spc' = "query"
        /\ UNCHANGED <<stopEvt, todo, sres>>
     \/ /\ stopEvt # "buffered"
        /\ ctx = "cancelled" \/ (stopEvt = "none" /\ srcVM = "gone" /\ ctx = "live")
        /\ ReturnErr
        /\ UNCHANGED stopEvt
  /\ UNCHANGED <<storageVars, ram, srcVM, dstVars, netVars, ctx, mirrorJobIDs,
                 seen, ready, stalled, tunnelCreated, sLeak>>

\* query-migrate between two waits; an error of the query is only counted.
QueryMigrate ==
  /\ spc = "query"
  /\ \/ /\ Answers /\ ram \in {"failed", "cancelled"}
        /\ BufferEvents
        /\ ReturnErr
     \/ /\ Answers /\ ram \notin {"failed", "cancelled"}
        /\ BufferEvents
        /\ spc' = IF ram # "completed" THEN "stop"
                  ELSE IF TunnelNone THEN "complete" ELSE "tunnelAdd"
        /\ UNCHANGED <<todo, sres>>
     \/ /\ spc' = "stop"
        /\ BufferEvents \/ UNCHANGED stopEvt
        /\ UNCHANGED <<todo, sres>>
  /\ UNCHANGED <<storageVars, ram, srcVM, dstVars, netVars, ctx, mirrorJobIDs,
                 seen, ready, stalled, tunnelCreated, sLeak>>

-----------------------------------------------------------------------------
(* setupTunnel: ip tunnel add, ip link set up, ip route replace; a failure  *)
(* of the second or the third deletes the interface again.  The name is     *)
(* random, so the ip link del that comes first finds no interface.          *)

\* A command that fails or that the end of the context kills may have taken
\* effect.
TunnelCmd(from, made, to, failTo) ==
  /\ spc = from
  /\ \/ /\ ctx = "live"
        /\ tunnel' = made
        /\ tunnelCreated' = (made = "routed")
        /\ spc' = to
        /\ UNCHANGED <<todo, sres>>
     \/ /\ tunnel' \in {tunnel, made}
        /\ \/ failTo = "return" /\ ReturnErr
           \/ failTo # "return" /\ spc' = failTo /\ UNCHANGED <<todo, sres>>
        /\ UNCHANGED tunnelCreated
  /\ UNCHANGED <<storageVars, ramVars, dstVars, qdisc, path, pkt, ctx,
                 mirrorJobIDs, seen, ready, stalled, sLeak>>

\* A failed ip tunnel add is not rolled back.
TunnelAdd   == TunnelCmd("tunnelAdd", "created", "tunnelUp", "return")
TunnelUp    == TunnelCmd("tunnelUp", "up", "tunnelRoute", "tunnelRollback")
TunnelRoute == TunnelCmd("tunnelRoute", "routed", "complete", "tunnelRollback")

\* ip link del under cleanupCtx
DeleteTunnel ==
  \/ tunnel' = "absent" /\ UNCHANGED sLeak
  \/ tunnel' \in {tunnel, "absent"} /\ sLeak' = TRUE

RollbackTunnel ==
  /\ spc = "tunnelRollback"
  /\ DeleteTunnel
  /\ ReturnErr
  /\ UNCHANGED <<storageVars, ramVars, dstVars, qdisc, path, pkt, ctx,
                 mirrorJobIDs, seen, ready, stalled, tunnelCreated>>

-----------------------------------------------------------------------------
(* After the cutover.                                                      *)

\* Mutant: a failing query is retried without looking at the context.
WaitForMigrationCompleteAnyCtx ==
  /\ spc = "complete"
  /\ \/ /\ Answers
        /\ \/ ram = "completed" /\ sres' = "nil" /\ spc' = "metrics"
           \/ ram # "completed" /\ UNCHANGED <<sres, spc>>
     \/ UNCHANGED <<sres, spc>>
  /\ UNCHANGED <<platformVars, ctx, todo, mirrorJobIDs, seen, ready, stalled,
                 tunnelCreated, sLeak>>

\* One round of waitForMigrationComplete: failing queries mean success once
\* they have gone on for postActiveStallGrace.
WaitForMigrationComplete ==
  /\ spc = "complete"
  /\ \/ /\ Answers
        /\ stalled' = FALSE
        /\ BufferEvents
        /\ \/ ram = "completed" /\ sres' = "nil" /\ spc' = "metrics"
           \/ /\ ram \in {"failed", "cancelled"}
              /\ sres' = "err" /\ spc' = "migrateCancel"
           \/ ram \in {"none", "active"} /\ UNCHANGED <<sres, spc>>
     \/ /\ ctx = "live"  \* the query failed
        /\ stalled' = TRUE
        /\ \/ UNCHANGED <<sres, spc>>
           \/ stalled /\ sres' = "nil" /\ spc' = "metrics"
        /\ UNCHANGED stopEvt
     \/ \* the context is over, migrationTimeout has passed, or a bad reply
        /\ sres' = "err" /\ spc' = "migrateCancel"
        /\ UNCHANGED <<stalled, stopEvt>>
  /\ UNCHANGED <<storageVars, ram, srcVM, dstVars, netVars, ctx, todo,
                 mirrorJobIDs, seen, ready, tunnelCreated, sLeak>>

\* Mutant: the tunnel is taken down only after a success.
TunnelTailOnSuccess ==
  IF tunnelCreated /\ sres = "nil" THEN "cniDelay" ELSE "done"

\* The tail of RunSource: the tunnel stays up for the CNI delay on success.
TunnelTail ==
  IF ~tunnelCreated THEN "done"
  ELSE IF sres = "nil" THEN "cniDelay" ELSE "teardown"

AfterMigration == IF SharedStorage THEN TunnelTail ELSE "cancelJobs"

\* The metrics query and the KATAMARAN_RESULT marker: best effort.
CaptureMetrics ==
  /\ spc = "metrics"
  /\ UNCHANGED sres
  /\ spc' = AfterMigration
  /\ todo' = mirrorJobIDs
  /\ BufferEvents \/ UNCHANGED stopEvt
  /\ UNCHANGED <<storageVars, ram, srcVM, dstVars, netVars, ctx, mirrorJobIDs,
                 seen, ready, stalled, tunnelCreated, sLeak>>

\* migrate-cancel under cleanupCtx; only an active migration is cancelled.
MigrateCancel ==
  /\ spc = "migrateCancel"
  /\ \/ /\ srcVM # "gone" /\ ram = "active"
        /\ HandoverAborted("cancelled")
        /\ UNCHANGED sLeak
     \/ /\ srcVM # "gone" /\ ram # "active"
        /\ UNCHANGED <<ram, srcVM, current, dstVM, exports, incoming, pkt, sLeak>>
     \/ /\ sLeak' = TRUE
        /\ \/ UNCHANGED <<ram, srcVM, current, dstVM, exports, incoming, pkt>>
           \/ srcVM # "gone" /\ ram = "active" /\ HandoverAborted("cancelled")
  /\ UNCHANGED sres
  /\ spc' = AfterMigration
  /\ todo' = mirrorJobIDs
  /\ UNCHANGED <<job, faulted, stopEvt, resumeEvt, qdisc, tunnel, path, ctx,
                 mirrorJobIDs, seen, ready, stalled, tunnelCreated>>

\* block-job-cancel for each job, under cleanupCtx, inline or deferred.  A
\* failure is logged and the loop goes on; afterwards the inline loop forgets
\* the jobs, which disarms the deferred one.
BlockJobCancel(from, to) ==
  /\ spc = from
  /\ \E d \in todo :
       /\ \/ srcVM # "gone" /\ BlockJobCancelled(d) /\ sLeak' \in {sLeak, TRUE}
          \/ UNCHANGED <<job, current>> /\ sLeak' = TRUE
       /\ todo' = todo \ {d}
  /\ spc' = IF todo' = {} THEN to ELSE from
  /\ mirrorJobIDs' = IF todo' = {} /\ from = "cancelJobs" THEN {} ELSE mirrorJobIDs
  /\ UNCHANGED <<faulted, ramVars, dstVars, netVars, ctx, seen, ready, stalled,
                 tunnelCreated, sres>>

CancelJobs == BlockJobCancel("cancelJobs", TunnelTail)

DeferredCancel == BlockJobCancel("deferred", "done")

\* The CNI convergence delay ends by itself or with the context.
CniDelay ==
  /\ spc = "cniDelay"
  /\ spc' = "teardown"
  /\ UNCHANGED <<platformVars, ctx, todo, mirrorJobIDs, seen, ready, stalled,
                 tunnelCreated, sres, sLeak>>

TeardownTunnel ==
  /\ spc = "teardown"
  /\ DeleteTunnel
  /\ spc' = "done"
  /\ UNCHANGED <<storageVars, ramVars, dstVars, qdisc, path, pkt, ctx, todo,
                 mirrorJobIDs, seen, ready, stalled, tunnelCreated, sres>>

-----------------------------------------------------------------------------
(* The context: migrationTimeout + storageSyncTimeout passes, or a signal   *)
(* cancels it.  A context keeps the first of the two errors.                *)

CtxEnds(how) ==
  /\ ctx = "live" /\ spc # "done"
  /\ ctx' = how
  /\ UNCHANGED <<platformVars, spc, todo, mirrorJobIDs, seen, ready, stalled,
                 tunnelCreated, sres, sLeak>>

CtxDeadline == spc # "start" /\ CtxEnds("deadline")
CtxCancel   == CtxEnds("cancelled")

\* RunSource itself.
SourceStep ==
  \/ ResolveAndValidate \/ ReplaySleep \/ Connect
  \/ \E d \in Drives : DriveMirror(d)
  \/ WaitForStorageSync \/ Configure \/ Migrate
  \/ WaitForStop \/ QueryMigrate
  \/ TunnelAdd \/ TunnelUp \/ TunnelRoute \/ RollbackTunnel
  \/ WaitForMigrationComplete \/ CaptureMetrics \/ MigrateCancel
  \/ CancelJobs \/ DeferredCancel \/ CniDelay \/ TeardownTunnel

SourceNext == SourceStep \/ CtxDeadline \/ CtxCancel
=============================================================================
