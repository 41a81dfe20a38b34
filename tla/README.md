# Verification of katamaran

katamaran moves a running Kata Containers VM from one Kubernetes node to another:
its disks (drive-mirror over NBD), its memory (QEMU's migration) and its network (a
plug qdisc on the destination, a tunnel from the source). This directory holds TLA+
models of the parts of it that are hard to test, the TLC configurations that check
them, and proofs that TLAPS checks. Paths below are relative to `src/`.

1. [The system](#1-the-system) - parts, state, operations, hard behaviours
2. [Modules](#2-modules) - what models what, and how
3. [Runs](#3-runs) - what TLC checks, bounds, fairness
4. [Proofs](#4-proofs) - what holds for every value of the constants
5. [Documents and code](#5-documents-and-code) - where the two part
6. [Not modelled](#6-not-modelled) and [7. What could come next](#7-what-could-come-next)

To reproduce a run: `tlc -config MCQMPClient.cfg MCQMPClient`. To check the proofs of a
module: `tlapm NativeRunProofs.tla`; each of the eight takes some minutes, the longest a
quarter of an hour.
`PROJECT.json` gives, for every definition, the source lines it stands for; for every
property, a mutant of the code that breaks it.

## 1. The system

| part | state | operations | interacts with |
|---|---|---|---|
| source binary, `internal/migration/source.go`, `tunnel.go` | call it is in, context, mirror jobs it believes it has, tunnel created | `RunSource`: mirror, sync, migrate, wait for STOP, tunnel, wait for completion, cancel, teardown; one deferred clean-up | source QEMU over QMP, `ip` |
| destination binary, `internal/migration/dest.go` | call it is in, `qdiscInstalled`, `nbdStarted` | `RunDestination`: plug, listen, export, wait for RESUME, release, stop NBD, announce; deferred clean-ups; then the metadata file and the surviving cgroup | destination QEMU, `tc`, the node |
| replay of the source's QEMU, `destspawn.go`, `cmdlinefetch.go` | sockets, pid file and processes of a sandbox directory | fetch the command line from the source pod's log, rewrite it, start virtiofsd and QEMU, wait for their sockets | earlier Jobs of the sandbox, `virtiofsd`, QEMU |
| QMP client, `internal/qmp` | connection, deadline, half-read line, queue of events, callbacks | `NewClient`, `Execute`, `WaitForEvent`, `Close` | both binaries |
| orchestrator, `internal/orchestrator/native.go` | `inflight`, a channel and three goroutines for each run | `Apply`, `Watch`, `Stop`, `poll`, `stageThenStartDest`, `tailProgress` | Kubernetes Jobs; the controller, CLI and dashboard |
| controller, `internal/controller/reconciler.go` | `tracking`, the status and finalizer of a Migration | reconcile loop, `dispatch`, `recover`, `handleDeletion`, status patches | orchestrator, API server |
| adoption webhook, `admission.go`, `cmd/katamaran-mgr/webhook.go` | pending entries with a TTL | `Mark`, `MigrationFor`, `ShouldDenyPodCreate` | controller, ReplicaSets |
| adopted-VM shim, `cmd/containerd-shim-katamaran-adopted-v2` | pid, exited, waiters | `Create`, `Start`, `Wait`, `Kill`, `Delete`, `Shutdown`, `watchExit` | containerd, the surviving cgroup |
| VM factory, `internal/factory`, `cmd/katamaran-factory` | queue of VMs, sandboxes seen | watcher, `GetBaseVM`, `Quit` | the metadata file, Kata shims |
| dashboard, `internal/dashboard` | one migration and one load generator, bounded buffers, history | start, stop, status by cursor, the goroutines | orchestrator, the browser page |

What is hard here, and where the properties aim:

* *Nobody holds the whole picture.* The two binaries do not talk to each other. The
  order in which the guest stops, its disks are current, the traffic turns and the
  guest resumes comes from the order of their own calls and from what QEMU reports.
* *Every command can fail, and a failed command may have worked.* A QMP reply that
  comes too late is an error to the caller and a command carried out by QEMU.
* *Clean-up happens in deferred functions* on every path, under a context that may be
  over already.
* *The verdict is taken from two Jobs* read one after the other, through an API that
  may fail, by a goroutine that shares a channel with two others.
* *The controller keeps its knowledge in memory* and may restart between any two of
  its writes; users delete Migrations at any time.
* *A name is not an identity.* A sandbox directory outlives the Job that used it, a
  Migration can be recreated under its name, a meta file stays after its QEMU is gone:
  sockets, tracking entries and paths seen are looked up by name.
* *The ReplicaSet controller works against the adoption:* it replaces the deleted pod,
  counts the adopted one and scales down.

## 2. Modules

| module | models | lines of code it stands for |
|---|---|---|
| `Platform` | QEMU, qdisc, tunnel, packets: external, as the binaries use them | - |
| `Source` | `RunSource`, one action for each QMP round trip or command | `source.go`, `tunnel.go` |
| `Destination` | `RunDestination` up to its verdict, likewise | `dest.go:49-336` |
| `LiveMigration` | both binaries side by side | composition |
| `Handover` | what a migration promises: one guest, its place, one verdict | abstract |
| `QMPClient` | the client against a monitor that may be late or silent | `client.go` |
| `NativeRun` | one run of the orchestrator in its three modes | `native.go` |
| `Reconciler` | the controller for one namespaced name | `reconciler.go` |
| `DestReplay` | the beginning of `RunDestination` in replay mode | `dest.go:83-94`, `destspawn.go:388-485` |
| `Cmdline` | the rewriting of a command line, as operators | `destspawn.go:95-273, 337-365` |
| `PodLog` | the search of a log for markers, as operators | `cmdlinefetch.go:102-104, 254-323` |
| `DestNode` | the end of `RunDestination`: metadata file, surviving cgroup | `dest.go:336-411, 480-580` |
| `Factory` | watcher and server of the factory | `watcher.go`, `server.go`, the factory's `main.go` |
| `Node` | `DestReplay` and `Factory` on one node | composition |
| `AdoptedShim` | the shim's task service, RPCs interleaved | the shim's `main.go` |
| `Adoption` | clean-up, pending entries, webhook, adoption pod, with the two above | `reconciler.go:411-487, 835-923`, `admission.go`, `webhook.go` |
| `Dashboard` | migrations, load generators, status and page | `migrate.go`, `loadgen.go`, `server.go`, `index.html` |

An `MC...` module extends each of the modules that are run, and a `...Proofs` module
those that are proved about: `LiveMigration` (with its refinement of `Handover`, and with
`StorageProofs` for its disks and its tunnel), `QMPClient`, `NativeRun`, `Reconciler`,
`Node` (with the `Cmdline` and `PodLog` it extends), `Adoption` and `Dashboard`.

**Source and Destination.** `spc` and `dpc` name the call the function makes next, and
the action of that name makes it: an effect on `Platform`, the next call, or the error
path. A command has three outcomes: it works, it fails, or it works and its reply is
lost. Deferred functions are the calls `defer...` after which `done` is reached;
`sres`, `dres` are what the function returns. `sLeak` and `dLeak` record that a command
of the clean-up itself failed, which the code logs and goes on from; properties about
what is left behind except that case. An `ip` command that fails, or that the end of the
context kills, may have taken effect. The arithmetic of the downtime limit is
left out. A drive is *current* when its destination image equals the source's; the
guest writes while it runs, and a running mirror follows.

**Handover.** Two variables: where the guest is, and what `RunDestination` returns.
`LiveMigration` maps its two QEMUs to the place of the guest (`GuestPlace`). A guest
that runs in both would be in a place that `Handover` does not know. A step of either
binary or of QEMU is a step of `Handover` or leaves both variables alone.

**QMPClient.** A line arrives in two parts, so that a deadline can pass in the middle of
one. Replies have no id in the protocol; the model numbers them to tell whose they
are. The `AfterFunc` callback is two steps: it starts, and it sets the deadline. `owed` is
a history variable: another answer was still to come when the command of the call in
progress was sent.

**NativeRun.** `ppc`, `gpc`, `tpc` are the three goroutines, `spc` is `Stop`, `rpc` the
reader. Jobs change on their own; a call of the API may fail with or without effect
(`lost`). A tick of `poll` reads the source Job, then the destination Job: two steps.

The history variable `lost` says that a call of the API was carried out and reported as
failed.

**Reconciler.** One namespaced name, under which Migrations follow each other. The loop
works on `obj`, a copy from its List, while goroutines change `cr`; of the phase in that copy
only whether it is set and final is kept (`Looked`), as the loop asks for no more. Goroutines
are alike, and the idle one that starts is chosen. `Stop` is one step here, in which any of
its deletes may fail; its interleavings are in `NativeRun`. A fault is a restart or an API call
that fails. A restart clears `tracked`, the goroutines and the orchestrator's `inflight`; Jobs
and status stay. `shared` is a history variable: the Migrations that met a live goroutine of
another one of their name, through the tracking entry or through a status patch.

**DestReplay, DestNode.** A member of `Vms` is a destination Job and the QEMU it starts.
Sockets, pid file and meta file belong to a sandbox and stay when the Job ends; a wait for
a socket takes whichever is at the path. `overlaps` records the Jobs that were in a
sandbox together. Writing the meta file is two steps, as `os.WriteFile` truncates first.

**Factory.** One scan is one `ReadDir` and then a step for each entry, so that files change
in between. A QEMU whose pid file could not be read is offered with pid zero (`nopid`).
`missed` is a history variable: the watcher read the file of the sandbox too early.

**Cmdline, PodLog.** An argument is a flag or the set of the clauses that the rewriting
looks at. The loop is a recursive function: `iterated(args)[i]` holds `out` and `skipNext`
after the argument at `i`. A log line is its length and its markers; the apiserver cuts the
log after `limitBytes`, the reader one byte later. Command lines and logs are constants,
`CommandLines` and `Logs`, which the run sets to all up to a length and the proofs leave open.

**Adoption.** One Migration that has been reported as succeeded, in the three values of
`sourceCleanup`, for a ReplicaSet of one replica. `lapsed` is a history variable: the
pending entry was not made, was lost with its leader, expired, or the webhook was not
reached (`failurePolicy=Ignore`). `Wait` callers stand for their channels.

**Dashboard.** A log line and a sample carry the sequence number that the code knows
only from their place in the buffer, so that "shown once and in order" can be stated.
The page sends one request at a time and keeps its cursors when one fails. So no
answer arrives on a page that has moved on, and reading and showing are one step.

## 3. Runs

States are distinct states of the complete search. Deadlock is not checked: the
binaries, runs and bounded environments all come to an end.

| run | states | what it shows |
|---|---|---|
| `storage` | 2,023,020 | two drives, mirrors that may break, a tunnel, any command failing, a signal at any moment, in replay mode: the guest resumes on current disks (`ResumedOnCurrentDisk`), `RunSource` withdraws the redirect and, once all mirrors were started, their jobs (`SourceWithdraws`), and the two binaries implement `Handover` (`IsHandover`): the guest never runs twice, never goes back, and a nil of `RunDestination` means that it has arrived |
| `network` | 1,073,514 | tap, tunnel and two packets, a plug that holds one: held packets are delivered (`PlugDelivers`), the tap of a running guest is not left plugged (`TapNotLeftPlugged`), redirected traffic is held or finds a running guest (`RedirectIsCovered`); from the cutover on `RunSource` comes to its end (`CutoverEnds`) and takes the redirect back, whether or not the handover worked (`RedirectWithdrawn`) |
| `mirrors` | violated | a mirror job outlives `RunSource`: see section 5 |
| `polling` | violated | `RunSource` polls for ever: see section 5 |
| `qmp` | 334,087 | no event is lost, doubled or overtaken; the end of a context ends its own calls and nothing else (`ContextIsOwn`); a reply is the caller's own exactly when none was owed; every call returns |
| `run` | 519,200 | success is reported only after a completed destination Job, a reader gets a verdict and no contradiction, a failed `Apply` leaves no Job but in one case of section 5 (`ApplyErrorLeavesNoJob`), no Job is created once `Stop` has returned (`NoJobAfterStop`); the channel closes and the three goroutines end (`RunWindsUp`) |
| `ctl_control` | 689,971 | one run in flight for a Migration; success only after a handover of its own; each Migration reaches a verdict and each deletion completes, across one fault (`MigrationSettles`) |
| `ctl_orphan` | violated | a deletion during `Apply` leaves Jobs: see section 5 |
| `ctl_claim` | violated | two goroutines for one Migration: see section 5 |
| `adoption` | 240,984 | no cold twin inside the pending window, the Deployment is not blocked for ever, a `Wait` is answered, no channel is closed twice |
| `dashboard` | 1,612,093 | results are counted once and filed under their own migration, slots are held exactly as long as their goroutine lives, the page shows each line and sample once and in order |
| `node` | 1,894,410 | a Job deals with its own QEMU whatever earlier Jobs left (`OwnQEMU`), a QEMU is handed out once (`ServedOnce`), no meta file is passed over without a reason (`OfferedOrMissed`); command lines replay cleanly (`CommandLinesReplay`) and markers come from whole lines (`MarkersAreWhole`) |

**Bounds.** Two drives are the least for which one mirror can be ready, or fail, while
another is not; two packets with a plug of one reach the full queue. Two calls and
three events with a queue of two let a late reply meet the next call and the queue
overflow. One progress line and one API error suffice for every pair of goroutines to
meet at the channel, which has one slot (8 in the code) so that it is full in every state.
The run of `Apply` is explored with replay and with a destination node to wait for; a given
node is the latter without the wait. Two workers, two runs and one fault (`MaxFaults`) give an
old and a new goroutine for one Migration.
`ctl_control` has one Migration of the name: a second one multiplies the states beyond a
complete search, and with it come the exceptions recorded in `shared`. `ctl_claim` has two
and finds the case; that the properties hold beside it is proved for any number. Two Jobs
in one sandbox directory are an earlier and a later one, or two at once; with one
restart the factory meets a file that its predecessor served. Command lines have up to
three options of twenty, enough for an option between two that are dropped; logs have
up to three lines around every limit from 1 to 8. Two watches are two calls of `Start`.
Two migrations with four lines each and a buffer of two let the page miss lines, a whole
buffer and a whole migration; the page keeps two samples (`maxPageSamples`, 500 in the page),
so that it drops the oldest. What larger instances could show and these cannot: two
different Migrations that share a node, and replicas beyond one.

**Symmetry** is used for the drives of `storage` and the Jobs of `node`, in runs without liveness.
Packets and the controller's goroutines are interchangeable too; there the model takes the
next one instead, since a symmetry set is not sound for the liveness checked with them.

**Fairness**, each justified by the scheduling of the code:

* `network`, `polling`: weak fairness of the next step of `RunSource` and of the deadline of its
  context. Go runs a runnable goroutine and timers fire. Nothing is assumed of the
  destination, of QEMU, of the network or of the user.
* `qmp`: the calling goroutine and the callbacks run. QEMU may stay silent.
* `run`: the three goroutines run and the reader drains the channel, as `dispatch`, the
  CLI and the dashboard do; Jobs end, because both templates set `activeDeadlineSeconds`, or are
  deleted. Actions that are fair for the same reason share one condition: all of them but
  `poll`'s come to an end, so fairness of several is fairness of each. `PollCtxDone` has
  strong fairness: its `select` is reached again and again and, with the context done, does
  not choose the ticker for ever.
* `ctl_control`: the loop ticks, goroutines run, Jobs end.
* `adoption`: the TTL passes, the ReplicaSet controller creates and adopts, the kubelet
  ends a terminating pod, the shim's goroutines run. A create that does not reach the
  webhook is possible and never assumed; nothing is assumed of the dispatch goroutine.

## 4. Proofs

Eight modules; each theorem holds for every value of the constants.

| module | theorem | statement |
|---|---|---|
| `LiveMigrationProofs` | `Typing`, `VerdictIsRight`, `TapIsReleased` | `Spec => []TypeOK`, `[]DestinationVerdict`, `[]TapNotLeftPlugged` |
| | `HeldPacketsArrive`, `MigrationIsHandover` | `Spec => PlugDelivers`, `IsHandover` |
| `StorageProofs` | `DisksAreCurrent`, `SourceCleansUp` | `Spec => []ResumedOnCurrentDisk`, `[]SourceWithdraws` |
| | `RedirectIsSafe` | `Spec => []RedirectIsCovered` |
| `QMPClientProofs` | `NoCallEndsAnother`, `ClientTypes` | `Spec => []ContextIsOwn`, `[]TypeOK` |
| | `LinesAccountedFor`, `RepliesInStep`, `NoEventLost` | `Spec => []IInv`, `[]ReplyIsOwn`, `[]EventsConserved` |
| | `EventsInOrder` | `Spec => OldestFirst` |
| `NativeRunProofs` | `SuccessIsHandover`, `VerdictsAgree` | `Spec => []SucceededIsTrue`, `[]OneVerdict` |
| | `FailedApplyCleansUp`, `StopEndsCreation`, `RunTypes` | `Spec => []ApplyErrorLeavesNoJob`, `NoJobAfterStop`, `[]TypeOK` |
| `ReconcilerProofs` | `ControllerTyping`, `OneRunPerMigration`, `SuccessIsOwn` | `Spec => []TypeOK`, `[]OneRunInFlight`, `[]SucceededIsTrue` |
| `NodeProofs` | `NodeTyping`, `JobsKeepToThemselves` | `Spec => []TypeOK`, `[]OwnQEMU` |
| | `NoQEMUServedTwice`, `NoMetaPassedOver` | `Spec => []ServedOnce`, `[]OfferedOrMissed` |
| | `EveryCommandLine`, `MarkersOfEveryLog` | `ReplaysCleanly`, `TakesWholeMarkers` for lists of every length, and so `Spec => []CommandLinesReplay`, `[]MarkersAreWhole` |
| `AdoptionProofs` | `EntryKeepsTwinOut`, `NoChannelClosedTwice` | `Spec => []NoColdTwin`, `[]ClosedOnce` |
| `DashboardProofs` | `DashboardTypes`, `ResultsAreOwn`, `EveryMigrationCounts` | `Spec => []TypeOK`, `[]HistoryIsOwn`, `[]ResultsAddUp` |
| | `PageNeverSkips`, `SlotsFollowGoroutines` | `Spec => []PageIsExact`, `[]SlotsHeld` |

The assumptions are those of the modules, which TLC evaluates in the runs: constants have
their types; drives and packets are finite sets, and storage is shared exactly if there is
no drive to mirror (`PlatformAssumption`, `SourceAssumption`); no Job is called like a state
of a file (`NodeAssumption`) and no event has the empty name (`QMPAssumption`); a command
line is a list of Kata's options (`CommandLinesAssumption`), a log a list of lines with a
length and any of the markers (`PodLogAssumption`), both of any length; bounds are natural
numbers.

Hardly any of the properties is inductive. Each module defines the strengthening `IInv`,
shows it step by step with one case for each action, and draws the properties from it.

**LiveMigration.** `DestinationVerdict` speaks of the end of `RunDestination`, and nothing
in it says why the guest should be running there. `IInv` has types and four parts:

* `HandoverInv`: memory is complete before the destination guest is loaded, and the
  source guest has stopped by then; a RESUME event stands for a running guest, and so do
  the calls after the wait for it. This gives `DestinationVerdict`.
* `ColdInv`: until the destination listens for the migration, no guest is there, the
  source has sent no STOP and no traffic has turned. A failure this early leaves
  nothing that matters, although some of its paths skip the release of the tap.
* `TapInv`: a plugged tap is either recorded in `qdiscInstalled`, so that the deferred
  function will release it, or is in one of the few calls around that record, or there
  is no guest yet. With `HandoverInv` this gives `TapNotLeftPlugged`.
* `DeferInv`: which of the flags can be set at which call.

`SourceFrame` says once what a step of the source can do to what the destination sees.
`PlugDelivers` is an action property and follows from `IInv` step by step: only the
release empties the queue before a failure, and then the guest runs.

**Handover.** The refinement needs `IInv` and two facts more (`RefInv`): memory moves only
while the source QEMU lives, and `RunDestination` decides on its result once. A step of
the destination leaves the guest alone (`DestinationStepEffects`), a step of the source or
of QEMU leaves the verdict alone and moves the guest as `Handover` allows (`GuestMoves`).

**Storage.** `SInv` adds to `IInv` and `RefInv` what the two sides know of disks and tunnel
without talking to each other:

* `RecordInv`, `JobsInv`, `TunnelInv`: which jobs `RunSource` has on record at each call, that
  its cancel loops leave one job less each round, and that a tunnel that is more than an
  interface is recorded, being made or being rolled back. The last two give `SourceWithdraws`.
* `StoppedInv`: past the STOP loop the source guest has stopped, unless the migration was
  cut off. So the inline cancel loop ends no mirror that the guest still needs.
* `ExportInv`: while `RunDestination` is still adding exports, every drive that was seen ready
  is exported. All of them are ready before traffic turns, hence only the plug can be
  missing then, the gap that `RedirectIsCovered` names.
* `DiskInv`: a drive that was seen ready is current, and its mirror is ready still or the
  source guest has stopped. A mirror whose server is gone was cut by `nbd-server-stop`,
  which comes after RESUME. With `RecordInv` this gives `ResumedOnCurrentDisk`.

**QMPClient.** A callback belongs to the call in progress, and if it runs then that call's
context has ended (`CallbackInv`): the deferred wait for `callbackDone` is what carries it
past the end of a call. For the lines, `IInv` follows each from QEMU to the caller:

* `OrderInv`: the events in the queue come before those of the stream, each part in the
  order of their numbers, and these with the delivered and the dropped ones are all that
  were emitted. This gives `EventsConserved`; with `WaitInv` (a `WaitForEvent` that reads
  has found nothing in the queue) it gives `OldestFirst`.
* `AnswerInv`: QEMU answers in order, so while `Execute` reads, the answer to its command is
  the last one outstanding, and it is the only one exactly if none was owed (`OwnLast`). This
  gives `ReplyIsOwn`.
* `HandshakeInv`: QEMU emits no event before it has answered `qmp_capabilities`, so the line
  that `NewClient` throws away is never one. `LineInv`: what kind of line can be where.

**NativeRun.** The channel, what the reader took from it and what `poll` is about to send
are one set of phases. Until `poll` has decided, a verdict in it can only be the failure of the staging
(`UndecidedInv`), and then there is no destination Job that could complete (`StageInv`).
`TypeInv` adds to the types that `poll` has closed `finished` when it is about to close
`updates`. For `StopEndsCreation`: a `Stop` that found the run finds it registered, so `Apply`
has no Job left to create (`StopInv`), and only `Apply` and the staging create any
(`JobsCreated`); when `Stop` returns the context is done, and staging's `Create` under it fails.

**Reconciler.** A Migration is dispatched a second time only if its key is not tracked
while a goroutine of its own lives. `handleDeletion` brings that about, but the Migration
is then being deleted, is listed so from there on and is never claimed again. A goroutine
that ends brings it about too, and then there were two of them under the name: the
Migration is in `shared` (`MeetInv`). `LoopInv` says what a List that is out of date can still
be relied on for, `WorkInv` and `RunInv` which goroutine holds which run, `PhaseInv` that the
ids in the status are the Migration's own.

**Node.** `PidInv`: what names a QEMU in a sandbox names one of that sandbox which has come
up. `SoloInv`: from the removal of the old sockets on, a Job that is alone finds at the
monitor's path its own QEMU or nothing, and behind it its own pid file. `OfferInv`: a QEMU
that was offered is in a sandbox the watcher will not read again, or nothing names it any
more and nothing will. `SeenInv` gives `OfferedOrMissed`.

**Command lines and logs.** Both theorems are about loops over lists of any length, so they
need induction, and that the recursive functions of the models exist at all. `LeastNumber`
draws from the well-foundedness of `<` that a set of naturals has a least element;
`NumberInduction` and `NumberRecursion` follow, stated for sets and functions so that they can
be used without a predicate as parameter.

* For `MarkersOfEveryLog`: byte counts grow with every line (`BytesGrow`); what the scanner
  sees are the first lines, all whole but the last (`PiecesAre`), and their counts agree with
  those of the log up to one byte past the cut (`PieceBytes`). So a line that was cut is
  counted beyond the limit, newline included, and the scan ends before its markers count
  (`OneLog`).
* For `EveryCommandLine`: the loop invariant is stated where an option ends and not at each
  argument, since in the middle of an option `skipNext` may be set. There `Replayed` holds:
  `skipNext` is false, the flags written are those of the kept options so far, and what was
  written is clean. `OptionStep` shows for each form of an option that one or two iterations
  add the option rewritten, or nothing; `LoopReplays` is the induction over the options.

**Adoption.** `PendingInv`: until the entry is made the source pod holds the ReplicaSet's one
slot, and from then on the entry is there or `lapsed` is recorded. For `ClosedOnce`, a
channel is in the shim's list or in the hands of one `watchExit`, never both, and not
closed yet.

**Dashboard.** `WorkInv`: the goroutines before the current migration's are done, and the
current one lives exactly if the slot is taken; `LoadInv` says it of load generators. Hence
`setMigrationResult`, which looks at what is current, finds the migration it was started for
(`ResultInv`: the counters leave out at most that one, and the history ends with them).
`LogInv`: buffer and page both end at their sequence number and count backwards from it, with
one migration each. Samples carry no such id. `PingInv` says when the page's are known to be
of the current load generator: if its cursor has not fallen behind the buffer, which is
when the server sends no reset.

TLC confirmed each `IInv`, and `SInv`, on the instances of the runs before it was proved.

Every invariant and action property of the passing runs is proved. Only model-checked is
liveness, which is out of the prover's reach (`CutoverEnds`, `RedirectWithdrawn`,
`CallsReturn`, `RunWindsUp`, `MigrationSettles`, `SlotFilled`, `WaitAnswered`).

## 5. Documents and code

Four claims of the repository are kept as runs that TLC refutes.

* `ctl_orphan`, `NoOrphanJobs`. reconciler.go:220 adds the finalizer so that "a race
  between submit and delete cannot orphan jobs". `handleDeletion` stops a run by the id on
  the status, which is written after `Apply` has returned: a deletion in between removes
  the finalizer and the Jobs run on.
* `ctl_claim`, `OneGoroutine`. reconciler.go:252 has `markTracking` return "true if the
  caller is the first to claim key" and false "until the goroutine clears tracking". A
  Migration is deleted while its goroutine lives; `handleDeletion` drops the entry (:643) and
  the finalizer. One of the same name is created and claimed. The first goroutine ends and
  its deferred `untrack` (:289) drops the entry of the second. An item of a List from before
  the second had a phase is then claimed again, and two goroutines dispatch it.

* `mirrors`, `MirrorsTornDown`. source.go:39 has a deferred clean-up ensure that "the drive-mirror
  job is torn down on any early return". It is registered (:217) after the loop that starts
  the mirrors: when the second `drive-mirror` fails, `RunSource` returns (:212) and the job of
  the first runs on, although it is on record (:214). A `drive-mirror` whose reply was lost is
  not even on record. `SourceWithdraws` speaks of the returns after the loop.
* `polling`, `SourceReturns`. docs/STORIES.md:129 has migration polling "bounded by
  `migrationTimeout` (1h) to prevent infinite loops". In the loop at source.go:304 the timeout
  of one poll and the passed deadline of the whole context are the same error (:311). After the
  deadline `WaitForEvent` and `query-migrate` fail at once, both are taken for transient, and
  the loop goes round without a pause. A signal does not end it either: the context is over
  and keeps the error it has. (A signal before the deadline does.) Past the loop every wait
  ends (`CutoverEnds`).

Others were met as counterexamples while the models were built. The models contain the
behaviour; the properties of the runs are stated so as to except exactly it.

| code | says | does |
|---|---|---|
| tunnel.go:104 | :51-52 on partial failure the tunnel is cleaned up | an `ip tunnel add` that was killed after it took effect is not: an interface without a route stays (`SourceWithdraws` excepts it) |
| source.go:347, 358 | STORIES.md:130 `migrate-cancel` is sent on failure | the waits for STOP and the tunnel return without it |
| source.go:612 | :567 polls "until ALL" jobs are ready | a job once seen ready is not looked at again |
| dest.go:267 | STORIES.md:39, README.md:28 no packet is dropped | packets beyond the queue, or sent into a tunnel that was removed before the network converged, are |
| qmp/client.go:311 | :204 returns the response of the command | the late reply to an abandoned command is taken for it (`ReplyIsOwn` says exactly when) |
| native.go:334 | types.go:172 nothing follows a terminal update | `tailProgress` looks, then sends; the verdict can come in between |
| native.go:836 | :822 `Stop` deletes both Jobs | in replay mode the staging goroutine can create the destination Job after `Stop`'s delete and before its cancel (:839), and the Job stays; `NoJobAfterStop` bounds the window by the return of `Stop` |
| native.go:241 | :160-167, 221-246 every other error after the destination Job was created cleans it up | an error of rendering the source Job again returns without it (`ApplyErrorLeavesNoJob` excepts it) |
| dest.go:267 | :43 the plug catches in-flight packets | it is set after `migrate-incoming` listens (:212): a source that is fast enough turns the traffic before (`RedirectIsCovered` excepts that call) |
| dest.go:507 | "factory adoption will be skipped" without a pid | the meta file is written with pid zero, and the VM offered |
| watcher.go:112 | :74-75 scans for files it has not processed yet | one that is read half written is marked as seen and not read again |
| destspawn.go:214, 223 | :145-149 paths are substituted | not in the values of `-netdev` and `-device`, which are copied as they are |
| destspawn.go:238 | :149 `readonly` is stripped "on the nvdimm backend" | on every argument that reaches this line |
| native.go:905 | :853 a completed destination Job wins | not if reading it fails once and the source Job has failed |
| reconciler.go:634 | :130 the finalizer goes after `Stop` | after a restart the orchestrator does not know the id and the finalizer goes anyway |
| reconciler.go:802 | :136 status is patched back to the resource | by name: a recreated Migration gets the report of its predecessor |
| reconciler.go:229, 378 | :9 each new Migration is submitted once | the List may be older than the phase; a restart before the id is written submits again, and the first run's Jobs are left to their deadline (`OneRunInFlight` counts the runs a live controller knows) |
| reconciler.go:393 | types.go:172 a phase is terminal | a late patch can follow it |

These were read in the code around the models and are not checked:

* admission.go:70 says `Clear` is called after the adoption pod was created; nothing
  calls it, on purpose (reconciler.go:469-480). With the call, `NoColdTwin` fails.
* reconciler.go:811-813 says the adoption pod gets its VM from the factory's `GetBaseVM`.
  The pod runs the adopted shim (:901-908), which never calls it, so the queued VM stays
  for another sandbox to receive.
* The shim's main.go:376 says `Delete` waits for QEMU to exit; it does not.
* The annotation names the sandbox `katamaran-dest` whatever the destination used
  (reconciler.go:873): two VMs migrated to one node share a cgroup directory.
* `createAdoptionPod` reads the source pod after deleting it (:843). If it has gone, the
  adoption pod inherits no owner, and the ReplicaSet starts a cold pod after the TTL.
* `recover` neither cleans up the source nor adopts.
* The factory's server.go:76 has `Config` return what "the most recent migration-meta.json"
  holds; the poller of `persist.json` (sandbox_config.go:34) may set it later.
* Only the QEMU is moved out of the container's cgroup (dest.go:403): its virtiofsd ends with
  the container.
* A line of the log that the source is still writing is taken for a whole one
  (cmdlinefetch.go:298), and a log cut just behind a newline gives no error.

## 6. Not modelled

* **The factory's `Config`** (server.go:76-110, sandbox_config.go): a value that is set by
  two writers and read; no other state depends on it.
* **Around the replay**: the copy of the image, the tap and the binary's path are part of
  the step `Prepare` or of its failure; hotplugged memory, the temporary file, base64 and
  the HTTP client of the log are left out.
* **The downtime limit** (`measureRTT` and the automatic limit in `source.go`): arithmetic
  that changes no control flow.
* **Job rendering, discovery, pod resolution**: templates and look-ups without state; their
  failure is a step of the models that call them.
* **Recovered panics** of the orchestrator (native.go:607-612, 869-873) and of the controller
  (reconciler.go:193, 290-295, 499-504). After one, `poll` closes the channel without a verdict and
  a Migration keeps its phase until `recover` takes it up; `OneVerdict` and `MigrationSettles` are
  about goroutines that do not panic. Those of the dashboard are modelled.
* **The length limit of a QMP line** (client.go:82-85): what was read of a longer one is dropped
  and its rest comes as a line of its own. `EventsConserved` is about lines within the limit.
* **The tc filter** that `RunSource` takes off the source pod's interface (source.go:79-88) and the
  KVM helper threads that follow QEMU into its cgroup (dest.go:413-467): best effort, read by
  nothing else.
* **Two critical sections as one**: an update of the dashboard takes its mutex once for the
  progress and once for the log line (migrate.go:313-320, 359); nothing that the properties read
  can change in between.
* **Validation, middleware, metrics, logging, command lines, generated code**: no state that
  a property would be about. A request that is rejected changes nothing.
* **Outside the instances**: restarts of the dashboard, whose sequence numbers begin again
  (server.go:415); reuse of a pid by another process (the shim's main.go:361, 463); two
  calls of `Shutdown` at a time (:416); a user or a drain that deletes the source pod before the
  pending entry is made, which the ReplicaSet replaces cold; another shim on the node that removes an empty
  cgroup between `mkdir` and the move (dest.go:398-405); several replicas.

## 7. What could come next

1. The choice of the latest terminal condition of a Job (orchestrator.go:64-93) and the
   downtime limit (source.go:259-274, 455-534), against reference definitions.
2. Two Migrations under different names that use one node at a time.
