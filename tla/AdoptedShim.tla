---------------------------- MODULE AdoptedShim ----------------------------
(***************************************************************************)
(* containerd-shim-katamaran-adopted-v2: the task service that presents    *)
(* the migrated QEMU to containerd as the task of the adoption pod.  The   *)
(* RPCs run concurrently; s.mu makes each of their critical sections one   *)
(* step.  Channels of Wait callers are the callers' names.                 *)
(***************************************************************************)
EXTENDS DestNode

CONSTANTS
  AdoptedSandboxID, \* the annotation: "katamaran-dest"
  Callers,          \* concurrent Wait calls
  Watches           \* watchExit goroutines: calls of Start

ASSUME ShimAssumption == AdoptedSandboxID \in Sandboxes

VARIABLES
  qemuPid,   \* s.qemuPid: a QEMU, or "none"
  exited,    \* s.exited
  waiters,   \* s.waiters
  watch,     \* watchExit: its pc and its copy of s.waiters
  waiting,   \* Wait, for each caller
  closed,    \* channels that are closed
  panicked,  \* a closed channel was closed again
  shutdown   \* shutdownCh is closed: the process ends

shimVars == <<qemuPid, exited, waiters, watch, waiting, closed, panicked, shutdown>>

WatchOff == [pc |-> "off", list |-> {}]

ShimInit ==
  /\ qemuPid = "none" /\ exited = FALSE /\ waiters = {}
  /\ watch = [w \in Watches |-> WatchOff]
  /\ waiting = [c \in Callers |-> "idle"]
  /\ closed = {} /\ panicked = FALSE /\ shutdown = FALSE

Serving == ~shutdown /\ ~panicked

\* lookupAdoptedQEMUPid: the first qemu-system of cgroup.procs; no order is promised.
Create ==
  /\ Serving /\ qemuPid = "none"
  /\ \E v \in Procs(AdoptedSandboxID) : qemuPid' = v
  /\ UNCHANGED <<nodeVars, exited, waiters, watch, waiting, closed, panicked, shutdown>>

Start(w) ==
  /\ Serving /\ qemuPid # "none"
  /\ watch[w].pc = "off"
  /\ watch' = [watch EXCEPT ![w].pc = "poll"]
  /\ UNCHANGED <<nodeVars, qemuPid, exited, waiters, waiting, closed, panicked, shutdown>>

\* Mutant: s.waiters is not emptied.
WatchKeeps(w) ==
  /\ exited' = TRUE
  /\ watch' = [watch EXCEPT ![w] = [pc |-> "close", list |-> waiters]]
  /\ waiters' = waiters

\* pidAlive(pid) is false: mark the exit and take the waiters, under s.mu.
WatchTakes(w) ==
  /\ exited' = TRUE
  /\ watch' = [watch EXCEPT ![w] = [pc |-> "close", list |-> waiters]]
  /\ waiters' = {}

WatchSeesExit(w) ==
  /\ Serving /\ watch[w].pc = "poll" /\ vm[qemuPid] = "dead"
  /\ WatchTakes(w)
  /\ UNCHANGED <<nodeVars, qemuPid, waiting, closed, panicked, shutdown>>

\* The loop over the copied waiters runs outside s.mu.
WatchCloses(w) ==
  /\ Serving /\ watch[w].pc = "close"
  /\ IF watch[w].list = {}
     THEN watch' = [watch EXCEPT ![w].pc = "done"] /\ UNCHANGED <<closed, panicked>>
     ELSE \E c \in watch[w].list :
            /\ watch' = [watch EXCEPT ![w].list = @ \ {c}]
            /\ closed' = closed \cup {c}
            /\ panicked' = (c \in closed)
  /\ UNCHANGED <<nodeVars, qemuPid, exited, waiters, waiting, shutdown>>

\* Mutant: s.exited is not looked at.
WaitAlwaysRegisters(c) ==
  waiting' = [waiting EXCEPT ![c] = "blocked"] /\ waiters' = waiters \cup {c}

WaitRegisters(c) ==
  IF exited
  THEN waiting' = [waiting EXCEPT ![c] = "returned"] /\ waiters' = waiters
  ELSE waiting' = [waiting EXCEPT ![c] = "blocked"] /\ waiters' = waiters \cup {c}

Wait(c) ==
  /\ Serving /\ waiting[c] = "idle"
  /\ WaitRegisters(c)
  /\ UNCHANGED <<nodeVars, qemuPid, exited, watch, closed, panicked, shutdown>>

\* The channel is closed, or ctx is done; the channel stays in s.waiters then.
WaitReturns(c) ==
  /\ Serving /\ waiting[c] = "blocked" /\ c \in closed
  /\ waiting' = [waiting EXCEPT ![c] = "returned"]
  /\ UNCHANGED <<nodeVars, qemuPid, exited, waiters, watch, closed, panicked, shutdown>>

WaitCancelled(c) ==
  /\ Serving /\ waiting[c] = "blocked"
  /\ waiting' = [waiting EXCEPT ![c] = "returned"]
  /\ UNCHANGED <<nodeVars, qemuPid, exited, waiters, watch, closed, panicked, shutdown>>

\* SIGTERM may be ignored; a QEMU that ends leaves its cgroup.
Kill ==
  /\ Serving /\ qemuPid # "none" /\ vm[qemuPid] = "running"
  /\ vm' = [vm EXCEPT ![qemuPid] = "dead"]
  /\ moved' = moved \ {qemuPid}
  /\ UNCHANGED <<shimVars, sandbox, dst, peer, pidfile, noted, meta, cgdirs>>

\* rmdir of every directory that lists the pid or nothing; the kernel refuses one
\* that is not empty.
removeAdoptedCgroup == cgdirs' = {s \in cgdirs : Procs(s) # {}}

\* Nothing waits for the QEMU to exit.
Delete ==
  /\ Serving
  /\ IF qemuPid = "none" THEN cgdirs' = cgdirs ELSE removeAdoptedCgroup
  /\ UNCHANGED <<shimVars, vm, sandbox, dst, peer, pidfile, noted, meta, moved>>

Shutdown ==
  /\ Serving /\ shutdown' = TRUE
  /\ UNCHANGED <<nodeVars, qemuPid, exited, waiters, watch, waiting, closed, panicked>>

ShimGoes ==
  \/ \E w \in Watches : WatchSeesExit(w) \/ WatchCloses(w)
  \/ \E c \in Callers : WaitReturns(c)
=============================================================================
