----------------------------- MODULE DestReplay -----------------------------
(***************************************************************************)
(* The beginning of RunDestination when it replays the source's command    *)
(* line: spawnReplayedQEMU (internal/migration/destspawn.go) starts a      *)
(* virtiofsd and a QEMU in a sandbox directory that outlives the Job, and  *)
(* waits for their sockets by the path.  What earlier Jobs of the same     *)
(* sandbox id have left there, or still run there, is part of the state.   *)
(* virtiofsd, QEMU and the kubelet are external.                           *)
(***************************************************************************)
EXTENDS DestNode

VARIABLES
  monitor,   \* extra-monitor.sock of a sandbox: the QEMU that bound it
  vhost,     \* vhost-fs.sock of a sandbox: the Job whose virtiofsd bound it
  fsd,       \* the virtiofsd of each Job
  overlaps   \* history: Jobs that were in a sandbox at the same time as another

replayVars == <<monitor, vhost, fsd, overlaps>>

Nobody == [s \in Sandboxes |-> "none"]

ReplayInit ==
  /\ NodeInit
  /\ vm = [v \in Vms |-> "absent"] /\ dst = [v \in Vms |-> "fetch"]
  /\ peer = [v \in Vms |-> "none"]
  /\ pidfile = Nobody /\ meta = [s \in Sandboxes |-> "nodir"]
  /\ monitor = Nobody /\ vhost = Nobody
  /\ fsd = [v \in Vms |-> "absent"]
  /\ overlaps = {}

ReplayTypeOK ==
  /\ NodeTypeOK
  /\ monitor \in [Sandboxes -> Vms \cup {"none"}]
  /\ vhost \in [Sandboxes -> Vms \cup {"none"}]
  /\ fsd \in [Vms -> {"absent", "starting", "serving", "dead"}]
  /\ overlaps \subseteq Vms

Inside(v) == dst[v] \notin {"fetch", "exited"}
Others(v) == {w \in Vms \ {v} : sandbox[w] = sandbox[v] /\ Inside(w)}

\* Mutant: the sockets of earlier Jobs are left in place.
PrepareKeepsSockets(v) ==
  /\ dst[v] = "fetch"
  /\ dst' = [dst EXCEPT ![v] = "fsWait"]
  /\ meta' = [meta EXCEPT ![sandbox[v]] = IF @ = "nodir" THEN "absent" ELSE @]
  /\ fsd' = [fsd EXCEPT ![v] = "starting"]
  /\ overlaps' = IF Others(v) = {} THEN overlaps ELSE overlaps \cup Others(v) \cup {v}
  /\ UNCHANGED <<vm, sandbox, peer, pidfile, noted, cgdirs, moved, monitor, vhost>>

\* The command line is there and the image copied: the directory is made, the
\* sockets of earlier Jobs are removed (their pid file and meta are not), and
\* virtiofsd is started.
Prepare(v) ==
  /\ dst[v] = "fetch"
  /\ dst' = [dst EXCEPT ![v] = "fsWait"]
  /\ meta' = [meta EXCEPT ![sandbox[v]] = IF @ = "nodir" THEN "absent" ELSE @]
  /\ monitor' = [monitor EXCEPT ![sandbox[v]] = "none"]
  /\ vhost' = [vhost EXCEPT ![sandbox[v]] = "none"]
  /\ fsd' = [fsd EXCEPT ![v] = "starting"]
  /\ overlaps' = IF Others(v) = {} THEN overlaps ELSE overlaps \cup Others(v) \cup {v}
  /\ UNCHANGED <<vm, sandbox, peer, pidfile, noted, cgdirs, moved>>

\* It takes the path over from whoever had it.
VirtiofsdUp(v) ==
  /\ fsd[v] = "starting"
  /\ fsd' = [fsd EXCEPT ![v] = "serving"]
  /\ vhost' = [vhost EXCEPT ![sandbox[v]] = v]
  /\ UNCHANGED <<nodeVars, monitor, overlaps>>

\* waitForSocket(vhostSock): any socket at the path will do.
StartQEMU(v) ==
  /\ dst[v] = "fsWait" /\ vhost[sandbox[v]] # "none"
  /\ dst' = [dst EXCEPT ![v] = "qmpWait"]
  /\ vm' = [vm EXCEPT ![v] = "starting"]
  /\ UNCHANGED <<sandbox, peer, pidfile, noted, meta, cgdirs, moved, replayVars>>

\* QEMU needs a virtiofsd at the other end; its pid file is there before its socket.
QemuUp(v) ==
  /\ vm[v] = "starting"
  /\ vhost[sandbox[v]] # "none" /\ fsd[vhost[sandbox[v]]] = "serving"
  /\ vm' = [vm EXCEPT ![v] = "incoming"]
  /\ pidfile' = [pidfile EXCEPT ![sandbox[v]] = v]
  /\ monitor' = [monitor EXCEPT ![sandbox[v]] = v]
  /\ UNCHANGED <<sandbox, dst, peer, noted, meta, cgdirs, moved, vhost, fsd, overlaps>>

\* Its sockets stay, and so does its pid file when it is killed.
QemuEnds(v) ==
  /\ vm[v] \in Alive
  /\ vm' = [vm EXCEPT ![v] = "dead"] /\ moved' = moved \ {v}
  /\ \/ pidfile' = pidfile
     \/ pidfile[sandbox[v]] = v /\ pidfile' = [pidfile EXCEPT ![sandbox[v]] = "none"]
  /\ UNCHANGED <<sandbox, dst, peer, noted, meta, cgdirs, replayVars>>

\* waitForSocket(dstSocket) and the connection: again any socket at the path will
\* do, if someone listens.
Connect(v) ==
  /\ dst[v] = "qmpWait"
  /\ monitor[sandbox[v]] # "none" /\ vm[monitor[sandbox[v]]] \in Alive
  /\ dst' = [dst EXCEPT ![v] = "transfer"]
  /\ peer' = [peer EXCEPT ![v] = monitor[sandbox[v]]]
  /\ UNCHANGED <<vm, sandbox, pidfile, noted, meta, cgdirs, moved, replayVars>>

\* A timeout or an error before the guest runs here; later the process may be killed.
\* Without a command line nothing was started that the container's end would collect.
Fails(v) ==
  /\ dst[v] \notin {"leaving", "exited"}
  /\ dst' = [dst EXCEPT ![v] = IF @ = "fetch" THEN "exited" ELSE "leaving"]
  /\ UNCHANGED <<vm, sandbox, peer, pidfile, noted, meta, cgdirs, moved, replayVars>>

\* virtiofsd goes with the container: only the QEMU was moved out.
ContainerGone(v) ==
  /\ ContainerExit(v)
  /\ fsd' = [fsd EXCEPT ![v] = "dead"]
  /\ UNCHANGED <<monitor, vhost, overlaps>>

\* Somebody cleans up a directory in which nothing runs.
SandboxRemoved(s) ==
  /\ meta[s] # "nodir"
  /\ \A v \in Vms : sandbox[v] = s => ~Inside(v) /\ vm[v] \in {"absent", "dead"}
  /\ meta' = [meta EXCEPT ![s] = "nodir"]
  /\ pidfile' = [pidfile EXCEPT ![s] = "none"]
  /\ monitor' = [monitor EXCEPT ![s] = "none"]
  /\ vhost' = [vhost EXCEPT ![s] = "none"]
  /\ UNCHANGED <<vm, sandbox, dst, peer, noted, cgdirs, moved, fsd, overlaps>>

RunDestination(v) ==
  \/ Prepare(v) \/ StartQEMU(v) \/ Connect(v) \/ Fails(v)
  \/ /\ Resumed(v) \/ ReadPid(v) \/ MetaOpened(v) \/ MetaWritten(v) \/ MakeCgroup(v) \/ MoveQEMU(v)
     /\ UNCHANGED replayVars

NodeStep ==
  \/ \E v \in Vms :
       RunDestination(v) \/ VirtiofsdUp(v) \/ QemuUp(v) \/ QemuEnds(v) \/ ContainerGone(v)
  \/ \E s \in Sandboxes : SandboxRemoved(s)
=============================================================================
