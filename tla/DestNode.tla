------------------------------ MODULE DestNode ------------------------------
(***************************************************************************)
(* The destination node after a migration: the last two calls of           *)
(* RunDestination, writeMigrationMeta and surviveContainerExit             *)
(* (internal/migration/dest.go), which leave the migrated QEMU where the   *)
(* factory and the adopting shim look for it.  A member of Vms stands for  *)
(* one destination Job and for the QEMU of its container.  Both calls know *)
(* the QEMU only by the pid file beside the QMP socket.  A QEMU is in a    *)
(* surviving cgroup when it is in `moved'; the cgroup is the one of its    *)
(* sandbox.                                                                *)
(***************************************************************************)
EXTENDS Naturals, FiniteSets

CONSTANTS
  Vms,        \* destination Jobs of this node, each with its QEMU
  Sandboxes   \* sandbox ids: directories of /run/vc/vm

ASSUME NodeAssumption ==
  Vms \cap {"none", "nopid", "nodir", "absent", "partial"} = {}

VARIABLES
  vm,       \* "absent", "starting", "incoming", "running" or "dead"
  sandbox,  \* the sandbox id whose QMP socket the QEMU serves
  dst,      \* where RunDestination is, for each Job
  peer,     \* the QEMU at the other end of its QMP connection
  pidfile,  \* the pid file of a sandbox
  noted,    \* the pid in the hands of RunDestination
  meta,     \* migration-meta.json of a sandbox: a QEMU, or what is there instead
  cgdirs,   \* directories of adoptedCgroupRoot
  moved     \* QEMUs listed in the cgroup.procs of their directory

nodeVars == <<vm, sandbox, dst, peer, pidfile, noted, meta, cgdirs, moved>>

NoMeta == {"nodir", "absent", "partial"}
Alive  == {"starting", "incoming", "running"}

NodeInit ==
  /\ sandbox \in [Vms -> Sandboxes]
  /\ noted = [v \in Vms |-> "none"]
  /\ cgdirs = {} /\ moved = {}

NodeTypeOK ==
  /\ vm \in [Vms -> Alive \cup {"absent", "dead"}]
  /\ sandbox \in [Vms -> Sandboxes]
  /\ dst \in [Vms -> {"fetch", "fsWait", "qmpWait", "transfer", "resumed", "noted",
                      "writing", "written", "mkdir", "leaving", "exited"}]
  /\ peer \in [Vms -> Vms \cup {"none"}]
  /\ pidfile \in [Sandboxes -> Vms \cup {"none"}]
  /\ noted \in [Vms -> Vms \cup {"none"}]
  /\ meta \in [Sandboxes -> NoMeta \cup Vms \cup {"nopid"}]
  /\ cgdirs \subseteq Sandboxes
  /\ moved \subseteq {v \in Vms : vm[v] \in Alive /\ sandbox[v] \in cgdirs}

Procs(s) == {v \in moved : sandbox[v] = s}

\* The migration has handed over: everything above the two calls is the
\* business of Destination.
Resumed(v) ==
  /\ dst[v] = "transfer" /\ vm[peer[v]] = "incoming"
  /\ dst' = [dst EXCEPT ![v] = "resumed"]
  /\ vm' = [vm EXCEPT ![peer[v]] = "running"]
  /\ UNCHANGED <<sandbox, peer, pidfile, noted, meta, cgdirs, moved>>

\* A pid file that cannot be read only makes the pid in the file zero.
ReadPid(v) ==
  /\ dst[v] = "resumed"
  /\ dst' = [dst EXCEPT ![v] = "noted"]
  /\ \E p \in {pidfile[sandbox[v]], "none"} : noted' = [noted EXCEPT ![v] = p]
  /\ UNCHANGED <<vm, sandbox, peer, pidfile, meta, cgdirs, moved>>

\* os.WriteFile opens and truncates, then writes: a reader can come between.
MetaOpened(v) ==
  /\ dst[v] = "noted"
  /\ \/ /\ dst' = [dst EXCEPT ![v] = "writing"]
        /\ meta' = [meta EXCEPT ![sandbox[v]] = "partial"]
     \/ /\ dst' = [dst EXCEPT ![v] = "written"]     \* only a warning
        /\ meta' = meta
  /\ UNCHANGED <<vm, sandbox, peer, pidfile, noted, cgdirs, moved>>

MetaWritten(v) ==
  /\ dst[v] = "writing"
  /\ dst' = [dst EXCEPT ![v] = "written"]
  /\ meta' = [meta EXCEPT ![sandbox[v]] = IF noted[v] = "none" THEN "nopid" ELSE noted[v]]
  /\ noted' = [noted EXCEPT ![v] = "none"]
  /\ UNCHANGED <<vm, sandbox, peer, pidfile, cgdirs, moved>>

\* No readable pid file, or mkdir fails: a warning, and the QEMU stays where it is.
MakeCgroup(v) ==
  /\ dst[v] = "written"
  /\ \/ /\ pidfile[sandbox[v]] # "none"
        /\ dst' = [dst EXCEPT ![v] = "mkdir"]
        /\ noted' = [noted EXCEPT ![v] = pidfile[sandbox[v]]]
        /\ cgdirs' = cgdirs \cup {sandbox[v]}
     \/ /\ dst' = [dst EXCEPT ![v] = "leaving"]
        /\ UNCHANGED <<noted, cgdirs>>
  /\ UNCHANGED <<vm, sandbox, peer, pidfile, meta, moved>>

\* Mutant: a process that has ended is taken for moved.
MoveAnyPid(v) ==
  /\ dst[v] = "mkdir"
  /\ dst' = [dst EXCEPT ![v] = "leaving"]
  /\ moved' = IF sandbox[v] \in cgdirs THEN moved \cup {noted[v]} ELSE moved
  /\ UNCHANGED <<vm, sandbox, peer, pidfile, noted, meta, cgdirs>>

\* The write of cgroup.procs fails when the directory or the process is gone.
MoveQEMU(v) ==
  /\ dst[v] = "mkdir"
  /\ dst' = [dst EXCEPT ![v] = "leaving"]
  /\ moved' = IF sandbox[v] \in cgdirs /\ vm[noted[v]] \in Alive
              THEN moved \cup {noted[v]} ELSE moved
  /\ UNCHANGED <<vm, sandbox, peer, pidfile, noted, meta, cgdirs>>

\* The kubelet collects the container's cgroup, and the QEMU if it is still in it.
ContainerExit(v) ==
  /\ dst[v] = "leaving"
  /\ dst' = [dst EXCEPT ![v] = "exited"]
  /\ peer' = [peer EXCEPT ![v] = "none"] /\ noted' = [noted EXCEPT ![v] = "none"]
  /\ vm' = [vm EXCEPT ![v] = IF v \in moved THEN @ ELSE "dead"]
  /\ UNCHANGED <<sandbox, pidfile, meta, cgdirs, moved>>

DestTail(v) ==
  \/ Resumed(v) \/ ReadPid(v) \/ MetaOpened(v) \/ MetaWritten(v)
  \/ MakeCgroup(v) \/ MoveQEMU(v) \/ ContainerExit(v)
=============================================================================
