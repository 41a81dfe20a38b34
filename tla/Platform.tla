------------------------------ MODULE Platform ------------------------------
(***************************************************************************)
(* What the two katamaran binaries act upon: the source and destination    *)
(* QEMU processes as QMP shows them, the sch_plug qdisc on the destination *)
(* tap, the IP tunnel on the source node, and the packets of the guest's   *)
(* clients.  None of it is code of this repository; it is modelled from    *)
(* the commands RunSource and RunDestination send and the replies and      *)
(* events they wait for.                                                   *)
(***************************************************************************)
EXTENDS Naturals, FiniteSets

CONSTANTS
  Drives,        \* the block devices of the VM (cfg.DriveIDs)
  SharedStorage, \* cfg.SharedStorage: no drive is mirrored
  Packets,       \* packets addressed to the VM during the migration
  TapIface,      \* cfg.TapIface names a tap on the destination
  PlugLimit,     \* packets the plug qdisc holds (plugQdiscLimit)
  MirrorsMayFail \* may a mirror job break while its export is up?

ASSUME PlatformAssumption ==
  /\ IsFiniteSet(Drives)
  /\ IsFiniteSet(Packets)
  /\ PlugLimit \in Nat
  /\ TapIface \in BOOLEAN
  /\ SharedStorage \in BOOLEAN
  /\ MirrorsMayFail \in BOOLEAN
  /\ SharedStorage <=> Drives = {}

VARIABLES
  job,       \* query-block-jobs on the source: state of the mirror of a drive
  current,   \* drives whose destination image equals the source image
  faulted,   \* drives whose mirror broke by itself
  ram,       \* status of query-migrate on the source
  srcVM,     \* the source guest; "gone" when its QEMU has exited
  stopEvt,   \* the STOP event: not sent, in the socket, in the client's buffer
  dstVM,     \* the destination guest
  incoming,  \* is the incoming-migration listener open?
  exports,   \* drives the destination NBD server exports
  resumeEvt, \* is a RESUME event waiting for the destination's client?
  qdisc,     \* the plug qdisc on the destination tap
  tunnel,    \* the tunnel interface on the source node
  path,      \* the node the network delivers the VM's packets to
  pkt        \* where each packet is

storageVars == <<job, current, faulted>>
ramVars     == <<ram, srcVM, stopEvt>>
dstVars     == <<dstVM, incoming, exports, resumeEvt>>
netVars     == <<qdisc, tunnel, path, pkt>>
platformVars == <<storageVars, ramVars, dstVars, netVars>>

JobStates == {"absent", "running", "ready", "concluded"}
RamStates == {"none", "active", "completed", "failed", "cancelled"}
PktStates == {"unsent", "srcTap", "queued", "delivered",
              "lostAtSource", "lostOverflow", "lostUnplugged", "lostFlushed"}

PlatformTypeOK ==
  /\ job \in [Drives -> JobStates]
  /\ current \subseteq Drives
  /\ faulted \subseteq Drives
  /\ ram \in RamStates
  /\ srcVM \in {"running", "paused", "gone"}
  /\ stopEvt \in {"none", "socket", "buffered"}
  /\ dstVM \in {"waiting", "loaded", "running", "dead"}
  /\ incoming \in BOOLEAN
  /\ exports \subseteq Drives
  /\ resumeEvt \in BOOLEAN
  /\ qdisc \in {"none", "open", "blocked"}
  /\ tunnel \in {"absent", "created", "up", "routed"}
  /\ path \in {"src", "dst"}
  /\ pkt \in [Packets -> PktStates]

\* A qdisc may be left over from an earlier run.
PlatformInit ==
  /\ job = [d \in Drives |-> "absent"]
  /\ current = {}
  /\ faulted = {}
  /\ ram = "none"
  /\ srcVM = "running"
  /\ stopEvt = "none"
  /\ dstVM = "waiting"
  /\ incoming = FALSE
  /\ exports = {}
  /\ resumeEvt = FALSE
  /\ qdisc \in IF TapIface THEN {"none", "open", "blocked"} ELSE {"none"}
  /\ tunnel = "absent"
  /\ path = "src"
  /\ pkt = [p \in Packets |-> "unsent"]

-----------------------------------------------------------------------------
(* Storage.                                                                *)

\* Once the guest runs, only a ready mirror keeps a destination image equal.
Follow(images, jobs, vm) ==
  IF vm = "running" THEN {d \in images : jobs[d] = "ready"} ELSE images

\* The effect of drive-mirror and of block-job-cancel force=true.
DriveMirrorStarts(d) == job' = [job EXCEPT ![d] = "running"]

BlockJobCancelled(d) ==
  /\ job' = [job EXCEPT ![d] = "absent"]
  /\ current' = Follow(current, job', srcVM)

MirrorReady(d) ==
  /\ job[d] = "running"
  /\ d \in exports
  /\ job' = [job EXCEPT ![d] = "ready"]
  /\ current' = current \cup {d}
  /\ UNCHANGED <<faulted, ramVars, dstVars, netVars>>

\* A job that ends is dismissed, or stays listed as concluded for a while.
MirrorFails(d) ==
  /\ job[d] \in {"running", "ready"}
  /\ d \in exports => MirrorsMayFail
  /\ \E s \in {"absent", "concluded"} : job' = [job EXCEPT ![d] = s]
  /\ current' = Follow(current, job', srcVM)
  /\ faulted' = IF d \in exports THEN faulted \cup {d} ELSE faulted
  /\ UNCHANGED <<ramVars, dstVars, netVars>>

-----------------------------------------------------------------------------
(* RAM migration.                                                          *)

\* Packets that waited in the tap of the paused source guest.
SrcTapBecomes(s) ==
  pkt' = [p \in Packets |-> IF pkt[p] = "srcTap" THEN s ELSE pkt[p]]

\* The effect of migrate: a refused connection shows as status failed.
MigrateStarts ==
  ram' = IF incoming /\ dstVM = "waiting" THEN "active" ELSE "failed"

\* The migration ends without handover: the source guest runs on, and the
\* destination QEMU, whose stream was cut, exits.
HandoverAborted(status) ==
  /\ ram' = status
  /\ srcVM' = "running"
  /\ current' = Follow(current, job, "running")
  /\ dstVM' = "dead"
  /\ exports' = {}
  /\ incoming' = FALSE
  /\ SrcTapBecomes("delivered")

RamPause ==
  /\ ram = "active" /\ srcVM = "running"
  /\ srcVM' = "paused"
  /\ stopEvt' = "socket"
  /\ UNCHANGED <<storageVars, ram, dstVars, netVars>>

RamComplete ==
  /\ ram = "active" /\ srcVM = "paused" /\ dstVM = "waiting"
  /\ ram' = "completed"
  /\ dstVM' = "loaded"
  /\ incoming' = FALSE
  /\ SrcTapBecomes("lostAtSource")
  /\ UNCHANGED <<storageVars, srcVM, stopEvt, exports, resumeEvt,
                 qdisc, tunnel, path>>

DstResume ==
  /\ dstVM = "loaded"
  /\ dstVM' = "running"
  /\ resumeEvt' = TRUE
  /\ UNCHANGED <<storageVars, ramVars, incoming, exports, netVars>>

RamFail ==
  /\ ram = "active"
  /\ HandoverAborted("failed")
  /\ UNCHANGED <<job, faulted, stopEvt, resumeEvt, qdisc, tunnel, path>>

\* The source QEMU exits: kata-shim tears it down, or it crashes.
SrcExit ==
  /\ srcVM # "gone"
  /\ srcVM' = "gone"
  /\ job' = [d \in Drives |-> "absent"]
  /\ ram' = IF ram = "active" THEN "failed" ELSE ram
  /\ dstVM' = IF ram = "active" THEN "dead" ELSE dstVM
  /\ exports' = IF ram = "active" THEN {} ELSE exports
  /\ incoming' = IF ram = "active" THEN FALSE ELSE incoming
  /\ SrcTapBecomes("lostAtSource")
  /\ UNCHANGED <<current, faulted, stopEvt, resumeEvt, qdisc, tunnel, path>>

-----------------------------------------------------------------------------
(* Packets.                                                                *)

Queued == {p \in Packets : pkt[p] = "queued"}

AtDestTap ==
  IF qdisc = "blocked"
  THEN IF Cardinality(Queued) < PlugLimit THEN "queued" ELSE "lostOverflow"
  ELSE IF dstVM = "running" THEN "delivered" ELSE "lostUnplugged"

AtSource ==
  IF tunnel = "routed" THEN AtDestTap
  ELSE IF srcVM = "running" THEN "delivered"
  ELSE IF srcVM = "paused" /\ ram = "active" THEN "srcTap" ELSE "lostAtSource"

\* Packets differ only in where they are: the next one is any unsent one.
Send(p) ==
  /\ pkt[p] = "unsent"
  /\ p = CHOOSE q \in Packets : pkt[q] = "unsent"
  /\ pkt' = [pkt EXCEPT ![p] = IF path = "src" THEN AtSource ELSE AtDestTap]
  /\ UNCHANGED <<storageVars, ramVars, dstVars, qdisc, tunnel, path>>

\* Switches and the CNI learn where the running guest is.
Converge ==
  /\ path = "src" /\ dstVM = "running"
  /\ path' = "dst"
  /\ UNCHANGED <<storageVars, ramVars, dstVars, qdisc, tunnel, pkt>>

\* tc qdisc del dev TAP root: packets still buffered are freed.
QdiscDeleted ==
  /\ qdisc' = "none"
  /\ pkt' = [p \in Packets |->
               IF pkt[p] = "queued" THEN "lostFlushed" ELSE pkt[p]]

\* tc qdisc change ... plug release_indefinite: the buffer goes to the tap.
QdiscReleased ==
  /\ qdisc' = "open"
  /\ pkt' = [p \in Packets |->
               IF pkt[p] # "queued" THEN pkt[p]
               ELSE IF dstVM = "running" THEN "delivered" ELSE "lostUnplugged"]

PlatformNext ==
  \/ \E d \in Drives : MirrorReady(d) \/ MirrorFails(d)
  \/ RamPause \/ RamComplete \/ DstResume \/ RamFail \/ SrcExit
  \/ \E p \in Packets : Send(p)
  \/ Converge
=============================================================================
