----------------------------- MODULE NodeProofs -----------------------------
(***************************************************************************)
(* Proofs about Node for any number of Jobs, sandboxes and restarts of the *)
(* factory: every variable has its type, a Job that is alone in its        *)
(* sandbox never deals with another Job's QEMU, a factory process never    *)
(* serves a QEMU twice, and no meta file is passed over without a reason.  *)
(* Then, for logs and command lines of every length, what a Job makes of   *)
(* the source pod's log and of the command line it finds there.            *)
(***************************************************************************)
EXTENDS Node, WellFoundedInduction, TLAPS

-----------------------------------------------------------------------------
(* The inductive invariant *)

Never == {"absent", "starting"}   \* QEMUs that have not come up

\* What names a QEMU in a sandbox names one of that sandbox which has come up; a pid
\* is held by a Job that is still inside.
PidInv ==
  /\ \A s \in Sandboxes :
       pidfile[s] # "none" => sandbox[pidfile[s]] = s /\ vm[pidfile[s]] \notin Never
  /\ \A s \in Sandboxes :
       meta[s] \in Vms => sandbox[meta[s]] = s /\ vm[meta[s]] \notin Never
  /\ \A v \in Vms :
       noted[v] # "none" =>
         /\ sandbox[noted[v]] = sandbox[v] /\ vm[noted[v]] \notin Never
         /\ Inside(v)
  /\ \A v \in Vms : dst[v] = "mkdir" => noted[v] # "none"
  /\ \A v \in moved : vm[v] \notin Never

\* In a directory that does not exist nothing is named and nothing runs.
DirInv ==
  /\ \A v \in Vms :
       /\ Inside(v) => meta[sandbox[v]] # "nodir"
       /\ vm[v] \in Alive => meta[sandbox[v]] # "nodir"
       /\ dst[v] \in {"fetch", "fsWait"} => vm[v] = "absent"
       /\ vm[v] = "starting" => Inside(v)
       /\ meta[sandbox[v]] = "nodir" => noted[v] = "none"
  /\ \A s \in Sandboxes : meta[s] = "nodir" => pidfile[s] = "none"

\* As long as a Job is alone in its sandbox, the monitor socket is its QEMU's, and
\* from then on so is the pid file.
SoloInv ==
  \A v \in Vms :
    /\ dst[v] = "fetch" => peer[v] = "none" /\ noted[v] = "none"
    /\ (v \notin overlaps /\ Inside(v)) =>
         /\ Others(v) = {}
         /\ dst[v] # "leaving" => monitor[sandbox[v]] \in {v, "none"}
         /\ dst[v] \notin {"fsWait", "qmpWait", "leaving"} => peer[v] = v
         /\ (peer[v] = v \/ (dst[v] # "leaving" /\ monitor[sandbox[v]] = v)) =>
              pidfile[sandbox[v]] \in {v, "none"}

\* Nothing names the QEMU any more, nor will.
Gone ==
  {v \in Vms : /\ vm[v] = "dead" /\ pidfile[sandbox[v]] # v /\ meta[sandbox[v]] # v
               /\ \A w \in Vms : noted[w] # v}

Known == {v \in Vms : served[v] # 0 \/ v \in Queued}

\* What was offered has come up, and the watcher will not read its file again.
OfferInv ==
  \A v \in Known :
    /\ vm[v] \notin Never
    /\ v \in Gone \/ (sandbox[v] \in seen /\ (scanning => sandbox[v] \in current))

\* What the watcher will not read again, it has read complete, or missed.
SeenInv ==
  \A s \in seen \ missed :
    /\ meta[s] \notin NoMeta
    /\ meta[s] \in Vms => served[meta[s]] > 0 \/ meta[s] \in Queued

IInv == TypeOK /\ PidInv /\ DirInv /\ SoloInv /\ OwnQEMU /\ ServedOnce /\ OfferInv
        /\ SeenInv

\* A step of the Jobs, with what becomes of the history.
JobStep == NodeStep /\ missed' = MissedChanges /\ UNCHANGED factoryVars

\* A step of the factory likewise.
ProcessStep == FactoryStep /\ missed' = MissedReads /\ UNCHANGED replayVars

-----------------------------------------------------------------------------
(* The steps of the Jobs *)

\* They keep the types.
LEMMA JobTypes ==
  ASSUME TypeOK, PidInv, JobStep PROVE ReplayTypeOK'
<1> USE NodeAssumption DEF TypeOK, ReplayTypeOK, NodeTypeOK, Alive, NoMeta, nodeVars, replayVars, PidInv, Never
<1>1. ASSUME NEW v \in Vms, Prepare(v) PROVE ReplayTypeOK'
  BY <1>1 DEF Prepare, Others
<1>2. ASSUME NEW v \in Vms, StartQEMU(v) PROVE ReplayTypeOK'
  BY <1>2 DEF StartQEMU
<1>3. ASSUME NEW v \in Vms, Connect(v) PROVE ReplayTypeOK'
  BY <1>3 DEF Connect
<1>4. ASSUME NEW v \in Vms, Fails(v) PROVE ReplayTypeOK'
  BY <1>4 DEF Fails
<1>5. ASSUME NEW v \in Vms, Resumed(v), UNCHANGED replayVars PROVE ReplayTypeOK'
  BY <1>5, Zenon DEF Resumed
<1>6. ASSUME NEW v \in Vms, ReadPid(v), UNCHANGED replayVars PROVE ReplayTypeOK'
  BY <1>6 DEF ReadPid
<1>7. ASSUME NEW v \in Vms, MetaOpened(v), UNCHANGED replayVars PROVE ReplayTypeOK'
  BY <1>7 DEF MetaOpened
<1>8. ASSUME NEW v \in Vms, MetaWritten(v), UNCHANGED replayVars PROVE ReplayTypeOK'
  BY <1>8 DEF MetaWritten
<1>9. ASSUME NEW v \in Vms, MakeCgroup(v), UNCHANGED replayVars PROVE ReplayTypeOK'
  BY <1>9 DEF MakeCgroup
<1>10. ASSUME NEW v \in Vms, MoveQEMU(v), UNCHANGED replayVars PROVE ReplayTypeOK'
  BY <1>10 DEF MoveQEMU
<1>11. ASSUME NEW v \in Vms, VirtiofsdUp(v) PROVE ReplayTypeOK'
  BY <1>11 DEF VirtiofsdUp
<1>12. ASSUME NEW v \in Vms, QemuUp(v) PROVE ReplayTypeOK'
  BY <1>12 DEF QemuUp
<1>13. ASSUME NEW v \in Vms, QemuEnds(v) PROVE ReplayTypeOK'
  BY <1>13 DEF QemuEnds
<1>14. ASSUME NEW v \in Vms, ContainerGone(v) PROVE ReplayTypeOK'
  BY <1>14 DEF ContainerGone, ContainerExit
<1>15. ASSUME NEW s \in Sandboxes, SandboxRemoved(s) PROVE ReplayTypeOK'
  BY <1>15 DEF SandboxRemoved
<1> QED
  BY Zenon, <1>1, <1>2, <1>3, <1>4, <1>5, <1>6, <1>7, <1>8,
     <1>9, <1>10, <1>11, <1>12, <1>13, <1>14, <1>15
     DEF JobStep, NodeStep, RunDestination

\* They keep what pid files, metas and Jobs name.
LEMMA JobPids ==
  ASSUME TypeOK, PidInv, DirInv, JobStep PROVE PidInv'
<1> USE NodeAssumption DEF TypeOK, ReplayTypeOK, NodeTypeOK, Alive, NoMeta, nodeVars, replayVars, PidInv, DirInv, Never, Inside
<1>1. ASSUME NEW v \in Vms, Prepare(v) PROVE PidInv'
  BY <1>1 DEF Prepare
<1>2. ASSUME NEW v \in Vms, StartQEMU(v) PROVE PidInv'
  BY <1>2 DEF StartQEMU
<1>3. ASSUME NEW v \in Vms, Connect(v) PROVE PidInv'
  BY <1>3 DEF Connect
<1>4. ASSUME NEW v \in Vms, Fails(v) PROVE PidInv'
  BY <1>4 DEF Fails
<1>5. ASSUME NEW v \in Vms, Resumed(v), UNCHANGED replayVars PROVE PidInv'
  BY <1>5 DEF Resumed
<1>6. ASSUME NEW v \in Vms, ReadPid(v), UNCHANGED replayVars PROVE PidInv'
  BY <1>6 DEF ReadPid
<1>7. ASSUME NEW v \in Vms, MetaOpened(v), UNCHANGED replayVars PROVE PidInv'
  BY <1>7 DEF MetaOpened
<1>8. ASSUME NEW v \in Vms, MetaWritten(v), UNCHANGED replayVars PROVE PidInv'
  BY <1>8 DEF MetaWritten
<1>9. ASSUME NEW v \in Vms, MakeCgroup(v), UNCHANGED replayVars PROVE PidInv'
  BY <1>9 DEF MakeCgroup
<1>10. ASSUME NEW v \in Vms, MoveQEMU(v), UNCHANGED replayVars PROVE PidInv'
  BY <1>10 DEF MoveQEMU
<1>11. ASSUME NEW v \in Vms, VirtiofsdUp(v) PROVE PidInv'
  BY <1>11, Zenon DEF VirtiofsdUp
<1>12. ASSUME NEW v \in Vms, QemuUp(v) PROVE PidInv'
  BY <1>12 DEF QemuUp
<1>13. ASSUME NEW v \in Vms, QemuEnds(v) PROVE PidInv'
  BY <1>13 DEF QemuEnds
<1>14. ASSUME NEW v \in Vms, ContainerGone(v) PROVE PidInv'
  BY <1>14 DEF ContainerGone, ContainerExit
<1>15. ASSUME NEW s \in Sandboxes, SandboxRemoved(s) PROVE PidInv'
  <2>1. UNCHANGED <<vm, sandbox, dst, noted, moved>>
    BY <1>15, Zenon DEF SandboxRemoved
  <2>2. ASSUME NEW t \in Sandboxes PROVE pidfile'[t] = pidfile[t] \/ pidfile'[t] = "none"
    BY <1>15 DEF SandboxRemoved
  <2>3. ASSUME NEW t \in Sandboxes PROVE meta'[t] = meta[t] \/ meta'[t] \notin Vms
    BY <1>15 DEF SandboxRemoved
  <2>4. /\ \A t \in Sandboxes :
             pidfile'[t] # "none" => sandbox[pidfile'[t]] = t /\ vm[pidfile'[t]] \notin Never
        /\ \A t \in Sandboxes :
             meta'[t] \in Vms => sandbox[meta'[t]] = t /\ vm[meta'[t]] \notin Never
    <3> HIDE NodeAssumption DEF TypeOK, ReplayTypeOK, NodeTypeOK, DirInv, Never
    <3> QED BY <2>2, <2>3, ZenonT(40)
  <2> HIDE NodeAssumption DEF TypeOK, ReplayTypeOK, NodeTypeOK, DirInv, Never
  <2> QED BY <2>1, <2>4, Zenon
<1> QED
  BY Zenon, <1>1, <1>2, <1>3, <1>4, <1>5, <1>6, <1>7, <1>8,
     <1>9, <1>10, <1>11, <1>12, <1>13, <1>14, <1>15
     DEF JobStep, NodeStep, RunDestination

\* They keep the directories they use.
LEMMA JobDirs ==
  ASSUME TypeOK, PidInv, DirInv, JobStep PROVE DirInv'
<1> USE NodeAssumption DEF TypeOK, ReplayTypeOK, NodeTypeOK, Alive, NoMeta, nodeVars, replayVars, PidInv, DirInv, Never, Inside
<1>1. ASSUME NEW v \in Vms, Prepare(v) PROVE DirInv'
  BY <1>1 DEF Prepare
<1>2. ASSUME NEW v \in Vms, StartQEMU(v) PROVE DirInv'
  BY <1>2 DEF StartQEMU
<1>3. ASSUME NEW v \in Vms, Connect(v) PROVE DirInv'
  BY <1>3 DEF Connect
<1>4. ASSUME NEW v \in Vms, Fails(v) PROVE DirInv'
  BY <1>4 DEF Fails
<1>5. ASSUME NEW v \in Vms, Resumed(v), UNCHANGED replayVars PROVE DirInv'
  BY <1>5 DEF Resumed
<1>6. ASSUME NEW v \in Vms, ReadPid(v), UNCHANGED replayVars PROVE DirInv'
  BY <1>6 DEF ReadPid
<1>7. ASSUME NEW v \in Vms, MetaOpened(v), UNCHANGED replayVars PROVE DirInv'
  BY <1>7 DEF MetaOpened
<1>8. ASSUME NEW v \in Vms, MetaWritten(v), UNCHANGED replayVars PROVE DirInv'
  BY <1>8 DEF MetaWritten
<1>9. ASSUME NEW v \in Vms, MakeCgroup(v), UNCHANGED replayVars PROVE DirInv'
  BY <1>9 DEF MakeCgroup
<1>10. ASSUME NEW v \in Vms, MoveQEMU(v), UNCHANGED replayVars PROVE DirInv'
  BY <1>10 DEF MoveQEMU
<1>11. ASSUME NEW v \in Vms, VirtiofsdUp(v) PROVE DirInv'
  BY <1>11, Zenon DEF VirtiofsdUp
<1>12. ASSUME NEW v \in Vms, QemuUp(v) PROVE DirInv'
  BY <1>12 DEF QemuUp
<1>13. ASSUME NEW v \in Vms, QemuEnds(v) PROVE DirInv'
  BY <1>13 DEF QemuEnds
<1>14. ASSUME NEW v \in Vms, ContainerGone(v) PROVE DirInv'
  BY <1>14 DEF ContainerGone, ContainerExit
<1>15. ASSUME NEW s \in Sandboxes, SandboxRemoved(s) PROVE DirInv'
  BY <1>15, SMTT(30) DEF SandboxRemoved
<1> QED
  BY <1>1, <1>2, <1>3, <1>4, <1>5, <1>6, <1>7, <1>8,
     <1>9, <1>10, <1>11, <1>12, <1>13, <1>14, <1>15
     DEF JobStep, NodeStep, RunDestination

\* They keep a Job that is alone to itself.
LEMMA JobSolo ==
  ASSUME TypeOK, PidInv, DirInv, SoloInv, OwnQEMU, JobStep PROVE SoloInv' /\ OwnQEMU'
<1> USE NodeAssumption DEF TypeOK, ReplayTypeOK, NodeTypeOK, Alive, NoMeta, nodeVars, replayVars, PidInv, DirInv, SoloInv, OwnQEMU, Never, Inside, Others
<1>1. ASSUME NEW v \in Vms, Prepare(v) PROVE SoloInv' /\ OwnQEMU'
  BY <1>1 DEF Prepare
<1>2. ASSUME NEW v \in Vms, StartQEMU(v) PROVE SoloInv' /\ OwnQEMU'
  BY <1>2 DEF StartQEMU
<1>3. ASSUME NEW v \in Vms, Connect(v) PROVE SoloInv' /\ OwnQEMU'
  BY <1>3 DEF Connect
<1>4. ASSUME NEW v \in Vms, Fails(v) PROVE SoloInv' /\ OwnQEMU'
  BY <1>4 DEF Fails
<1>5. ASSUME NEW v \in Vms, Resumed(v), UNCHANGED replayVars PROVE SoloInv' /\ OwnQEMU'
  BY <1>5 DEF Resumed
<1>6. ASSUME NEW v \in Vms, ReadPid(v), UNCHANGED replayVars PROVE SoloInv' /\ OwnQEMU'
  BY <1>6 DEF ReadPid
<1>7. ASSUME NEW v \in Vms, MetaOpened(v), UNCHANGED replayVars PROVE SoloInv' /\ OwnQEMU'
  BY <1>7 DEF MetaOpened
<1>8. ASSUME NEW v \in Vms, MetaWritten(v), UNCHANGED replayVars PROVE SoloInv' /\ OwnQEMU'
  BY <1>8 DEF MetaWritten
<1>9. ASSUME NEW v \in Vms, MakeCgroup(v), UNCHANGED replayVars PROVE SoloInv' /\ OwnQEMU'
  BY <1>9, SMTT(30) DEF MakeCgroup
<1>10. ASSUME NEW v \in Vms, MoveQEMU(v), UNCHANGED replayVars PROVE SoloInv' /\ OwnQEMU'
  BY <1>10 DEF MoveQEMU
<1>11. ASSUME NEW v \in Vms, VirtiofsdUp(v) PROVE SoloInv' /\ OwnQEMU'
  BY <1>11 DEF VirtiofsdUp
<1>12. ASSUME NEW v \in Vms, QemuUp(v) PROVE SoloInv' /\ OwnQEMU'
  BY <1>12 DEF QemuUp
<1>13. ASSUME NEW v \in Vms, QemuEnds(v) PROVE SoloInv' /\ OwnQEMU'
  BY <1>13 DEF QemuEnds
<1>14. ASSUME NEW v \in Vms, ContainerGone(v) PROVE SoloInv' /\ OwnQEMU'
  BY <1>14 DEF ContainerGone, ContainerExit
<1>15. ASSUME NEW s \in Sandboxes, SandboxRemoved(s) PROVE SoloInv' /\ OwnQEMU'
  BY <1>15, SMTT(30) DEF SandboxRemoved
<1> QED
  BY Zenon, <1>1, <1>2, <1>3, <1>4, <1>5, <1>6, <1>7, <1>8,
     <1>9, <1>10, <1>11, <1>12, <1>13, <1>14, <1>15
     DEF JobStep, NodeStep, RunDestination

\* What was offered stays out of the watcher's reach.
LEMMA JobOffers ==
  ASSUME TypeOK, PidInv, DirInv, OfferInv, JobStep PROVE OfferInv'
<1> USE NodeAssumption DEF TypeOK, ReplayTypeOK, NodeTypeOK, Alive, NoMeta, nodeVars, replayVars, PidInv, DirInv, OfferInv, Gone, Known, Queued, Never, Inside,
       JobStep, factoryVars
<1>1. ASSUME NEW v \in Vms, Prepare(v) PROVE OfferInv'
  BY <1>1 DEF Prepare
<1>2. ASSUME NEW v \in Vms, StartQEMU(v) PROVE OfferInv'
  BY <1>2 DEF StartQEMU
<1>3. ASSUME NEW v \in Vms, Connect(v) PROVE OfferInv'
  BY <1>3 DEF Connect
<1>4. ASSUME NEW v \in Vms, Fails(v) PROVE OfferInv'
  BY <1>4 DEF Fails
<1>5. ASSUME NEW v \in Vms, Resumed(v), UNCHANGED replayVars PROVE OfferInv'
  BY <1>5 DEF Resumed
<1>6. ASSUME NEW v \in Vms, ReadPid(v), UNCHANGED replayVars PROVE OfferInv'
  BY <1>6 DEF ReadPid
<1>7. ASSUME NEW v \in Vms, MetaOpened(v), UNCHANGED replayVars PROVE OfferInv'
  BY <1>7 DEF MetaOpened
<1>8. ASSUME NEW v \in Vms, MetaWritten(v), UNCHANGED replayVars PROVE OfferInv'
  BY <1>8 DEF MetaWritten
<1>9. ASSUME NEW v \in Vms, MakeCgroup(v), UNCHANGED replayVars PROVE OfferInv'
  BY <1>9 DEF MakeCgroup
<1>10. ASSUME NEW v \in Vms, MoveQEMU(v), UNCHANGED replayVars PROVE OfferInv'
  BY <1>10 DEF MoveQEMU
<1>11. ASSUME NEW v \in Vms, VirtiofsdUp(v) PROVE OfferInv'
  BY <1>11 DEF VirtiofsdUp
<1>12. ASSUME NEW v \in Vms, QemuUp(v) PROVE OfferInv'
  BY <1>12 DEF QemuUp
<1>13. ASSUME NEW v \in Vms, QemuEnds(v) PROVE OfferInv'
  BY <1>13 DEF QemuEnds
<1>14. ASSUME NEW v \in Vms, ContainerGone(v) PROVE OfferInv'
  BY <1>14 DEF ContainerGone, ContainerExit
<1>15. ASSUME NEW s \in Sandboxes, SandboxRemoved(s) PROVE OfferInv'
  BY <1>15 DEF SandboxRemoved
<1> QED
  BY ZenonT(40), <1>1, <1>2, <1>3, <1>4, <1>5, <1>6, <1>7, <1>8,
     <1>9, <1>10, <1>11, <1>12, <1>13, <1>14, <1>15
     DEF JobStep, NodeStep, RunDestination

-----------------------------------------------------------------------------
(* The steps of the factory *)

\* The domain of a queue, before and after each of its operations.
LEMMA QueueDomains ==
  ASSUME NEW S, NEW q \in Seq(S)
  PROVE  /\ DOMAIN <<>> = {}
         /\ Len(q) \in Nat /\ DOMAIN q = 1 .. Len(q)
         /\ \A x \in S : /\ DOMAIN Append(q, x) = 1 .. (Len(q) + 1)
                         /\ Append(q, x)[Len(q) + 1] = x
                         /\ \A i \in 1 .. Len(q) : Append(q, x)[i] = q[i]
         /\ q # <<>> => /\ Len(q) >= 1 /\ Head(q) = q[1]
                        /\ DOMAIN Tail(q) = 1 .. (Len(q) - 1)
                        /\ \A i \in 1 .. (Len(q) - 1) : Tail(q)[i] = q[i + 1]
OBVIOUS

\* What the watcher offers is a QEMU, or a file without a pid.
LEMMA OffersTyped ==
  ASSUME TypeOK, NEW s \in Sandboxes, meta[s] \notin NoMeta
  PROVE  meta[s] \in Offers
BY DEF TypeOK, ReplayTypeOK, NodeTypeOK, Offers

\* They keep the types.
LEMMA ProcessTypes == ASSUME TypeOK, ProcessStep PROVE FactoryTypeOK' /\ missed' \subseteq Sandboxes
<1>0. FactoryTypeOK /\ missed \subseteq Sandboxes
  BY DEF TypeOK
<1>1. missed' \subseteq Sandboxes
  BY <1>0 DEF ProcessStep, MissedReads, FactoryTypeOK
<1> USE DEF serverVars
<1>2. up' \in BOOLEAN /\ quit' \in BOOLEAN /\ scanning' \in BOOLEAN
  BY <1>0, Zenon DEF FactoryTypeOK, ProcessStep, FactoryStep, Scan, ScanStart, ScanEnd, ScanEntry,
              GetBaseVM, Quit, FactoryStops, FactoryStarts
<1>3. /\ current' \subseteq Sandboxes /\ todo' \subseteq current'
      /\ seen' \subseteq Sandboxes /\ stops' \in 0 .. MaxStops
  <2>1. /\ current \subseteq Sandboxes /\ todo \subseteq current
        /\ seen \subseteq Sandboxes /\ stops \in 0 .. MaxStops /\ MaxStops \in Nat
    BY <1>0, FactoryAssumption DEF FactoryTypeOK
  <2>2. CASE ScanStart \/ ScanEnd
    BY <2>1, <2>2 DEF ScanStart, ScanEnd
  <2>3. ASSUME NEW s \in Sandboxes, ScanEntry(s)
        PROVE  UNCHANGED <<current, stops>> /\ todo' \subseteq todo /\ seen' \subseteq Sandboxes
    BY <2>1, <2>3 DEF ScanEntry, scanUnseen
  <2>4. CASE GetBaseVM \/ Quit \/ FactoryStarts
    BY <2>1, <2>4 DEF GetBaseVM, Quit, FactoryStarts
  <2>5. CASE FactoryStops
    BY <2>1, <2>5 DEF FactoryStops
  <2> QED
    BY <2>1, <2>2, <2>3, <2>4, <2>5 DEF ProcessStep, FactoryStep, Scan
<1>4. queue' \in Seq(Offers)
  <2>1. queue \in Seq(Offers)
    BY <1>0 DEF FactoryTypeOK
  <2>2. ASSUME NEW s \in Sandboxes, ScanEntry(s) PROVE queue' \in Seq(Offers)
    <3>1. queue' = queue \/ (meta[s] \notin NoMeta /\ queue' = Append(queue, meta[s]))
      BY <2>2 DEF ScanEntry, scanUnseen, OfferVM, NoMeta
    <3> QED
      BY <2>1, <3>1, OffersTyped
  <2>3. CASE GetBaseVM
    BY <2>1, <2>3 DEF GetBaseVM
  <2>4. CASE FactoryStops
    BY <2>4 DEF FactoryStops
  <2>5. CASE ScanStart \/ ScanEnd \/ Quit \/ FactoryStarts
    BY <2>1, <2>5, Zenon DEF ScanStart, ScanEnd, Quit, FactoryStarts
  <2> QED
    BY <2>2, <2>3, <2>4, <2>5 DEF ProcessStep, FactoryStep, Scan
<1>5. served' \in [Offers -> Nat]
  BY <1>0, SMTT(30) DEF FactoryTypeOK, ProcessStep, FactoryStep, Scan, ScanStart, ScanEnd, ScanEntry,
              GetBaseVM, Quit, FactoryStops, FactoryStarts
<1> QED
  BY <1>1, <1>2, <1>3, <1>4, <1>5 DEF FactoryTypeOK

\* Offering a QEMU that is not known, and marking its sandbox, keeps track of it.
LEMMA Offering ==
  ASSUME TypeOK, PidInv, ServedOnce, OfferInv,
         NEW s \in Sandboxes, s \notin seen, s \in todo, meta[s] \in Offers,
         OfferVM(meta[s]), seen' = seen \cup {s}, UNCHANGED <<nodeVars, served, scanning, current>>
  PROVE  ServedOnce' /\ OfferInv'
<1> DEFINE v == meta[s]
<1>1. v \in Vms => v \notin Known /\ sandbox[v] = s /\ vm[v] \notin Never
  BY NodeAssumption DEF OfferInv, PidInv, Gone
<1>2. queue \in Seq(Offers) /\ s \in current /\ served \in [Offers -> Nat]
  BY DEF TypeOK, FactoryTypeOK
<1>3. /\ Len(queue) \in Nat /\ DOMAIN queue = 1 .. Len(queue)
      /\ DOMAIN queue' = 1 .. (Len(queue) + 1) /\ queue'[Len(queue) + 1] = v
      /\ \A i \in 1 .. Len(queue) : queue'[i] = queue[i]
  BY <1>2, QueueDomains DEF OfferVM
<1>4. Queued' = Queued \cup {v}
  BY <1>3 DEF Queued
<1>5. ServedOnce'
  <2>1. \A w \in Vms : served'[w] = 0 \/ (served'[w] = 1 /\ w \notin Queued')
    BY <1>1, <1>4, Zenon DEF ServedOnce, Known
  <2>2. \A i, j \in DOMAIN queue' : queue'[i] = queue'[j] /\ queue'[i] \in Vms => i = j
    BY <1>1, <1>3 DEF ServedOnce, Known, Queued
  <2> QED
    BY <2>1, <2>2, Zenon DEF ServedOnce
<1>6. OfferInv'
  <2> SUFFICES ASSUME NEW w \in Known'
               PROVE  /\ vm'[w] \notin Never
                      /\ w \in Gone' \/ (sandbox'[w] \in seen' /\ (scanning' => sandbox'[w] \in current'))
    BY DEF OfferInv
  <2>1. UNCHANGED <<vm, sandbox>> /\ Gone' = Gone
    BY DEF nodeVars, Gone
  <2>2. w \in Known \/ w = v
    BY <1>4 DEF Known
  <2> QED
    BY <1>1, <1>2, <2>1, <2>2, Zenon DEF OfferInv, Known
<1> QED
  BY <1>5, <1>6

\* They serve nothing twice, and the watcher keeps track of what it has offered.
LEMMA ProcessOffers ==
  ASSUME TypeOK, PidInv, DirInv, ServedOnce, OfferInv, ProcessStep
  PROVE  ServedOnce' /\ OfferInv'
<1>0. /\ queue \in Seq(Offers) /\ todo \subseteq current /\ served \in [Offers -> Nat]
      /\ sandbox \in [Vms -> Sandboxes] /\ Vms \subseteq Offers
  BY DEF TypeOK, FactoryTypeOK, ReplayTypeOK, NodeTypeOK, Offers
<1>1. CASE ScanStart
  <2>1. UNCHANGED <<nodeVars, queue, served, seen>> /\ current' = {s \in Sandboxes : meta[s] # "nodir"}
    BY <1>1 DEF ScanStart, serverVars
  <2>2. ASSUME NEW v \in Known, v \notin Gone PROVE sandbox[v] \in current'
    <3>1. v \in Vms /\ vm[v] \notin Never /\ sandbox[v] \in Sandboxes
      BY <1>0, <2>2, Zenon DEF OfferInv, Known
    <3>2. ASSUME meta[sandbox[v]] = "nodir" PROVE v \in Gone
      <4>1. vm[v] = "dead"
        BY <3>1, <3>2 DEF DirInv, Never, Alive, TypeOK, ReplayTypeOK, NodeTypeOK
      <4>2. \A w \in Vms : noted[w] # v
        BY <3>1, <3>2, NodeAssumption DEF DirInv, PidInv
      <4> QED
        BY <3>1, <3>2, <4>1, <4>2, NodeAssumption, Zenon DEF Gone, DirInv
    <3> QED
      BY <2>1, <2>2, <3>1, <3>2
  <2>3. ServedOnce'
    BY <2>1, Zenon DEF ServedOnce, Queued
  <2>4. OfferInv'
    BY <2>1, <2>2, Zenon DEF OfferInv, Known, Queued, Gone, nodeVars
  <2> QED
    BY <2>3, <2>4
<1>2. CASE ScanEnd
  BY <1>2, Zenon DEF ScanEnd, ServedOnce, OfferInv, Known, Queued, Gone, nodeVars, serverVars
<1>3. ASSUME NEW s \in Sandboxes, ScanEntry(s) PROVE ServedOnce' /\ OfferInv'
  <2>1. s \in todo /\ UNCHANGED <<nodeVars, served, scanning, current>>
    BY <1>3, Zenon DEF ScanEntry, serverVars
  <2>2. CASE UNCHANGED <<queue, seen>>
    BY <2>1, <2>2, Zenon DEF ServedOnce, OfferInv, Known, Queued, Gone, nodeVars
  <2>3. CASE queue' = queue /\ seen' = seen \cup {s}
    BY <2>1, <2>3, Zenon DEF ServedOnce, OfferInv, Known, Queued, Gone, nodeVars
  <2>4. CASE s \notin seen /\ OfferVM(meta[s]) /\ seen' = seen \cup {s} /\ meta[s] \notin NoMeta
    BY <2>1, <2>4, Offering, OffersTyped, Zenon
  <2> QED
    BY <1>3, <2>2, <2>3, <2>4 DEF ScanEntry, scanUnseen, NoMeta
<1>4. CASE GetBaseVM
  <2> DEFINE v == Head(queue)
  <2>1. /\ queue # <<>> /\ queue' = Tail(queue) /\ served' = [served EXCEPT ![v] = @ + 1]
        /\ UNCHANGED <<nodeVars, seen, scanning, current>>
    BY <1>4 DEF GetBaseVM
  <2>2. /\ Len(queue) \in Nat /\ Len(queue) >= 1 /\ DOMAIN queue = 1 .. Len(queue)
        /\ DOMAIN queue' = 1 .. (Len(queue) - 1) /\ v = queue[1]
        /\ \A i \in 1 .. (Len(queue) - 1) : queue'[i] = queue[i + 1]
    BY <1>0, <2>1, QueueDomains
  <2>3. Queued' \subseteq Queued
    BY <2>2, SMTT(30) DEF Queued
  <2>4. v \in Queued /\ (v \in Vms => v \notin Queued')
    BY <2>2 DEF ServedOnce, Queued
  <2>5. \A w \in Vms : served'[w] = IF w = v THEN served[w] + 1 ELSE served[w]
    BY <1>0, <2>1
  <2>6. \A w \in Vms : served'[w] = 0 \/ (served'[w] = 1 /\ w \notin Queued')
    BY <1>0, <2>3, <2>4, <2>5 DEF ServedOnce
  <2>7. \A i, j \in DOMAIN queue' : queue'[i] = queue'[j] /\ queue'[i] \in Vms => i = j
    BY <2>2 DEF ServedOnce
  <2>8. Known' \subseteq Known
    BY <1>0, <2>3, <2>4, <2>5 DEF Known
  <2>9. Gone' = Gone
    BY <2>1 DEF Gone, nodeVars
  <2>10. OfferInv'
    BY <2>1, <2>8, <2>9, Zenon DEF OfferInv, nodeVars
  <2> QED
    BY <2>6, <2>7, <2>10 DEF ServedOnce
<1>5. CASE Quit \/ FactoryStarts
  BY <1>5 DEF Quit, FactoryStarts, ServedOnce, OfferInv, Known, Queued, Gone, nodeVars
<1>6. CASE FactoryStops
  <2>1. queue' = <<>> /\ \A w \in Vms : served'[w] = 0
    BY <1>0, <1>6 DEF FactoryStops
  <2>2. DOMAIN queue' = {}
    BY <1>0, <2>1, QueueDomains, Zenon
  <2> QED
    BY <2>1, <2>2 DEF ServedOnce, OfferInv, Known, Queued
<1> QED
  BY <1>1, <1>2, <1>3, <1>4, <1>5, <1>6, Zenon DEF ProcessStep, FactoryStep, Scan

-----------------------------------------------------------------------------
(* What the watcher has passed over *)

\* The Jobs put every sandbox whose file they replace into `missed'.
LEMMA JobsMissed == ASSUME SeenInv, JobStep PROVE SeenInv'
BY DEF SeenInv, JobStep, MissedChanges, factoryVars, Queued

\* The watcher offers what it marks, or has read half of it.
LEMMA ProcessMissed ==
  ASSUME TypeOK, SeenInv, ProcessStep
  PROVE  SeenInv'
<1>0. /\ queue \in Seq(Offers) /\ served \in [Offers -> Nat] /\ Vms \subseteq Offers
      /\ seen \subseteq Sandboxes /\ meta \in [Sandboxes -> NoMeta \cup Offers]
  BY DEF TypeOK, FactoryTypeOK, ReplayTypeOK, NodeTypeOK, Offers
<1> USE DEF serverVars, nodeVars
<1>1. ASSUME stops' = stops PROVE missed \cap current \subseteq missed'
  BY <1>1 DEF ProcessStep, MissedReads
<1>2. ASSUME stops' = stops, scanning' = TRUE \/ scanning' = scanning
      PROVE  missed \cup {s \in todo \ (todo' \cup seen) : meta[s] = "partial"} \subseteq missed'
  BY <1>2 DEF ProcessStep, MissedReads
<1>3. CASE ScanStart
  <2>1. UNCHANGED <<meta, queue, served, seen, stops>> /\ scanning' = TRUE
    BY <1>3 DEF ScanStart
  <2> QED
    BY <1>2, <2>1 DEF SeenInv, Queued
<1>4. CASE ScanEnd
  <2>1. UNCHANGED <<meta, queue, served, stops>> /\ seen' = seen \cap current
    BY <1>4, Zenon DEF ScanEnd
  <2> QED
    BY <1>1, <2>1 DEF SeenInv, Queued
<1>5. ASSUME NEW s \in Sandboxes, ScanEntry(s) PROVE SeenInv'
  <2>1. UNCHANGED <<meta, served, stops, scanning>> /\ s \in todo /\ todo' = todo \ {s}
    BY <1>5 DEF ScanEntry
  <2>2. CASE UNCHANGED <<queue, seen>>
    BY <1>2, <2>1, <2>2, Zenon DEF SeenInv, Queued
  <2>3. CASE s \notin seen /\ meta[s] = "partial" /\ queue' = queue /\ seen' = seen \cup {s}
    BY <1>2, <2>1, <2>3, Zenon DEF SeenInv, Queued
  <2>4. CASE meta[s] \notin NoMeta /\ OfferVM(meta[s]) /\ seen' = seen \cup {s}
    <3>1. Queued' = Queued \cup {meta[s]}
      <4>1. meta[s] \in Offers
        BY <1>0, <2>4
      <4>2. /\ Len(queue) \in Nat /\ DOMAIN queue = 1 .. Len(queue)
            /\ DOMAIN queue' = 1 .. (Len(queue) + 1) /\ queue'[Len(queue) + 1] = meta[s]
            /\ \A i \in 1 .. Len(queue) : queue'[i] = queue[i]
        BY <1>0, <2>4, <4>1, QueueDomains DEF OfferVM
      <4> QED
        BY <4>2 DEF Queued
    <3> QED
      BY <1>2, <2>1, <2>4, <3>1 DEF SeenInv
  <2> QED
    BY <1>5, <2>2, <2>3, <2>4 DEF ScanEntry, scanUnseen, NoMeta
<1>6. CASE GetBaseVM
  <2>1. /\ queue # <<>> /\ queue' = Tail(queue) /\ UNCHANGED <<meta, seen, stops, scanning>>
        /\ served' = [served EXCEPT ![Head(queue)] = @ + 1]
    BY <1>6 DEF GetBaseVM
  <2>2. Queued \subseteq Queued' \cup {Head(queue)} /\ Head(queue) \in Offers
    <3>1. /\ Len(queue) \in Nat /\ Len(queue) >= 1 /\ DOMAIN queue = 1 .. Len(queue)
          /\ DOMAIN queue' = 1 .. (Len(queue) - 1) /\ Head(queue) = queue[1]
          /\ \A i \in 1 .. (Len(queue) - 1) : queue'[i] = queue[i + 1]
      BY <1>0, <2>1, QueueDomains, Zenon
    <3>2. ASSUME NEW i \in DOMAIN queue, i # 1 PROVE queue[i] \in Queued'
      <4>1. i - 1 \in 1 .. (Len(queue) - 1) /\ (i - 1) + 1 = i
        BY <3>1, <3>2
      <4> QED
        BY <3>1, <4>1 DEF Queued
    <3> QED
      BY <1>0, <3>1, <3>2 DEF Queued
  <2>3. \A v \in Vms : served'[v] >= served[v] /\ (v = Head(queue) => served'[v] > 0)
    BY <1>0, <2>1, <2>2
  <2> QED
    BY <1>0, <1>2, <2>1, <2>2, <2>3 DEF SeenInv
<1>7. CASE Quit \/ FactoryStarts
  <2>1. UNCHANGED <<meta, queue, served, seen, stops, scanning>>
    BY <1>7, Zenon DEF Quit, FactoryStarts
  <2> QED
    BY <1>2, <2>1, Zenon DEF SeenInv, Queued
<1>8. CASE FactoryStops
  BY <1>8 DEF FactoryStops, SeenInv
<1> QED
  BY <1>3, <1>4, <1>5, <1>6, <1>7, <1>8, Zenon DEF ProcessStep, FactoryStep, Scan

-----------------------------------------------------------------------------
(* The theorems *)

\* The invariant holds initially and every step keeps it.
LEMMA NodeInductive == Spec => []IInv
<1>1. Init => IInv
  <2> SUFFICES ASSUME Init PROVE IInv
    OBVIOUS
  <2>0. ReplayInit /\ FactoryInit /\ missed = {} /\ NodeInit
    BY DEF Init, ReplayInit
  <2>1. ReplayTypeOK
    BY <2>0 DEF ReplayInit, NodeInit, Nobody, ReplayTypeOK, NodeTypeOK, Alive, NoMeta
  <2>2. FactoryTypeOK
    <3>1. up \in BOOLEAN /\ quit \in BOOLEAN /\ scanning \in BOOLEAN
      BY <2>0, Zenon DEF FactoryInit
    <3>2. queue \in Seq(Offers) /\ served \in [Offers -> Nat] /\ stops \in 0 .. MaxStops
      BY <2>0, FactoryAssumption DEF FactoryInit
    <3> QED
      BY <2>0, <3>1, <3>2 DEF FactoryInit, FactoryTypeOK
  <2>3. PidInv /\ DirInv
    BY <2>0, NodeAssumption, Zenon
       DEF ReplayInit, NodeInit, Nobody, PidInv, DirInv, Inside, Alive, Never
  <2>4. SoloInv /\ OwnQEMU
    BY <2>0 DEF ReplayInit, NodeInit, Nobody, SoloInv, OwnQEMU, Inside, Others
  <2>5. DOMAIN queue = {} /\ \A v \in Vms : served[v] = 0
    BY <2>0, <2>2, QueueDomains DEF FactoryInit, FactoryTypeOK, Offers
  <2>6. ServedOnce /\ OfferInv /\ SeenInv
    BY <2>0, <2>5 DEF FactoryInit, ServedOnce, OfferInv, SeenInv, Known, Queued
  <2> QED
    BY <2>0, <2>1, <2>2, <2>3, <2>4, <2>6 DEF IInv, TypeOK
<1>2. IInv /\ [Next]_vars => IInv'
  <2> SUFFICES ASSUME IInv, [Next]_vars PROVE IInv'
    OBVIOUS
  <2>1. CASE JobStep
    <3>1. UNCHANGED factoryVars /\ missed' \subseteq Sandboxes
      BY <2>1, Zenon DEF IInv, TypeOK, FactoryTypeOK, JobStep, MissedChanges
    <3>2. FactoryTypeOK' /\ ServedOnce'
      BY <3>1 DEF IInv, TypeOK, FactoryTypeOK, factoryVars, ServedOnce, Queued
    <3>3. TypeOK /\ PidInv /\ DirInv /\ SoloInv /\ OwnQEMU /\ OfferInv /\ SeenInv
      BY DEF IInv
    <3>4. /\ ReplayTypeOK' /\ PidInv' /\ DirInv' /\ SoloInv' /\ OwnQEMU' /\ OfferInv'
          /\ SeenInv'
      BY <2>1, <3>3, JobTypes, JobPids, JobDirs, JobSolo, JobOffers, JobsMissed, Zenon
    <3> QED
      BY <3>1, <3>2, <3>4 DEF IInv, TypeOK
  <2>2. CASE ProcessStep
    <3>1. UNCHANGED <<nodeVars, replayVars>>
      BY <2>2, ZenonT(40) DEF ProcessStep, FactoryStep, Scan, ScanStart, ScanEnd, ScanEntry, GetBaseVM, Quit,
                  FactoryStops, FactoryStarts
    <3>2. ReplayTypeOK' /\ PidInv' /\ DirInv' /\ SoloInv' /\ OwnQEMU'
      BY <3>1 DEF IInv, TypeOK, nodeVars, replayVars, ReplayTypeOK, NodeTypeOK, PidInv, DirInv,
                  SoloInv, OwnQEMU, Inside, Others
    <3>3. TypeOK /\ PidInv /\ DirInv /\ ServedOnce /\ OfferInv /\ SeenInv
      BY Zenon DEF IInv
    <3> QED
      BY <2>2, <3>2, <3>3, ProcessTypes, ProcessOffers, ProcessMissed, Zenon DEF IInv, TypeOK
  <2>3. CASE UNCHANGED vars
    <3> USE <2>3 DEF vars, nodeVars, replayVars, factoryVars
    <3>1. TypeOK'
      BY Zenon DEF IInv, TypeOK, ReplayTypeOK, NodeTypeOK, FactoryTypeOK
    <3>2. PidInv' /\ DirInv'
      BY Zenon DEF IInv, PidInv, DirInv, Inside
    <3>3. SoloInv' /\ OwnQEMU'
      BY ZenonT(40) DEF IInv, SoloInv, OwnQEMU, Inside, Others
    <3>4. ServedOnce' /\ OfferInv'
      BY ZenonT(40) DEF IInv, ServedOnce, OfferInv, Queued, Known, Gone
    <3>5. SeenInv'
      BY DEF IInv, SeenInv, Known, Gone, Queued
    <3> QED
      BY <3>1, <3>2, <3>3, <3>4, <3>5, Zenon DEF IInv
  <2> QED
    BY <2>1, <2>2, <2>3 DEF Next, JobStep, ProcessStep
<1> QED
  BY <1>1, <1>2, PTL DEF Spec

\* Node's variables keep their types, whatever Jobs share a sandbox and however often
\* the factory restarts.
THEOREM NodeTyping == Spec => []TypeOK
BY NodeInductive, PTL DEF IInv

\* Removing the stale sockets before anything is started (destspawn.go:429-431) is
\* enough: a Job that is alone in its sandbox never meets an earlier Job's QEMU.
THEOREM JobsKeepToThemselves == Spec => []OwnQEMU
BY NodeInductive, PTL DEF IInv

\* The watcher's seen set, pruned of vanished sandboxes only (watcher.go:127-131), keeps
\* a factory process from handing the same QEMU to two shims.
THEOREM NoQEMUServedTwice == Spec => []ServedOnce
BY NodeInductive, PTL DEF IInv

\* No meta file is passed over without a reason (watcher.go:97-99, 112-117).
THEOREM NoMetaPassedOver == Spec => []OfferedOrMissed
<1>1. IInv => OfferedOrMissed
  BY DEF IInv, SeenInv, OfferedOrMissed
<1> QED
  BY <1>1, NodeInductive, PTL

-----------------------------------------------------------------------------
(* Induction.  The loops over the lines of a log and over the arguments of a *)
(* command line are recursive functions; that such a function exists and     *)
(* what holds of its values rest on the well-foundedness of < on Nat.        *)

\* Every set of naturals but the empty one has a least element.
LEMMA LeastNumber ==
  ASSUME NEW T \in SUBSET Nat, T # {}
  PROVE  \E n \in T : \A m \in T : n <= m
<1> DEFINE R == {ss \in Nat \X Nat : ss[1] < ss[2]}
<1>1. IsWellFoundedOn(R, Nat)
  BY NatLessThanWellFounded, Zenon DEF OpToRel
<1> HIDE DEF R
<1>2. PICK x \in T : \A y \in T : ~ (<<y, x>> \in R)
  BY <1>1, WFMin, Zenon
<1>3. \A y \in T : ~ (y < x)
  BY <1>2, Zenon DEF R
<1> QED BY <1>3

\* Induction, for a set of numbers.
LEMMA NumberInduction ==
  ASSUME NEW N \in Nat, NEW T \in SUBSET Nat, 0 \in T,
         \A n \in 0 .. N : n \in T /\ n < N => n + 1 \in T
  PROVE  0 .. N \subseteq T
<1> SUFFICES ASSUME ~(0 .. N \subseteq T) PROVE FALSE
  OBVIOUS
<1> DEFINE U == {n \in 0 .. N : n \notin T}
<1>1. PICK n \in U : \A m \in U : n <= m
  <2>1. U \in SUBSET Nat /\ U # {}
    OBVIOUS
  <2> QED BY <2>1, LeastNumber, Zenon
<1>2. n # 0 /\ n - 1 \in 0 .. N /\ n - 1 < N
  BY <1>1
<1>3. n - 1 \in T
  BY <1>1, <1>2
<1> QED BY <1>1, <1>2, <1>3

\* One step of a computation for each number, and the function that they compute.
Steps(N, V) == [1 .. N -> [V -> V]]

Computes(g, N, V, a, F) ==
  g \in [0 .. N -> V] /\ g[0] = a /\ \A i \in 1 .. N : g[i] = F[i][g[i - 1]]

\* Recursion: that function exists.
LEMMA NumberRecursion ==
  ASSUME NEW N \in Nat, NEW V, NEW a \in V, NEW F \in Steps(N, V)
  PROVE  \E g : Computes(g, N, V, a, F)
<1> DEFINE T == {n \in 0 .. N : \E g : Computes(g, n, V, a, F)}
<1>1. \E g : Computes(g, 0, V, a, F)
  <2>1. Computes([i \in 0 .. 0 |-> a], 0, V, a, F)
    BY DEF Computes
  <2> QED BY <2>1, Zenon
<1>2. ASSUME NEW n \in 0 .. N, NEW g, Computes(g, n, V, a, F), n < N
      PROVE  \E h : Computes(h, n + 1, V, a, F)
  <2> DEFINE h == [i \in 0 .. n + 1 |-> IF i <= n THEN g[i] ELSE F[n + 1][g[n]]]
  <2>1. g \in [0 .. n -> V] /\ g[0] = a /\ \A i \in 1 .. n : g[i] = F[i][g[i - 1]]
    BY <1>2 DEF Computes
  <2>2. n + 1 \in 1 .. N /\ F[n + 1] \in [V -> V] /\ g[n] \in V
    BY <1>2, <2>1 DEF Steps
  <2>3. F[n + 1][g[n]] \in V
    BY <2>2, Zenon
  <2>4. h \in [0 .. n + 1 -> V]
    BY <2>1, <2>3
  <2>5. h[0] = a
    BY <2>1
  <2>6. ASSUME NEW i \in 1 .. n + 1 PROVE h[i] = F[i][h[i - 1]]
    <3>1. CASE i = n + 1
      BY <3>1
    <3>2. CASE i \in 1 .. n
      BY <2>1, <3>2
    <3> QED BY <3>1, <3>2
  <2>7. Computes(h, n + 1, V, a, F)
    BY <2>4, <2>5, <2>6, Zenon DEF Computes
  <2> QED BY <2>7, Zenon
<1>3. 0 .. N \subseteq T
  <2>1. T \in SUBSET Nat /\ 0 \in T
    BY <1>1
  <2>2. \A n \in 0 .. N : n \in T /\ n < N => n + 1 \in T
    BY <1>2
  <2> HIDE DEF T
  <2> QED BY <2>1, <2>2, NumberInduction, Zenon
<1> QED BY <1>3

-----------------------------------------------------------------------------
(* Logs *)

\* b counts lengths up, each with one byte for the newline.
Counts(b, len, N) ==
  /\ b \in [0 .. N -> Nat] /\ b[0] = 0
  /\ \A i \in 1 .. N : b[i] = b[i - 1] + len[i] + 1

\* Such a count exists.
LEMMA CountExists ==
  ASSUME NEW N \in Nat, NEW len \in [1 .. N -> Nat]
  PROVE  \E g : Counts(g, len, N)
<1> DEFINE F == [i \in 1 .. N |-> [v \in Nat |-> v + len[i] + 1]]
<1>1. F \in Steps(N, Nat) /\ 0 \in Nat
  BY DEF Steps
<1>2. PICK g : Computes(g, N, Nat, 0, F)
  <2> HIDE DEF F
  <2> QED BY <1>1, NumberRecursion, Zenon
<1>3. g \in [0 .. N -> Nat] /\ g[0] = 0
  BY <1>2, Zenon DEF Computes
<1>4. ASSUME NEW i \in 1 .. N PROVE g[i] = g[i - 1] + len[i] + 1
  <2>1. g[i] = F[i][g[i - 1]]
    BY <1>2, Zenon DEF Computes
  <2>2. g[i - 1] \in Nat
    BY <1>3
  <2>3. F[i] = [v \in Nat |-> v + len[i] + 1]
    OBVIOUS
  <2> QED BY <2>1, <2>2, <2>3
<1> QED BY <1>3, <1>4, Zenon DEF Counts

\* Bytes counts every line and its newline.
LEMMA BytesCounts ==
  ASSUME NEW lines \in Seq(LogLines)
  PROVE  Counts(Bytes(lines), [i \in 1 .. Len(lines) |-> lines[i].len], Len(lines))
<1> DEFINE N == Len(lines)
           len == [i \in 1 .. N |-> lines[i].len]
           Def(u) == [i \in 0 .. N |-> IF i = 0 THEN 0 ELSE u[i - 1] + lines[i].len + 1]
<1>1. N \in Nat /\ \A i \in 1 .. N : lines[i].len \in Nat
  <2>1. \A i \in 1 .. N : lines[i] \in LogLines
    OBVIOUS
  <2> QED BY <2>1 DEF LogLines
<1>2. len \in [1 .. N -> Nat]
  BY <1>1, Zenon
<1>3. PICK g : Counts(g, len, N)
  <2> HIDE DEF len, N
  <2> QED BY <1>1, <1>2, CountExists, Zenon
<1>4. g = Def(g)
  <2>1. g \in [0 .. N -> Nat] /\ g[0] = 0 /\ \A i \in 1 .. N : g[i] = g[i - 1] + len[i] + 1
    BY <1>3 DEF Counts
  <2> QED BY <1>1, <2>1
<1>5. Bytes(lines) = Def(Bytes(lines))
  BY <1>4, Zenon DEF Bytes
<1>6. PICK b : b = Bytes(lines)
  BY Zenon
<1>7. b = [i \in 0 .. N |-> IF i = 0 THEN 0 ELSE b[i - 1] + lines[i].len + 1]
  BY <1>5, <1>6, Zenon
<1>8. b[0] = 0 /\ \A i \in 1 .. N : b[i] = b[i - 1] + len[i] + 1
  BY <1>1, <1>7
<1>9. \A i \in 0 .. N : b[i] \in Nat
  <2> DEFINE T == {i \in 0 .. N : b[i] \in Nat}
  <2>1. T \in SUBSET Nat /\ 0 \in T
    BY <1>1, <1>8
  <2>2. \A n \in 0 .. N : n \in T /\ n < N => n + 1 \in T
    BY <1>1, <1>8
  <2>3. 0 .. N \subseteq T
    <3> HIDE DEF T, N
    <3> QED BY <1>1, <2>1, <2>2, NumberInduction, Zenon
  <2> QED BY <2>3
<1>10. b \in [0 .. N -> Nat]
  BY <1>7, <1>9, Zenon
<1> QED BY <1>6, <1>8, <1>10, Zenon DEF Counts

\* A line that ends before place x fits in n bytes when x does.
LEMMA LineFits ==
  ASSUME NEW n \in Nat, NEW x \in Nat, x < n, NEW y \in Nat, NEW z \in Nat, z <= x,
         NEW l \in Nat, z = y + l + 1
  PROVE  l <= n - y
OBVIOUS

\* A count grows with every line.
LEMMA CountsGrow ==
  ASSUME NEW N \in Nat, NEW len \in [1 .. N -> Nat], NEW b, Counts(b, len, N)
  PROVE  \A j \in 0 .. N : \A i \in 0 .. N : i < j => b[i] < b[j]
<1>1. b \in [0 .. N -> Nat] /\ \A i \in 1 .. N : b[i] = b[i - 1] + len[i] + 1
  BY DEF Counts
<1> DEFINE T == {j \in 0 .. N : \A i \in 0 .. N : i < j => b[i] < b[j]}
<1>2. T \in SUBSET Nat /\ 0 \in T
  OBVIOUS
<1>3. ASSUME NEW n \in 0 .. N, n \in T, n < N PROVE n + 1 \in T
  <2>1. b[n + 1] = b[n] + len[n + 1] + 1 /\ b[n] \in Nat /\ len[n + 1] \in Nat
    BY <1>1, <1>3
  <2>2. ASSUME NEW i \in 0 .. N, i < n + 1 PROVE b[i] < b[n + 1]
    <3>1. CASE i = n
      BY <2>1, <3>1
    <3>2. CASE i < n
      <4>1. b[i] < b[n] /\ b[i] \in Nat
        BY <1>1, <1>3, <3>2
      <4> QED BY <2>1, <4>1
    <3> QED BY <2>2, <3>1, <3>2
  <2> QED BY <1>3, <2>2
<1>4. 0 .. N \subseteq T
  <2> HIDE DEF T
  <2> QED BY <1>2, <1>3, NumberInduction, Zenon
<1> QED BY <1>4, Zenon

\* Two counts agree as far as the lengths do.
LEMMA CountsAgree ==
  ASSUME NEW N \in Nat, NEW len, NEW b, Counts(b, len, N),
         NEW K \in Nat, NEW part, NEW c, Counts(c, part, K),
         NEW m \in Nat, m <= N, m <= K, \A i \in 1 .. m : part[i] = len[i]
  PROVE  \A i \in 0 .. m : c[i] = b[i]
<1>1. b[0] = 0 /\ \A i \in 1 .. N : b[i] = b[i - 1] + len[i] + 1
  BY Zenon DEF Counts
<1>2. c[0] = 0 /\ \A i \in 1 .. K : c[i] = c[i - 1] + part[i] + 1
  BY Zenon DEF Counts
<1> DEFINE T == {i \in 0 .. m : c[i] = b[i]}
<1>3. T \in SUBSET Nat /\ 0 \in T
  BY <1>1, <1>2
<1>4. ASSUME NEW n \in 0 .. m, n \in T, n < m PROVE n + 1 \in T
  <2>1. n + 1 \in 1 .. N /\ n + 1 \in 1 .. K /\ n + 1 \in 1 .. m /\ (n + 1) - 1 = n
    BY <1>4
  <2>2. b[n + 1] = b[n] + len[n + 1] + 1
    BY <1>1, <2>1, Zenon
  <2>3. c[n + 1] = c[n] + part[n + 1] + 1
    BY <1>2, <2>1, Zenon
  <2> QED BY <1>4, <2>1, <2>2, <2>3
<1>5. 0 .. m \subseteq T
  <2> HIDE DEF T
  <2> QED BY <1>3, <1>4, NumberInduction
<1> QED BY <1>5, Zenon

\* A function on 1 .. k is a sequence.
LEMMA FcnIsSeq ==
  ASSUME NEW S, NEW k \in Nat, NEW f \in [1 .. k -> S]
  PROVE  f \in Seq(S) /\ Len(f) = k
OBVIOUS

\* The pieces are the first k lines, all whole but the last, which is cut at n.
LEMMA PiecesAre ==
  ASSUME NEW lines \in Seq(LogLines), NEW n \in Nat
  PROVE  /\ Pieces(lines, n) \in Seq(LogLines)
         /\ Len(Pieces(lines, n)) <= Len(lines)
         /\ \A i \in 1 .. Len(lines) : i <= Len(Pieces(lines, n)) <=> Bytes(lines)[i - 1] < n
         /\ \A i \in 1 .. Len(Pieces(lines, n)) :
              Pieces(lines, n)[i].len = IF lines[i].len <= n - Bytes(lines)[i - 1]
                                        THEN lines[i].len ELSE n - Bytes(lines)[i - 1]
<1> DEFINE N == Len(lines)
           len == [i \in 1 .. N |-> lines[i].len]
<1>1. N \in Nat /\ DOMAIN lines = 1 .. N
  OBVIOUS
<1>2. \A i \in 1 .. N : lines[i] \in LogLines
  OBVIOUS
<1>3. \A i \in 1 .. N : lines[i].len \in Nat
  BY <1>2 DEF LogLines
<1>4. PICK b : b = Bytes(lines)
  OBVIOUS
<1>5. Counts(b, len, N)
  BY <1>4, BytesCounts
<1>6. b \in [0 .. N -> Nat]
  BY <1>5, Zenon DEF Counts
<1>7. \A j \in 0 .. N : \A i \in 0 .. N : i < j => b[i] < b[j]
  <2>1. len \in [1 .. N -> Nat]
    BY <1>3
  <2> HIDE DEF len, N
  <2> QED BY <1>1, <1>5, <2>1, CountsGrow, Zenon
<1> DEFINE D == {j \in 1 .. N : b[j - 1] < n}
<1>8. PICK k \in 0 .. N : D = 1 .. k
  <2>1. CASE D = 1 .. N
    BY <1>1, <2>1
  <2>2. CASE D # 1 .. N
    <3> DEFINE U == {j \in 1 .. N : ~(b[j - 1] < n)}
    <3>1. U \in SUBSET Nat /\ U # {}
      BY <2>2
    <3>2. PICK u \in U : \A j \in U : u <= j
      <4> HIDE DEF U
      <4> QED BY <3>1, LeastNumber, Zenon
    <3>3. ASSUME NEW j \in 1 .. N PROVE j \in D <=> j < u
      <4>1. CASE j < u
        BY <3>2, <4>1
      <4>2. CASE j = u
        BY <3>2, <4>2
      <4>3. CASE j > u
        <5>0. u - 1 \in 0 .. N /\ j - 1 \in 0 .. N /\ u - 1 < j - 1
          BY <1>1, <3>2, <4>3
        <5>1. b[u - 1] < b[j - 1] /\ b[u - 1] \in Nat /\ b[j - 1] \in Nat
          BY <1>6, <1>7, <5>0, Zenon
        <5> QED BY <3>2, <4>3, <5>1
      <4> QED BY <3>2, <4>1, <4>2, <4>3
    <3>4. D = 1 .. (u - 1) /\ u - 1 \in 0 .. N
      BY <1>1, <3>2, <3>3
    <3> QED BY <3>4
  <2> QED BY <2>1, <2>2
<1>9. PICK P : P = Pieces(lines, n)
  OBVIOUS
<1>10. P = [i \in D |-> [lines[i] EXCEPT !.len = IF lines[i].len <= n - b[i - 1]
                                                 THEN lines[i].len ELSE n - b[i - 1]]]
  <2>1. {j \in DOMAIN lines : n - b[j - 1] > 0} = D
    <3>1. ASSUME NEW j \in 1 .. N PROVE n - b[j - 1] > 0 <=> b[j - 1] < n
      <4>1. j - 1 \in 0 .. N
        BY <1>1
      <4>2. b[j - 1] \in Nat
        BY <1>6, <4>1
      <4> QED BY <4>2
    <3> QED BY <1>1, <3>1
  <2> QED BY <1>4, <1>9, <2>1, Zenon DEF Pieces
<1>11. ASSUME NEW i \in 1 .. k
       PROVE  n - b[i - 1] \in Nat /\ lines[i].len \in Nat /\ i \in D
  <2>1. i \in D /\ i \in 1 .. N
    BY <1>8, Zenon
  <2>2. b[i - 1] \in Nat /\ b[i - 1] < n
    BY <1>1, <1>6, <2>1, SMTT(30)
  <2>3. n - b[i - 1] \in Nat /\ lines[i].len \in Nat
    BY <1>3, <2>1, <2>2
  <2> QED BY <2>1, <2>3
<1>12. ASSUME NEW i \in 1 .. k
       PROVE  /\ P[i] \in LogLines
              /\ P[i].len = IF lines[i].len <= n - b[i - 1] THEN lines[i].len ELSE n - b[i - 1]
  <2>1. PICK w : w = IF lines[i].len <= n - b[i - 1] THEN lines[i].len ELSE n - b[i - 1]
    OBVIOUS
  <2>2. P[i] = [lines[i] EXCEPT !.len = w]
    BY <1>10, <1>11, <2>1
  <2>3. lines[i] \in LogLines
    BY <1>2, <1>8, Zenon
  <2>4. w \in Nat
    BY <1>11, <2>1
  <2>5. P[i] \in LogLines /\ P[i].len = w
    BY <2>2, <2>3, <2>4, Zenon DEF LogLines
  <2> QED BY <2>1, <2>5, Zenon
<1>13. DOMAIN P = 1 .. k /\ P = [i \in 1 .. k |-> P[i]]
  BY <1>8, <1>10
<1>14. P \in Seq(LogLines) /\ Len(P) = k
  <2>1. P \in [1 .. k -> LogLines]
    BY <1>12, <1>13
  <2> QED BY <1>8, <2>1, FcnIsSeq
<1>15. \A i \in 1 .. N : i <= k <=> b[i - 1] < n
  BY <1>8
<1> QED BY <1>1, <1>4, <1>8, <1>9, <1>12, <1>14, <1>15

LineLens(lines) == [i \in 1 .. Len(lines) |-> lines[i].len]

\* The bytes grow with every line.
LEMMA BytesGrow ==
  ASSUME NEW lines \in Seq(LogLines)
  PROVE  /\ \A i \in 0 .. Len(lines) : Bytes(lines)[i] \in Nat
         /\ \A j \in 0 .. Len(lines) : \A i \in 0 .. Len(lines) : i < j => Bytes(lines)[i] < Bytes(lines)[j]
<1>1. Counts(Bytes(lines), LineLens(lines), Len(lines)) /\ Len(lines) \in Nat
  BY BytesCounts DEF LineLens
<1>2. LineLens(lines) \in [1 .. Len(lines) -> Nat]
  <2>1. \A i \in 1 .. Len(lines) : lines[i] \in LogLines
    OBVIOUS
  <2> QED BY <2>1 DEF LogLines, LineLens
<1>3. \A i \in 0 .. Len(lines) : Bytes(lines)[i] \in Nat
  BY <1>1, Zenon DEF Counts
<1> QED BY <1>1, <1>2, <1>3, CountsGrow, Zenon

\* A piece ends where its line does, or at n.
LEMMA PieceBytes ==
  ASSUME NEW lines \in Seq(LogLines), NEW n \in Nat, NEW i \in 1 .. Len(Pieces(lines, n))
  PROVE  /\ i \in 1 .. Len(lines)
         /\ lines[i].len \in Nat /\ Bytes(lines)[i] \in Nat
         /\ Bytes(lines)[i] = Bytes(lines)[i - 1] + lines[i].len + 1
         /\ Bytes(Pieces(lines, n))[i] = IF Bytes(lines)[i] <= n + 1 THEN Bytes(lines)[i] ELSE n + 1
         /\ Bytes(lines)[i] <= n + 1 => Pieces(lines, n)[i].len = lines[i].len
<1>1. PICK b : b = Bytes(lines)
  OBVIOUS
<1>2. PICK P : P = Pieces(lines, n)
  OBVIOUS
<1>3. PICK N : N = Len(lines)
  OBVIOUS
<1>4. PICK K : K = Len(P)
  BY Zenon
<1>5. P \in Seq(LogLines) /\ K <= N /\ N \in Nat /\ K \in Nat /\ i \in 1 .. K /\ i \in 1 .. N
  <2>1. P \in Seq(LogLines) /\ K <= N
    BY <1>2, <1>3, <1>4, PiecesAre, Zenon
  <2>2. N \in Nat /\ K \in Nat
    BY <1>3, <1>4, <2>1
  <2>3. i \in 1 .. K
    BY <1>2, <1>4, Zenon
  <2> QED BY <2>1, <2>2, <2>3
<1>6. \A j \in 1 .. N : j <= K <=> b[j - 1] < n
  BY <1>1, <1>2, <1>3, <1>4, PiecesAre, Zenon
<1>7. \A j \in 1 .. K : P[j].len = IF lines[j].len <= n - b[j - 1] THEN lines[j].len ELSE n - b[j - 1]
  BY <1>1, <1>2, <1>4, PiecesAre, Zenon
<1>8. Counts(b, LineLens(lines), N)
  BY <1>1, <1>3, BytesCounts DEF LineLens
<1>9. PICK c : c = Bytes(P)
  OBVIOUS
<1>10. Counts(c, LineLens(P), K)
  BY <1>4, <1>5, <1>9, BytesCounts, Zenon DEF LineLens
<1>11. \A j \in 1 .. N : lines[j].len \in Nat /\ LineLens(lines)[j] = lines[j].len
  <2>1. \A j \in 1 .. N : lines[j] \in LogLines
    BY <1>3
  <2> QED BY <1>3, <2>1 DEF LogLines, LineLens
<1>12. \A j \in 1 .. K : LineLens(P)[j] = P[j].len
  BY <1>4, Zenon DEF LineLens
<1>13. b \in [0 .. N -> Nat] /\ \A j \in 1 .. N : b[j] = b[j - 1] + lines[j].len + 1
  BY <1>8, <1>11 DEF Counts
<1>14. \A j \in 0 .. N : \A h \in 0 .. N : h < j => b[h] < b[j]
  BY <1>1, <1>3, BytesGrow, Zenon
<1>15. ASSUME NEW j \in 1 .. (i - 1) PROVE P[j].len = lines[j].len
  <2>1. j \in 1 .. N /\ j \in 1 .. K /\ j - 1 \in 0 .. N /\ j \in 0 .. N /\ i - 1 \in 0 .. N /\ j <= i - 1
    BY <1>5
  <2>2. b[j] \in Nat /\ b[j - 1] \in Nat /\ b[i - 1] \in Nat /\ lines[j].len \in Nat
    BY <1>11, <1>13, <2>1, Zenon
  <2>3. b[j] = b[j - 1] + lines[j].len + 1
    BY <1>13, <2>1, Zenon
  <2>4. b[j] <= b[i - 1]
    <3>1. CASE j = i - 1
      BY <2>2, <3>1
    <3>2. CASE j < i - 1
      <4>1. b[j] < b[i - 1]
        BY <1>14, <2>1, <3>2, Zenon
      <4> QED BY <2>2, <4>1
    <3> QED BY <1>5, <2>1, <3>1, <3>2
  <2>5. b[i - 1] < n
    BY <1>5, <1>6
  <2>7. b[i - 1] \in Nat
    BY <1>5, <1>13
  <2>6. lines[j].len <= n - b[j - 1]
    BY <2>2, <2>3, <2>4, <2>5, <2>7, LineFits, Zenon
  <2> QED BY <1>7, <2>1, <2>6, Zenon
<1>16. c[i - 1] = b[i - 1]
  <2>1. i - 1 \in Nat /\ i - 1 <= N /\ i - 1 <= K /\ i - 1 \in 0 .. (i - 1)
    BY <1>5
  <2>2. \A j \in 1 .. (i - 1) : j \in 1 .. N /\ j \in 1 .. K
    BY <1>5
  <2>3. \A j \in 1 .. (i - 1) : LineLens(P)[j] = LineLens(lines)[j]
    BY <1>11, <1>12, <1>15, <2>2
  <2>4. PICK m : m = i - 1
    OBVIOUS
  <2>5. \A j \in 0 .. m : c[j] = b[j]
    <3>1. m \in Nat /\ m <= N /\ m <= K /\ \A j \in 1 .. m : LineLens(P)[j] = LineLens(lines)[j]
      BY <2>1, <2>3, <2>4
    <3>2. N \in Nat /\ K \in Nat
      BY <1>5
    <3>3. PICK u : u = LineLens(lines)
      OBVIOUS
    <3>4. PICK w : w = LineLens(P)
      OBVIOUS
    <3>5. Counts(b, u, N) /\ Counts(c, w, K) /\ \A j \in 1 .. m : w[j] = u[j]
      BY <1>8, <1>10, <3>1, <3>3, <3>4, Zenon
    <3> QED BY <3>1, <3>2, <3>5, CountsAgree, SMTT(30)
  <2> QED BY <2>1, <2>4, <2>5
<1>17. c[i] = b[i - 1] + P[i].len + 1
  <2>1. c[i] = c[i - 1] + LineLens(P)[i] + 1
    BY <1>5, <1>10, Zenon DEF Counts
  <2> QED BY <1>5, <1>12, <1>16, <2>1
<1>18. b[i] = b[i - 1] + lines[i].len + 1 /\ b[i - 1] \in Nat /\ b[i] \in Nat /\ lines[i].len \in Nat
  <2>1. i \in 0 .. N /\ i - 1 \in 0 .. N
    BY <1>5
  <2>2. b[i - 1] \in Nat /\ b[i] \in Nat
    BY <1>13, <2>1, Zenon
  <2> QED BY <1>5, <1>11, <1>13, <2>2, Zenon
<1>19. P[i].len = IF lines[i].len <= n - b[i - 1] THEN lines[i].len ELSE n - b[i - 1]
  BY <1>5, <1>7, Zenon
<1>20. /\ c[i] = IF b[i] <= n + 1 THEN b[i] ELSE n + 1
       /\ b[i] <= n + 1 => P[i].len = lines[i].len
  <2>1. PICK y, l, z, k, e : y = b[i - 1] /\ l = lines[i].len /\ z = b[i] /\ k = P[i].len /\ e = c[i]
    BY Zenon
  <2>2. y \in Nat /\ l \in Nat /\ z \in Nat /\ z = y + l + 1
    BY <1>18, <2>1, Zenon
  <2>3. e = y + k + 1 /\ k = IF l <= n - y THEN l ELSE n - y
    BY <1>17, <1>19, <2>1, Zenon
  <2>4. (e = IF z <= n + 1 THEN z ELSE n + 1) /\ (z <= n + 1 => k = l)
    BY <2>2, <2>3, SMTT(30)
  <2> QED BY <2>1, <2>4, Zenon
<1> QED BY <1>1, <1>2, <1>3, <1>5, <1>9, <1>18, <1>20, Zenon

\* The lines that are scanned are whole, and every line up to one that fits is scanned.
LEMMA OneLog ==
  ASSUME NEW lines \in Seq(LogLines), 
         NEW MaxScan \in Nat, NEW serverCuts \in BOOLEAN
  PROVE  TakesWholeMarkers(lines, MaxScan, serverCuts)
<1> DEFINE carry(m) == {i \in DOMAIN lines : m \in lines[i].marks}
           fits(i) == Bytes(lines)[i] <= MaxScan /\ \A j \in 1 .. i : lines[j].len < maxLine
<1>1. PICK n : n = Delivered(MaxScan, serverCuts)
  OBVIOUS
<1>2. n \in Nat /\ n \in {MaxScan, MaxScan + 1}
  BY <1>1 DEF Delivered
<1>3. PICK P : P = Pieces(lines, n)
  OBVIOUS
<1>4. PICK R : R = ReturnsAt(P, MaxScan)
  OBVIOUS
<1>5. PICK S : S = {i \in DOMAIN P : \A e \in R : i < e}
  BY Zenon
<1>6. PICK found : found = scanPodLogMarkers(lines, MaxScan, serverCuts)
  OBVIOUS
<1> DEFINE hits(m) == {i \in S : m \in lines[i].marks}
<1>7. found = [m \in Markers |-> First(hits(m))]
  BY <1>1, <1>3, <1>4, <1>5, <1>6, Zenon DEF scanPodLogMarkers
<1>8. /\ P \in Seq(LogLines) /\ Len(P) \in Nat /\ Len(lines) \in Nat /\ Len(P) <= Len(lines)
      /\ DOMAIN P = 1 .. Len(P) /\ DOMAIN lines = 1 .. Len(lines)
  BY <1>2, <1>3, PiecesAre
<1>9. R = {i \in 1 .. Len(P) : Bytes(P)[i] > MaxScan \/ P[i].len >= maxLine}
  BY <1>4, <1>8, Zenon DEF ReturnsAt
<1>10. S \subseteq 1 .. Len(P) /\ \A i \in S : i \notin R
  BY <1>5, <1>8
<1>11. ASSUME NEW i \in 1 .. Len(P)
       PROVE  /\ i \in 1 .. Len(lines) /\ Bytes(lines)[i] \in Nat
              /\ Bytes(P)[i] = IF Bytes(lines)[i] <= n + 1 THEN Bytes(lines)[i] ELSE n + 1
              /\ Bytes(lines)[i] <= n + 1 => P[i].len = lines[i].len
  BY <1>2, <1>3, PieceBytes, Zenon
<1>12. ASSUME NEW i \in S PROVE Bytes(lines)[i] \in Nat /\ Bytes(lines)[i] <= MaxScan
  <2>1. i \in 1 .. Len(P) /\ ~(Bytes(P)[i] > MaxScan)
    BY <1>9, <1>10, Zenon
  <2> QED BY <1>2, <1>11, <2>1
<1>13. ASSUME NEW m \in Markers, NEW i \in found[m] PROVE Bytes(lines)[i] - 1 <= n
  <2>1. i \in S
    BY <1>7, <1>13 DEF First
  <2> QED BY <1>2, <1>12, <2>1
<1>14. ASSUME NEW m \in Markers, NEW c \in First(carry(m)), fits(c) PROVE found[m] = {c}
  <2>2. carry(m) \in SUBSET Nat
    BY <1>8
  <2>3. c \in carry(m) /\ \A j \in carry(m) : c <= j
    BY <1>14, Zenon DEF First
  <2>4. c \in 1 .. Len(lines) /\ Bytes(lines)[c] <= MaxScan /\ \A j \in 1 .. c : lines[j].len < maxLine
    BY <1>8, <1>14, <2>3, Zenon
  <2>5. c \in S
    <3> HIDE DEF carry, fits, hits
    <3>1. ASSUME NEW e \in 1 .. c PROVE e \in 1 .. Len(P) /\ e \notin R
      <4>1. e \in 1 .. Len(lines) /\ e \in 0 .. Len(lines) /\ e - 1 \in 0 .. Len(lines) /\ c \in 0 .. Len(lines)
        BY <1>8, <2>4, SMTT(30)
      <4>2. /\ Bytes(lines)[e] \in Nat /\ Bytes(lines)[e - 1] \in Nat /\ Bytes(lines)[c] \in Nat
            /\ Bytes(lines)[e - 1] < Bytes(lines)[e] /\ (e < c => Bytes(lines)[e] < Bytes(lines)[c])
        <5>1. e - 1 < e
          BY <4>1
        <5> QED BY <4>1, <5>1, BytesGrow, Zenon
      <4>3. Bytes(lines)[e] <= MaxScan
        <5>1. CASE e = c
          BY <2>4, <5>1, Zenon
        <5>2. CASE e < c
          BY <2>4, <4>2, <5>2, SMTT(30)
        <5> QED BY <2>4, <5>1, <5>2, SMTT(30)
      <4>4. Bytes(lines)[e - 1] < n /\ Bytes(lines)[e] <= n + 1
        BY <1>2, <4>2, <4>3
      <4>5. e \in 1 .. Len(P)
        <5>1. e <= Len(P)
          BY <1>2, <1>3, <4>1, <4>4, PiecesAre, Zenon
        <5> QED BY <1>8, <5>1, SMTT(30)
      <4>6. Bytes(P)[e] = Bytes(lines)[e] /\ P[e].len = lines[e].len
        BY <1>11, <4>4, <4>5, Zenon
      <4>7. lines[e].len < maxLine /\ lines[e].len \in Nat
        BY <1>2, <1>3, <2>4, <4>5, PieceBytes, Zenon
      <4>8. ~(Bytes(P)[e] > MaxScan) /\ ~(P[e].len >= maxLine)
        BY <4>2, <4>3, <4>6, <4>7, PodLogAssumption
      <4> QED BY <1>9, <4>5, <4>8, Zenon
    <3>2. c \in 1 .. c /\ c \in Nat
      BY <2>4
    <3>3. ASSUME NEW e \in R PROVE c < e
      <4>1. e \in Nat /\ e >= 1
        BY <1>9
      <4> QED BY <3>1, <3>2, <4>1
    <3> QED BY <1>5, <1>8, <3>1, <3>2, <3>3, Zenon
  <2>6. c \in hits(m) /\ hits(m) \subseteq carry(m)
    BY <1>8, <1>10, <2>3, <2>5, SMTT(30)
  <2>7. First(hits(m)) = {c}
    <3>1. hits(m) \in SUBSET Nat /\ \A j \in hits(m) : c <= j
      BY <2>2, <2>3, <2>6
    <3> HIDE DEF hits
    <3> QED BY <2>6, <3>1 DEF First
  <2> QED BY <1>7, <2>7, Zenon
<1> QED BY <1>1, <1>6, <1>13, <1>14 DEF TakesWholeMarkers

\* A marker is taken from a whole line of the source pod's log, and one that ends within the
\* limit is found, for every log, limit of the scan and limit of a line, wherever the
\* apiserver or the reader cuts the log (cmdlinefetch.go:294-322).
THEOREM MarkersOfEveryLog ==
  /\ \A lines \in Seq(LogLines), MaxScan \in Nat, serverCuts \in BOOLEAN :
       TakesWholeMarkers(lines, MaxScan, serverCuts)
  /\ Spec => []MarkersAreWhole
<1>1. \A lines \in Seq(LogLines), MaxScan \in Nat, serverCuts \in BOOLEAN :
        TakesWholeMarkers(lines, MaxScan, serverCuts)
  BY OneLog, Zenon
<1>2. MarkersAreWhole
  BY <1>1, PodLogAssumption, Zenon DEF MarkersAreWhole, AllTakeWholeMarkers
<1>3. Spec => []MarkersAreWhole
  BY <1>2, PTL
<1> QED BY <1>1, <1>3, Zenon

-----------------------------------------------------------------------------
(* Command lines *)

Names == {"", "-daemonize", "-nographic", "-incoming", "-qmp", "-netdev", "-device", "-object", "-chardev"}
Keys == {"fd", "srcDir", "dstDir", "srcKey", "dstKey", "image", "copy", "shm", "stray", "ro",
         "tap", "ifname", "script", "defer"}

Args == [flag : Names, keys : SUBSET Keys]

\* substitute and the two functions on values return arguments, of the same flag.
LEMMA RewrittenArgs ==
  ASSUME NEW args, NEW a \in Args
  PROVE  /\ substitute(args, a) \in Args /\ substitute(args, a).flag = a.flag
         /\ stripFDKeys(a) \in Args /\ stripFDKeys(a).flag = a.flag
         /\ tapKeys(a) \in Args /\ tapKeys(a).flag = a.flag
<1>1. ASSUME NEW K \in SUBSET Keys
      PROVE  [a EXCEPT !.keys = K] \in Args /\ [a EXCEPT !.keys = K].flag = a.flag
  BY DEF Args
<1>2. a.keys \in SUBSET Keys
  BY DEF Args
<1>3. stripFDKeys(a) \in Args /\ stripFDKeys(a).flag = a.flag
  BY <1>1, <1>2, Zenon DEF stripFDKeys
<1>4. tapKeys(a) \in Args /\ tapKeys(a).flag = a.flag
  <2>1. "ifname" \in Keys /\ "script" \in Keys
    BY DEF Keys
  <2>2. a.keys \cup {"ifname", "script"} \in SUBSET Keys
    BY <1>2, <2>1, Zenon
  <2>3. PICK K \in SUBSET Keys : K = a.keys \cup {"ifname", "script"}
    BY <2>2, Zenon
  <2>4. tapKeys(a) = IF "tap" \in a.keys THEN [a EXCEPT !.keys = K] ELSE a
    BY <2>3, Zenon DEF tapKeys
  <2> QED BY <1>1, <2>4
<1>5. substitute(args, a) \in Args /\ substitute(args, a).flag = a.flag
  <2> DEFINE renamed(k) ==
               CASE k = "srcDir" /\ findSrcSandboxDir(args) -> "dstDir"
                 [] k = "srcKey" /\ findSrcSandboxDir(args) -> "dstKey"
                 [] k = "image" /\ extractNvdimmPath(args) -> "copy"
                 [] OTHER -> k
  <2>1. \A k \in Keys : renamed(k) \in Keys
    BY DEF Keys
  <2>2. PICK K : K = {renamed(k) : k \in a.keys \ {"ro"}}
    BY Zenon
  <2>3. substitute(args, a) = [a EXCEPT !.keys = K]
    BY <2>2, Zenon DEF substitute
  <2>4. K \in SUBSET Keys
    <3> HIDE DEF renamed
    <3> QED BY <1>2, <2>1, <2>2
  <2>5. [a EXCEPT !.keys = K] \in Args /\ [a EXCEPT !.keys = K].flag = a.flag
    BY <1>1, <2>4
  <2> QED BY <2>3, <2>5
<1> QED BY <1>3, <1>4, <1>5

\* An iteration appends arguments.
LEMMA AppendsArgs ==
  ASSUME NEW args \in Seq(Args), NEW i \in 1 .. Len(args)
  PROVE  appends(args, i) \in Seq(Args) /\ skipsNext(args, i) \in BOOLEAN
<1>1. PICK a : a = args[i]
  OBVIOUS
<1>2. a \in Args
  BY <1>1
<1>3. CASE i = Len(args)
  <2>1. substitute(args, a) \in Args
    BY <1>2, RewrittenArgs
  <2> QED BY <1>1, <1>2, <1>3, <2>1 DEF appends, skipsNext
<1>4. CASE i < Len(args)
  <2>1. PICK v : v = args[i + 1]
    OBVIOUS
  <2>2. v \in Args
    BY <1>4, <2>1
  <2>3. stripFDKeys(v) \in Args /\ substitute(args, a) \in Args
    BY <1>2, <2>2, RewrittenArgs
  <2>4. tapKeys(stripFDKeys(v)) \in Args
    BY <2>3, RewrittenArgs, Zenon
  <2> QED BY <1>1, <1>2, <1>4, <2>1, <2>3, <2>4 DEF appends, skipsNext
<1> QED BY <1>3, <1>4

LoopStates == [out : Seq(Args), skipNext : BOOLEAN]

\* g holds the variables of the loop after each argument.
Loops(g, args) ==
  /\ g \in [0 .. Len(args) -> LoopStates] /\ g[0] = [out |-> <<>>, skipNext |-> FALSE]
  /\ \A i \in 1 .. Len(args) : g[i] = iteration(args, i, g[i - 1])

\* An iteration keeps the variables of the loop in their types.
LEMMA IterationState ==
  ASSUME NEW args \in Seq(Args), NEW i \in 1 .. Len(args), NEW v \in LoopStates
  PROVE  iteration(args, i, v) \in LoopStates
<1>1. PICK e : e = appends(args, i)
  OBVIOUS
<1>2. PICK s : s = skipsNext(args, i)
  OBVIOUS
<1>3. e \in Seq(Args) /\ s \in BOOLEAN
  BY <1>1, <1>2, AppendsArgs
<1>4. v.out \o e \in Seq(Args)
  BY <1>3 DEF LoopStates
<1>5. [out |-> v.out \o e, skipNext |-> s] \in LoopStates
  BY <1>3, <1>4, Zenon DEF LoopStates
<1>6. [v EXCEPT !.skipNext = FALSE] \in LoopStates
  BY Zenon DEF LoopStates
<1> QED BY <1>1, <1>2, <1>5, <1>6 DEF iteration

\* The loop has variables after each argument.
LEMMA LoopExists ==
  ASSUME NEW args \in Seq(Args)
  PROVE  \E g : Loops(g, args)
<1> DEFINE N == Len(args)
           a == [out |-> <<>>, skipNext |-> FALSE]
           F == [i \in 1 .. N |-> [v \in LoopStates |-> iteration(args, i, v)]]
<1>1. N \in Nat /\ a \in LoopStates
  BY DEF LoopStates
<1>2. F \in Steps(N, LoopStates)
  BY IterationState DEF Steps
<1>3. PICK g : Computes(g, N, LoopStates, a, F)
  <2> HIDE DEF F, a, N
  <2> QED BY <1>1, <1>2, NumberRecursion
<1>4. g \in [0 .. N -> LoopStates] /\ g[0] = a
  BY <1>3, Zenon DEF Computes
<1>5. ASSUME NEW i \in 1 .. N PROVE g[i] = iteration(args, i, g[i - 1])
  <2>1. g[i] = F[i][g[i - 1]]
    BY <1>3, Zenon DEF Computes
  <2>2. g[i - 1] \in LoopStates
    BY <1>1, <1>4
  <2>3. F[i] = [v \in LoopStates |-> iteration(args, i, v)]
    BY Zenon
  <2> QED BY <2>1, <2>2, <2>3, Zenon
<1> QED BY <1>4, <1>5, Zenon DEF Loops

\* iterated is that loop.
LEMMA IteratedLoops ==
  ASSUME NEW args \in Seq(Args)
  PROVE  Loops(iterated(args), args)
<1> DEFINE N == Len(args)
           a == [out |-> <<>>, skipNext |-> FALSE]
           Def(u) == [i \in 0 .. N |-> IF i = 0 THEN a ELSE iteration(args, i, u[i - 1])]
<1>1. N \in Nat
  OBVIOUS
<1>2. PICK g : Loops(g, args)
  BY LoopExists
<1>3. g = Def(g)
  <2>1. g \in [0 .. N -> LoopStates] /\ g[0] = a /\ \A i \in 1 .. N : g[i] = iteration(args, i, g[i - 1])
    BY <1>2, Zenon DEF Loops
  <2>2. \A i \in 0 .. N : i = 0 \/ i \in 1 .. N
    BY <1>1
  <2>3. \A i \in 0 .. N : g[i] = IF i = 0 THEN a ELSE iteration(args, i, g[i - 1])
    BY <2>1, <2>2, Zenon
  <2> QED BY <2>1, <2>3, Zenon
<1>4. iterated(args) = Def(iterated(args))
  BY <1>3, Zenon DEF iterated
<1>5. PICK b : b = iterated(args)
  OBVIOUS
<1>6. b = [i \in 0 .. N |-> IF i = 0 THEN a ELSE iteration(args, i, b[i - 1])]
  BY <1>4, <1>5, Zenon
<1>7. 0 \in 0 .. N /\ \A i \in 1 .. N : i \in 0 .. N /\ i # 0
  BY <1>1
<1>8. b[0] = a /\ \A i \in 1 .. N : b[i] = iteration(args, i, b[i - 1])
  BY <1>6, <1>7, Zenon
<1>9. \A i \in 0 .. N : b[i] \in LoopStates
  <2> DEFINE T == {i \in 0 .. N : b[i] \in LoopStates}
  <2>1. a \in LoopStates
    BY DEF LoopStates
  <2>2. T \in SUBSET Nat /\ 0 \in T
    BY <1>7, <1>8, <2>1
  <2>3. ASSUME NEW n \in 0 .. N, n \in T, n < N PROVE n + 1 \in T
    <3>1. n + 1 \in 1 .. N /\ (n + 1) - 1 = n /\ b[n] \in LoopStates
      BY <1>1, <2>3
    <3>2. b[n + 1] = iteration(args, n + 1, b[n])
      BY <1>8, <3>1, Zenon
    <3>3. b[n + 1] \in LoopStates
      BY <3>1, <3>2, IterationState
    <3> QED BY <1>7, <3>1, <3>3
  <2>4. 0 .. N \subseteq T
    <3> HIDE DEF T, N
    <3> QED BY <1>1, <2>2, <2>3, NumberInduction, Zenon
  <2> QED BY <2>4, Zenon
<1>10. b \in [0 .. N -> LoopStates]
  BY <1>6, <1>9
<1> QED BY <1>5, <1>8, <1>10, Zenon DEF Loops

\* A value has its clauses, and no flag.
LEMMA ValueFields ==
  ASSUME NEW K, NEW R
  PROVE  /\ Value(K).keys = K /\ Value(K).flag = ""
         /\ [Value(K) EXCEPT !.keys = R] = Value(R)
<1>1. ASSUME NEW f
      PROVE  /\ [flag |-> f, keys |-> K].keys = K /\ [flag |-> f, keys |-> K].flag = f
             /\ [[flag |-> f, keys |-> K] EXCEPT !.keys = R] = [flag |-> f, keys |-> R]
  OBVIOUS
<1> QED BY <1>1, Zenon DEF Value

\* What is left of a value that names files of the source: nothing of the source.
LEMMA SubstituteCleans ==
  ASSUME NEW args, NEW K \in SUBSET {"srcDir", "srcKey", "image", "shm", "stray", "ro"},
         "srcDir" \in K \/ "srcKey" \in K => findSrcSandboxDir(args),
         "image" \in K => extractNvdimmPath(args)
  PROVE  Clean(substitute(args, Value(K)))
<1> DEFINE renamed(k) ==
             CASE k = "srcDir" /\ findSrcSandboxDir(args) -> "dstDir"
               [] k = "srcKey" /\ findSrcSandboxDir(args) -> "dstKey"
               [] k = "image" /\ extractNvdimmPath(args) -> "copy"
               [] OTHER -> k
<1>1. PICK R : R = {renamed(k) : k \in K \ {"ro"}}
  BY Zenon
<1>2. \A k \in K \ {"ro"} : renamed(k) \in {"dstDir", "dstKey", "copy", "shm", "stray"}
  OBVIOUS
<1>3. R \subseteq {"dstDir", "dstKey", "copy", "shm", "stray"}
  <2> HIDE DEF renamed
  <2> QED BY <1>1, <1>2
<1>4. substitute(args, Value(K)).keys = R
  <2>2. substitute(args, Value(K)) = [Value(K) EXCEPT !.keys = {renamed(k) : k \in Value(K).keys \ {"ro"}}]
    BY Zenon DEF substitute
  <2>3. Value(K).keys = K
    BY ValueFields, Zenon
  <2>4. substitute(args, Value(K)) = [Value(K) EXCEPT !.keys = R]
    BY <1>1, <2>2, <2>3, Zenon
  <2>5. substitute(args, Value(K)) = Value(R)
    BY <2>4, ValueFields, Zenon
  <2> QED BY <2>5, ValueFields, Zenon
<1>5. \A k \in {"fd", "srcDir", "srcKey", "image", "ro", "tap"} : k \notin R
  BY <1>3
<1> QED BY <1>4, <1>5 DEF Clean

\* A flag is passed on as it is.
LEMMA SubstituteFlag ==
  ASSUME NEW args, NEW f
  PROVE  substitute(args, Flag(f)) = Flag(f)
<1> DEFINE renamed(k) ==
             CASE k = "srcDir" /\ findSrcSandboxDir(args) -> "dstDir"
               [] k = "srcKey" /\ findSrcSandboxDir(args) -> "dstKey"
               [] k = "image" /\ extractNvdimmPath(args) -> "copy"
               [] OTHER -> k
<1>1. Flag(f) = [flag |-> f, keys |-> {}]
  BY DEF Flag
<1>2. {renamed(k) : k \in Flag(f).keys \ {"ro"}} = {}
  <2>1. Flag(f).keys \ {"ro"} = {}
    BY <1>1
  <2> HIDE DEF renamed
  <2> QED BY <2>1, Zenon
<1>3. substitute(args, Flag(f)) = [Flag(f) EXCEPT !.keys = {renamed(k) : k \in Flag(f).keys \ {"ro"}}]
  BY Zenon DEF substitute
<1>4. substitute(args, Flag(f)) = [Flag(f) EXCEPT !.keys = {}]
  BY <1>2, <1>3, Zenon
<1> QED BY <1>1, <1>4

\* A flag is clean.
LEMMA FlagClean ==
  ASSUME NEW f
  PROVE  Clean(Flag(f))
BY Zenon DEF Clean, Flag

\* The descriptors of a value of -netdev or -device are gone, and a tap is complete.
LEMMA StripCleans ==
  ASSUME NEW K \in SUBSET {"fd", "ifname", "script"}
  PROVE  /\ Clean(stripFDKeys(Value(K)))
         /\ Clean(tapKeys(stripFDKeys(Value({"tap"} \cup K))))
<1>1. PICK R : R = K \ {"fd"}
  BY Zenon
<1>2. \A k \in {"fd", "srcDir", "srcKey", "image", "copy", "tap"} : k \notin R
  BY <1>1
<1>3. stripFDKeys(Value(K)) = Value(R)
  BY <1>1, ValueFields, Zenon DEF stripFDKeys
<1>4. Clean(stripFDKeys(Value(K)))
  <2>1. stripFDKeys(Value(K)).keys = R
    BY <1>3, ValueFields, Zenon
  <2> QED BY <1>2, <2>1, Zenon DEF Clean
<1>5. PICK S : S = ({"tap"} \cup K) \ {"fd"}
  BY Zenon
<1>6. stripFDKeys(Value({"tap"} \cup K)) = Value(S)
  <2>1. PICK T : T = {"tap"} \cup K
    BY Zenon
  <2>2. S = T \ {"fd"}
    BY <1>5, <2>1, Zenon
  <2>3. stripFDKeys(Value(T)) = Value(S)
    BY <2>2, ValueFields, Zenon DEF stripFDKeys
  <2> QED BY <2>1, <2>3, Zenon
<1>7. "tap" \in S /\ \A k \in {"fd", "srcDir", "srcKey", "image", "copy"} : k \notin S
  BY <1>5
<1>8. PICK U : U = S \cup {"ifname", "script"}
  BY Zenon
<1>9. tapKeys(Value(S)) = Value(U)
  <2>1. Value(S).keys = S /\ [Value(S) EXCEPT !.keys = U] = Value(U)
    BY ValueFields, Zenon
  <2>2. tapKeys(Value(S)) = [Value(S) EXCEPT !.keys = Value(S).keys \cup {"ifname", "script"}]
    BY <1>7, <2>1, Zenon DEF tapKeys
  <2> QED BY <1>8, <2>1, <2>2, Zenon
<1>10. /\ "ifname" \in U /\ "script" \in U
       /\ \A k \in {"fd", "srcDir", "srcKey", "image", "copy"} : k \notin U
  BY <1>7, <1>8
<1>11. Clean(Value(U))
  <2>1. Value(U).keys = U
    BY ValueFields, Zenon
  <2> QED BY <1>10, <2>1, Zenon DEF Clean
<1> QED BY <1>4, <1>6, <1>9, <1>11

\* The cases of one iteration.
LEMMA AppendsCases ==
  ASSUME NEW args, NEW i \in Nat, Len(args) \in Nat
  PROVE  /\ args[i].flag \in {"-daemonize", "-incoming"} => appends(args, i) = <<>>
         /\ args[i].flag = "-qmp" => appends(args, i) = IF skipsNext(args, i) THEN <<>> ELSE <<args[i]>>
         /\ args[i].flag = "-netdev" /\ i < Len(args) =>
              appends(args, i) = <<args[i], tapKeys(stripFDKeys(args[i + 1]))>>
         /\ args[i].flag = "-device" /\ i < Len(args) =>
              appends(args, i) = <<args[i], stripFDKeys(args[i + 1])>>
         /\ args[i].flag \notin {"-daemonize", "-incoming", "-qmp", "-netdev", "-device"} =>
              appends(args, i) = <<substitute(args, args[i])>>
<1>1. PICK f : f = args[i].flag
  BY Zenon
<1>2. CASE f \in {"-daemonize", "-incoming"}
  BY <1>1, <1>2 DEF appends
<1>3. CASE f = "-qmp"
  BY <1>1, <1>3 DEF appends
<1>4. CASE f = "-netdev" /\ i < Len(args)
  BY <1>1, <1>4 DEF appends
<1>5. CASE f = "-device" /\ i < Len(args)
  BY <1>1, <1>5, SMTT(30) DEF appends
<1>6. CASE f \notin {"-daemonize", "-incoming", "-qmp", "-netdev", "-device"}
  BY <1>1, <1>6, Zenon DEF appends
<1> QED BY <1>1, <1>2, <1>3, <1>4, <1>5, <1>6, Zenon

\* The iterations after which the value is skipped.
LEMMA SkipsCases ==
  ASSUME NEW args, NEW i \in Nat, Len(args) \in Nat
  PROVE  /\ args[i].flag \in {"-incoming", "-netdev", "-device"} => skipsNext(args, i) = TRUE
         /\ args[i].flag = "-qmp" /\ "fd" \in args[i + 1].keys /\ i < Len(args) => skipsNext(args, i) = TRUE
         /\ args[i].flag = "-qmp" /\ "fd" \notin args[i + 1].keys => skipsNext(args, i) = FALSE
         /\ args[i].flag \notin {"-incoming", "-qmp", "-netdev", "-device"} => skipsNext(args, i) = FALSE
<1>1. "-qmp" \notin {"-incoming", "-netdev", "-device"}
  OBVIOUS
<1>2. args[i].flag \in {"-incoming", "-netdev", "-device"} => skipsNext(args, i) = TRUE
  BY Zenon DEF skipsNext
<1>3. args[i].flag = "-qmp" /\ "fd" \in args[i + 1].keys /\ i < Len(args) => skipsNext(args, i) = TRUE
  BY Zenon DEF skipsNext
<1>5. args[i].flag = "-qmp" /\ "fd" \notin args[i + 1].keys => skipsNext(args, i) = FALSE
  BY <1>1, Zenon DEF skipsNext
<1>4. args[i].flag \notin {"-incoming", "-qmp", "-netdev", "-device"} => skipsNext(args, i) = FALSE
  BY Zenon DEF skipsNext
<1> QED BY <1>2, <1>3, <1>4, <1>5, Zenon

\* What an option adds to the result: the same flags if it is kept, else nothing, all clean.
Adds(o, e) ==
  /\ e \in Seq(Args)
  /\ Flags(e) = Flags(IF kept(o) THEN o ELSE <<>>)
  /\ \A i \in DOMAIN e : Clean(e[i])

\* An iteration that looks at its argument.
LEMMA Looks ==
  ASSUME NEW args, NEW g, Loops(g, args), NEW p \in Nat, p < Len(args), Len(args) \in Nat,
         g[p].skipNext = FALSE
  PROVE  g[p + 1] = [out |-> g[p].out \o appends(args, p + 1), skipNext |-> skipsNext(args, p + 1)]
<1>1. p + 1 \in 1 .. Len(args) /\ (p + 1) - 1 = p
  OBVIOUS
<1>2. \A i \in 1 .. Len(args) : g[i] = iteration(args, i, g[i - 1])
  BY Zenon DEF Loops
<1>3. g[p + 1] = iteration(args, p + 1, g[(p + 1) - 1])
  BY <1>1, <1>2
<1>4. g[p + 1] = iteration(args, p + 1, g[p])
  BY <1>1, <1>3, Zenon
<1> QED BY <1>4, Zenon DEF iteration

\* An iteration that skips it.
LEMMA Skips ==
  ASSUME NEW args, NEW g, Loops(g, args), NEW p \in Nat, p < Len(args), Len(args) \in Nat,
         NEW x, g[p] = [out |-> x, skipNext |-> TRUE]
  PROVE  g[p + 1] = [out |-> x, skipNext |-> FALSE]
<1>1. p + 1 \in 1 .. Len(args) /\ (p + 1) - 1 = p
  OBVIOUS
<1>2. \A i \in 1 .. Len(args) : g[i] = iteration(args, i, g[i - 1])
  BY Zenon DEF Loops
<1>3. g[p + 1] = iteration(args, p + 1, g[(p + 1) - 1])
  BY <1>1, <1>2
<1>4. g[p + 1] = iteration(args, p + 1, g[p])
  BY <1>1, <1>3, Zenon
<1>5. g[p].skipNext = TRUE /\ [g[p] EXCEPT !.skipNext = FALSE] = [out |-> x, skipNext |-> FALSE]
  <2>1. ASSUME NEW w, NEW t, NEW f, w = [out |-> x, skipNext |-> t]
        PROVE  w.skipNext = t /\ [w EXCEPT !.skipNext = f] = [out |-> x, skipNext |-> f]
    BY <2>1
  <2>2. PICK t : t = TRUE
    OBVIOUS
  <2>3. PICK f : f = FALSE
    BY Zenon
  <2>4. g[p].skipNext = t /\ [g[p] EXCEPT !.skipNext = f] = [out |-> x, skipNext |-> f]
    <3>1. PICK w : w = g[p]
      OBVIOUS
    <3>2. w = [out |-> x, skipNext |-> t]
      BY <2>2, <3>1, Zenon
    <3>3. w.skipNext = t /\ [w EXCEPT !.skipNext = f] = [out |-> x, skipNext |-> f]
      BY <2>1, <3>2, Zenon
    <3> QED BY <3>1, <3>3, Zenon
  <2> QED BY <2>2, <2>3, <2>4, Zenon
<1> QED BY <1>4, <1>5, Zenon DEF iteration

\* The places of the elements of two sequences in their concatenation.
LEMMA ConcatOf ==
  ASSUME NEW S, NEW x \in Seq(S), NEW y \in Seq(S)
  PROVE  /\ x \o y \in Seq(S) /\ Len(x \o y) = Len(x) + Len(y)
         /\ \A i \in 1 .. Len(x) : (x \o y)[i] = x[i]
         /\ \A i \in 1 .. Len(y) : (x \o y)[Len(x) + i] = y[i]
OBVIOUS

\* The flags of a sequence, and of two.
LEMMA FlagsOf ==
  ASSUME NEW x \in Seq(Args), NEW y \in Seq(Args)
  PROVE  /\ Flags(x) \in Seq(Names) /\ Len(Flags(x)) = Len(x)
         /\ Flags(x \o y) = Flags(x) \o Flags(y)
<1>1. ASSUME NEW z \in Seq(Args)
      PROVE  /\ Flags(z) \in Seq(Names) /\ Len(Flags(z)) = Len(z)
             /\ \A i \in 1 .. Len(z) : Flags(z)[i] = z[i].flag
  <2>1. PICK n \in Nat : n = Len(z)
    OBVIOUS
  <2>2. z \in [1 .. n -> Args]
    BY <2>1
  <2>3. \A i \in 1 .. n : z[i].flag \in Names
    <3>1. \A i \in 1 .. n : z[i] \in Args
      BY <2>2
    <3> QED BY <3>1 DEF Args
  <2>4. Flags(z) = [i \in 1 .. n |-> z[i].flag]
    BY <2>2 DEF Flags
  <2>5. Flags(z) \in [1 .. n -> Names]
    BY <2>3, <2>4
  <2>6. Flags(z) \in Seq(Names) /\ Len(Flags(z)) = n
    BY <2>5, FcnIsSeq
  <2> QED BY <2>1, <2>4, <2>6
<1>2. x \o y \in Seq(Args) /\ Len(x \o y) = Len(x) + Len(y) /\ Len(x) \in Nat /\ Len(y) \in Nat
  OBVIOUS
<1>3. \A i \in 1 .. Len(x \o y) : (x \o y)[i] = IF i <= Len(x) THEN x[i] ELSE y[i - Len(x)]
  OBVIOUS
<1>4. PICK fx : fx = Flags(x)
  OBVIOUS
<1>5. PICK fy : fy = Flags(y)
  OBVIOUS
<1>6. PICK z : z = x \o y
  BY Zenon
<1>7. PICK fz : fz = Flags(z)
  BY Zenon
<1>8. fx \in Seq(Names) /\ Len(fx) = Len(x) /\ \A i \in 1 .. Len(x) : fx[i] = x[i].flag
  BY <1>1, <1>4, Zenon
<1>9. fy \in Seq(Names) /\ Len(fy) = Len(y) /\ \A i \in 1 .. Len(y) : fy[i] = y[i].flag
  BY <1>1, <1>5
<1>10. fz \in Seq(Names) /\ Len(fz) = Len(x) + Len(y) /\ \A i \in 1 .. Len(fz) : fz[i] = z[i].flag
  BY <1>1, <1>2, <1>6, <1>7, Zenon
<1>11. fz = fx \o fy
  <2>1. Len(fx \o fy) = Len(fz) /\ fx \o fy \in Seq(Names)
    <3>1. Len(fx \o fy) = Len(fx) + Len(fy) /\ fx \o fy \in Seq(Names)
      BY <1>8, <1>9, ConcatOf, Zenon
    <3> QED BY <1>8, <1>9, <1>10, <3>1, Zenon
  <2>2. ASSUME NEW i \in 1 .. Len(fz) PROVE fz[i] = (fx \o fy)[i]
    <3>1. CASE i <= Len(x)
      <4>1. z[i] = x[i] /\ i \in 1 .. Len(x)
        BY <1>2, <1>3, <1>6, <1>10, <3>1, SMTT(30)
      <4>2. (fx \o fy)[i] = fx[i]
        BY <1>2, <1>8, <1>9, <1>10, <3>1
      <4> QED BY <1>8, <1>10, <4>1, <4>2, Zenon
    <3>2. CASE i > Len(x)
      <4>1. z[i] = y[i - Len(x)] /\ i - Len(x) \in 1 .. Len(y)
        BY <1>2, <1>3, <1>6, <1>10, <3>2, SMTT(30)
      <4>2. (fx \o fy)[i] = fy[i - Len(x)]
        BY <1>2, <1>8, <1>9, <1>10, <3>2
      <4> QED BY <1>9, <1>10, <4>1, <4>2, Zenon
    <3>3. i <= Len(x) \/ i > Len(x)
      BY <1>2, <1>10
    <3> QED BY <3>1, <3>2, <3>3, Zenon
  <2> QED BY <1>10, <2>1, <2>2, SMTT(30)
<1> QED BY <1>4, <1>5, <1>6, <1>7, <1>8, <1>11, Zenon

\* A flag has its name, and no clauses.
LEMMA FlagFields ==
  ASSUME NEW f
  PROVE  Flag(f).flag = f /\ Flag(f).keys = {}
BY DEF Flag

\* Flags and values are arguments.
LEMMA ArgsAre ==
  /\ \A f \in Names : Flag(f) \in Args
  /\ \A K \in SUBSET Keys : Value(K) \in Args
<1>1. ASSUME NEW f \in Names, NEW K \in SUBSET Keys PROVE [flag |-> f, keys |-> K] \in Args
  BY DEF Args
<1>2. "" \in Names /\ {} \in SUBSET Keys
  BY DEF Names
<1> QED BY <1>1, <1>2, Zenon DEF Flag, Value

\* What the loop makes of a flag and its value when it skips the value.
LEMMA PairSkips ==
  ASSUME NEW args, NEW g, Loops(g, args), NEW p \in Nat, p + 2 <= Len(args), Len(args) \in Nat,
         g[p].skipNext = FALSE, skipsNext(args, p + 1) = TRUE
  PROVE  g[p + 2] = [out |-> g[p].out \o appends(args, p + 1), skipNext |-> FALSE]
<1>1. p < Len(args) /\ p + 1 < Len(args) /\ p + 1 \in Nat /\ (p + 1) + 1 = p + 2
  OBVIOUS
<1>2. g[p + 1] = [out |-> g[p].out \o appends(args, p + 1), skipNext |-> skipsNext(args, p + 1)]
  BY <1>1, Looks, Zenon
<1>3. g[p + 1] = [out |-> g[p].out \o appends(args, p + 1), skipNext |-> TRUE]
  BY <1>2, Zenon
<1>4. PICK q : q = p + 1
  OBVIOUS
<1>5. PICK x : x = g[p].out \o appends(args, p + 1)
  BY Zenon
<1>6. q \in Nat /\ q < Len(args) /\ g[q] = [out |-> x, skipNext |-> TRUE]
  BY <1>1, <1>3, <1>4, <1>5, Zenon
<1>7. g[q + 1] = [out |-> x, skipNext |-> FALSE]
  BY <1>6, Skips, Zenon
<1>8. q + 1 = p + 2
  BY <1>4
<1> QED BY <1>5, <1>7, <1>8, Zenon

\* What it makes of them when it passes both on.
LEMMA PairPasses ==
  ASSUME NEW args, NEW g, Loops(g, args), NEW p \in Nat, p + 2 <= Len(args), Len(args) \in Nat,
         g[p].skipNext = FALSE, g[p].out \in Seq(Args), skipsNext(args, p + 1) = FALSE,
         NEW a \in Args, appends(args, p + 1) = <<a>>,
         NEW K \in SUBSET Keys, args[p + 2] = Value(K)
  PROVE  g[p + 2] = [out |-> g[p].out \o <<a, substitute(args, Value(K))>>, skipNext |-> FALSE]
<1>1. p < Len(args) /\ p + 1 < Len(args) /\ p + 1 \in Nat /\ (p + 1) + 1 = p + 2
  OBVIOUS
<1>2. g[p + 1] = [out |-> g[p].out \o appends(args, p + 1), skipNext |-> skipsNext(args, p + 1)]
  BY <1>1, Looks, Zenon
<1>3. g[p + 1] = [out |-> g[p].out \o <<a>>, skipNext |-> FALSE]
  BY <1>2, Zenon
<1>4. PICK q : q = p + 1
  BY Zenon
<1>5. PICK w : w = g[p].out
  BY Zenon
<1>6. ASSUME NEW y, NEW f, NEW r, r = [out |-> y, skipNext |-> f] PROVE r.out = y /\ r.skipNext = f
  BY <1>6, Zenon
<1>7. q \in Nat /\ q < Len(args) /\ q + 1 = p + 2
  BY <1>1, <1>4
<1>8. g[q] = [out |-> w \o <<a>>, skipNext |-> FALSE]
  BY <1>3, <1>4, <1>5, Zenon
<1>9. g[q].out = w \o <<a>> /\ g[q].skipNext = FALSE
  <2>1. PICK f : f = FALSE
    OBVIOUS
  <2>2. PICK y : y = w \o <<a>>
    BY Zenon
  <2>3. PICK r : r = g[q]
    OBVIOUS
  <2>4. r = [out |-> y, skipNext |-> f]
    BY <1>8, <2>1, <2>2, <2>3, Zenon
  <2>5. r.out = y /\ r.skipNext = f
    BY <1>6, <2>4, Zenon
  <2> QED BY <2>1, <2>2, <2>3, <2>5, Zenon
<1>10. g[q + 1] = [out |-> g[q].out \o appends(args, q + 1), skipNext |-> skipsNext(args, q + 1)]
  BY <1>7, <1>9, Looks, Zenon
<1>11. PICK v : v = substitute(args, Value(K))
  OBVIOUS
<1>12. v \in Args
  BY <1>11, ArgsAre, RewrittenArgs, Zenon
<1>13. appends(args, p + 2) = <<v>> /\ skipsNext(args, p + 2) = FALSE
  <2>1. args[p + 2].flag = ""
    BY ValueFields, Zenon
  <2>2. "" \notin {"-daemonize", "-incoming", "-qmp", "-netdev", "-device"} /\ p + 2 \in Nat
    OBVIOUS
  <2>3. "" \notin {"-incoming", "-qmp", "-netdev", "-device"}
    OBVIOUS
  <2>4. appends(args, p + 2) = <<substitute(args, args[p + 2])>>
    BY <2>1, <2>2, AppendsCases, Zenon
  <2>5. skipsNext(args, p + 2) = FALSE
    BY <2>1, <2>2, <2>3, SkipsCases, Zenon
  <2> QED BY <1>11, <2>4, <2>5, Zenon
<1>14. (w \o <<a>>) \o <<v>> = w \o <<a, v>>
  <2>1. w \in Seq(Args)
    BY <1>5
  <2> QED BY <1>12, <2>1, SMTT(30)
<1> QED BY <1>5, <1>7, <1>9, <1>10, <1>11, <1>13, <1>14, Zenon

\* An option that is not kept adds nothing.
LEMMA AddsNone ==
  ASSUME NEW o, ~kept(o)
  PROVE  Adds(o, <<>>)
BY DEF Adds

\* An option with a value adds its flag and a clean value.
LEMMA AddsPair ==
  ASSUME NEW o, kept(o), NEW a \in Args, NEW v \in Args, Clean(a), Clean(v),
         NEW b, NEW c, o = <<b, c>>, a.flag = b.flag, v.flag = c.flag
  PROVE  Adds(o, <<a, v>>)
<1>1. <<a, v>> \in Seq(Args)
  OBVIOUS
<1>2. DOMAIN <<a, v>> = 1 .. 2 /\ DOMAIN o = 1 .. 2
  OBVIOUS
<1>3. \A i \in 1 .. 2 : i = 1 \/ i = 2
  OBVIOUS
<1>4. \A i \in 1 .. 2 : <<a, v>>[i].flag = o[i].flag
  BY <1>3
<1>5. Flags(<<a, v>>) = Flags(o)
  BY <1>2, <1>4, Zenon DEF Flags
<1>6. \A i \in 1 .. 2 : Clean(<<a, v>>[i])
  BY <1>3
<1> QED BY <1>1, <1>2, <1>5, <1>6, Zenon DEF Adds

\* The flag f with the value K, as an option.
Pair(f, K) == <<Flag(f), Value(K)>>

\* The options, by what the loop does with them.
LEMMA OptionForms ==
  ASSUME NEW o \in Options
  PROVE  \/ \E f \in {"-daemonize", "-nographic"} : o = <<Flag(f)>>
         \/ o = Pair("-incoming", {}) \/ o = Pair("-qmp", {"fd"})
         \/ \E K \in SUBSET {"fd", "ifname", "script"} : o = Pair("-netdev", {"tap"} \cup K)
         \/ \E K \in SUBSET {"fd"} : o = Pair("-device", K)
         \/ \E f \in {"-qmp", "-object", "-chardev"} :
              \E K \in {{"srcDir"}, {"image", "ro"}, {"shm"}, {"stray", "ro"}, {"srcDir", "srcKey"}} :
                o = Pair(f, K)
<1>1. \/ o = <<Flag("-daemonize")>> \/ o = <<Flag("-nographic")>>
      \/ o = Pair("-incoming", {})
      \/ o = Pair("-qmp", {"fd"}) \/ o = Pair("-qmp", {"srcDir"})
      \/ \E K \in SUBSET {"fd", "ifname", "script"} : o = Pair("-netdev", {"tap"} \cup K)
      \/ \E K \in SUBSET {"fd"} : o = Pair("-device", K)
      \/ \E K \in {{"image", "ro"}, {"shm"}, {"stray", "ro"}} : o = Pair("-object", K)
      \/ \E K \in {{"srcDir"}, {"srcDir", "srcKey"}} : o = Pair("-chardev", K)
  BY Zenon DEF Options, Pair
<1>2. CASE o = Pair("-qmp", {"srcDir"})
  BY <1>2, Zenon
<1>3. CASE \E K \in {{"image", "ro"}, {"shm"}, {"stray", "ro"}} : o = Pair("-object", K)
  <2>1. \E K \in {{"srcDir"}, {"image", "ro"}, {"shm"}, {"stray", "ro"}, {"srcDir", "srcKey"}} : o = Pair("-object", K)
    BY <1>3, Zenon
  <2> QED BY <2>1, Zenon
<1>4. CASE \E K \in {{"srcDir"}, {"srcDir", "srcKey"}} : o = Pair("-chardev", K)
  <2>1. \E K \in {{"srcDir"}, {"image", "ro"}, {"shm"}, {"stray", "ro"}, {"srcDir", "srcKey"}} : o = Pair("-chardev", K)
    BY <1>4, Zenon
  <2> QED BY <2>1, Zenon
<1> QED BY <1>1, <1>2, <1>3, <1>4, Zenon

\* The parts of a pair.
LEMMA PairParts ==
  ASSUME NEW f, NEW K
  PROVE  Len(Pair(f, K)) = 2 /\ Pair(f, K)[1] = Flag(f) /\ Pair(f, K)[2] = Value(K)
BY DEF Pair

\* The pairs that are kept.
LEMMA PairKept ==
  ASSUME NEW f, NEW K
  PROVE  /\ f \notin {"-daemonize", "-incoming", "-qmp"} => kept(Pair(f, K))
         /\ f = "-qmp" /\ "fd" \notin K => kept(Pair(f, K))
         /\ f = "-incoming" => ~kept(Pair(f, K))
         /\ f = "-qmp" /\ "fd" \in K => ~kept(Pair(f, K))
<1>1. PICK o : o = Pair(f, K)
  OBVIOUS
<1>2. o[1].flag = f /\ o[2].keys = K
  <2>1. o[1] = Flag(f) /\ o[2] = Value(K)
    BY <1>1, PairParts, Zenon
  <2> QED BY <2>1, FlagFields, ValueFields, Zenon
<1>3. "-qmp" \notin {"-daemonize", "-incoming"}
  OBVIOUS
<1>4. /\ f \notin {"-daemonize", "-incoming", "-qmp"} => kept(o)
      /\ f = "-qmp" /\ "fd" \notin K => kept(o)
      /\ f = "-incoming" => ~kept(o)
      /\ f = "-qmp" /\ "fd" \in K => ~kept(o)
  BY <1>2, <1>3, Zenon DEF kept
<1> QED BY <1>1, <1>4, Zenon

\* An option is one or two arguments.
LEMMA OptionArgs ==
  ASSUME NEW o \in Options
  PROVE  o \in Seq(Args) /\ Len(o) \in {1, 2}
<1>1. ASSUME NEW f \in Names, NEW K \in SUBSET Keys, o = Pair(f, K) PROVE o \in Seq(Args) /\ Len(o) \in {1, 2}
  <2>1. Flag(f) \in Args /\ Value(K) \in Args
    BY ArgsAre, Zenon
  <2> QED BY <1>1, <2>1 DEF Pair
<1>2. ASSUME NEW f \in Names, o = <<Flag(f)>> PROVE o \in Seq(Args) /\ Len(o) \in {1, 2}
  <2>1. Flag(f) \in Args
    BY ArgsAre, Zenon
  <2> QED BY <1>2, <2>1
<1>3. ASSUME NEW f \in {"-daemonize", "-nographic", "-incoming", "-qmp", "-netdev", "-device", "-object", "-chardev"}
      PROVE  f \in Names
  BY Zenon DEF Names
<1>4. CASE \E f \in {"-daemonize", "-nographic"} : o = <<Flag(f)>>
  BY <1>2, <1>3, <1>4, Zenon
<1>5. CASE o = Pair("-incoming", {}) \/ o = Pair("-qmp", {"fd"})
  <2>1. {} \in SUBSET Keys /\ {"fd"} \in SUBSET Keys
    BY DEF Keys
  <2> QED BY <1>1, <1>3, <1>5, <2>1, Zenon
<1>6. CASE \E K \in SUBSET {"fd", "ifname", "script"} : o = Pair("-netdev", {"tap"} \cup K)
  <2>1. \A K \in SUBSET {"fd", "ifname", "script"} : {"tap"} \cup K \in SUBSET Keys
    BY DEF Keys
  <2> QED BY <1>1, <1>3, <1>6, <2>1, Zenon
<1>7. CASE \E K \in SUBSET {"fd"} : o = Pair("-device", K)
  <2>1. \A K \in SUBSET {"fd"} : K \in SUBSET Keys
    BY DEF Keys
  <2> QED BY <1>1, <1>3, <1>7, <2>1, Zenon
<1>8. CASE \E f \in {"-qmp", "-object", "-chardev"} :
             \E K \in {{"srcDir"}, {"image", "ro"}, {"shm"}, {"stray", "ro"}, {"srcDir", "srcKey"}} : o = Pair(f, K)
  <2>1. \A K \in {{"srcDir"}, {"image", "ro"}, {"shm"}, {"stray", "ro"}, {"srcDir", "srcKey"}} : K \in SUBSET Keys
    BY DEF Keys
  <2>2. PICK f \in {"-qmp", "-object", "-chardev"},
             K \in {{"srcDir"}, {"image", "ro"}, {"shm"}, {"stray", "ro"}, {"srcDir", "srcKey"}} : o = Pair(f, K)
    BY <1>8, Zenon
  <2>3. f \in Names /\ K \in SUBSET Keys
    BY <2>1, <1>3
  <2> QED BY <1>1, <2>2, <2>3, Zenon
<1> QED BY <1>4, <1>5, <1>6, <1>7, <1>8, OptionForms, Zenon

\* What the iteration for the flag of a pair does.
PairIteration(args, p, f, K) ==
  /\ f = "-incoming" => appends(args, p + 1) = <<>> /\ skipsNext(args, p + 1) = TRUE
  /\ f = "-qmp" /\ "fd" \in K => appends(args, p + 1) = <<>> /\ skipsNext(args, p + 1) = TRUE
  /\ f = "-qmp" /\ "fd" \notin K => appends(args, p + 1) = <<Flag(f)>> /\ skipsNext(args, p + 1) = FALSE
  /\ f = "-netdev" => /\ appends(args, p + 1) = <<Flag(f), tapKeys(stripFDKeys(Value(K)))>>
                      /\ skipsNext(args, p + 1) = TRUE
  /\ f = "-device" => /\ appends(args, p + 1) = <<Flag(f), stripFDKeys(Value(K))>>
                      /\ skipsNext(args, p + 1) = TRUE
  /\ f \in {"-object", "-chardev"} => appends(args, p + 1) = <<Flag(f)>> /\ skipsNext(args, p + 1) = FALSE

\* The iteration does that.
LEMMA PairAppends ==
  ASSUME NEW args, NEW p \in Nat, Len(args) \in Nat, p + 2 <= Len(args),
         NEW f, NEW K, args[p + 1] = Flag(f), args[p + 2] = Value(K)
  PROVE  PairIteration(args, p, f, K)
<1>1. PICK i : i = p + 1
  OBVIOUS
<1>2. i \in Nat /\ i < Len(args) /\ i + 1 = p + 2
  BY <1>1
<1>3. args[i] = Flag(f) /\ args[i + 1] = Value(K)
  BY <1>1, <1>2, Zenon
<1>4. args[i].flag = f /\ args[i + 1].keys = K
  BY <1>3, FlagFields, ValueFields, Zenon
<1>5. substitute(args, Flag(f)) = Flag(f)
  BY SubstituteFlag, Zenon
<1>6. ASSUME f = "-incoming" PROVE appends(args, i) = <<>> /\ skipsNext(args, i) = TRUE
  <2>1. args[i].flag \in {"-daemonize", "-incoming"} /\ args[i].flag \in {"-incoming", "-netdev", "-device"}
    BY <1>4, <1>6, Zenon
  <2> QED BY <1>2, <2>1, AppendsCases, SkipsCases, Zenon
<1>7. ASSUME f = "-qmp", "fd" \in K PROVE appends(args, i) = <<>> /\ skipsNext(args, i) = TRUE
  <2>1. args[i].flag = "-qmp" /\ "fd" \in args[i + 1].keys
    BY <1>4, <1>7, Zenon
  <2>2. skipsNext(args, i) = TRUE
    BY <1>2, <2>1, SkipsCases, Zenon
  <2>3. appends(args, i) = IF skipsNext(args, i) THEN <<>> ELSE <<args[i]>>
    BY <1>2, <2>1, AppendsCases, Zenon
  <2> QED BY <2>2, <2>3, Zenon
<1>8. ASSUME f = "-qmp", "fd" \notin K PROVE appends(args, i) = <<Flag(f)>> /\ skipsNext(args, i) = FALSE
  <2>1. args[i].flag = "-qmp" /\ "fd" \notin args[i + 1].keys
    BY <1>4, <1>8, Zenon
  <2>2. skipsNext(args, i) = FALSE
    BY <1>2, <2>1, SkipsCases, Zenon
  <2>3. appends(args, i) = IF skipsNext(args, i) THEN <<>> ELSE <<args[i]>>
    BY <1>2, <2>1, AppendsCases, Zenon
  <2> QED BY <1>3, <2>2, <2>3, Zenon
<1>9. ASSUME f = "-netdev"
      PROVE  appends(args, i) = <<Flag(f), tapKeys(stripFDKeys(Value(K)))>> /\ skipsNext(args, i) = TRUE
  <2>1. args[i].flag = "-netdev" /\ args[i].flag \in {"-incoming", "-netdev", "-device"}
    BY <1>4, <1>9, Zenon
  <2>2. appends(args, i) = <<args[i], tapKeys(stripFDKeys(args[i + 1]))>>
    BY <1>2, <2>1, AppendsCases, Zenon
  <2>3. skipsNext(args, i) = TRUE
    BY <1>2, <2>1, SkipsCases, Zenon
  <2> QED BY <1>3, <2>2, <2>3, Zenon
<1>10. ASSUME f = "-device"
       PROVE  appends(args, i) = <<Flag(f), stripFDKeys(Value(K))>> /\ skipsNext(args, i) = TRUE
  <2>1. args[i].flag = "-device" /\ args[i].flag \in {"-incoming", "-netdev", "-device"}
    BY <1>4, <1>10, Zenon
  <2>2. appends(args, i) = <<args[i], stripFDKeys(args[i + 1])>>
    BY <1>2, <2>1, AppendsCases, Zenon
  <2>3. skipsNext(args, i) = TRUE
    BY <1>2, <2>1, SkipsCases, Zenon
  <2> QED BY <1>3, <2>2, <2>3, Zenon
<1>11. ASSUME f \in {"-object", "-chardev"}
       PROVE  appends(args, i) = <<Flag(f)>> /\ skipsNext(args, i) = FALSE
  <2>1. /\ f \notin {"-daemonize", "-incoming", "-qmp", "-netdev", "-device"}
        /\ f \notin {"-incoming", "-qmp", "-netdev", "-device"}
    BY <1>11
  <2>2. appends(args, i) = <<substitute(args, args[i])>>
    <3>1. args[i].flag \notin {"-daemonize", "-incoming", "-qmp", "-netdev", "-device"}
      BY <1>4, <2>1, Zenon
    <3> QED BY <1>2, <3>1, AppendsCases, Zenon
  <2>3. skipsNext(args, i) = FALSE
    <3>1. args[i].flag \notin {"-incoming", "-qmp", "-netdev", "-device"}
      BY <1>4, <2>1, Zenon
    <3> QED BY <1>2, <3>1, SkipsCases, Zenon
  <2> QED BY <1>3, <1>5, <2>2, <2>3, Zenon
<1> QED BY <1>1, <1>6, <1>7, <1>8, <1>9, <1>10, <1>11, Zenon DEF PairIteration

\* The loop goes from p to q over the option o.
Passes(g, o, p, q) ==
  \E e : Adds(o, e) /\ g[q] = [out |-> g[p].out \o e, skipNext |-> FALSE]

\* What is made of the value of -netdev or -device is a value.
LEMMA StripArgs ==
  ASSUME NEW K \in SUBSET Keys
  PROVE  /\ stripFDKeys(Value(K)) \in Args /\ stripFDKeys(Value(K)).flag = ""
         /\ tapKeys(stripFDKeys(Value(K))) \in Args /\ tapKeys(stripFDKeys(Value(K))).flag = ""
<1>1. PICK a : a = Value(K)
  OBVIOUS
<1>2. a \in Args /\ a.flag = ""
  BY <1>1, ArgsAre, ValueFields, Zenon
<1>3. PICK b : b = stripFDKeys(a)
  OBVIOUS
<1>4. b \in Args /\ b.flag = ""
  BY <1>2, <1>3, RewrittenArgs, Zenon
<1>5. tapKeys(b) \in Args /\ tapKeys(b).flag = ""
  BY <1>4, RewrittenArgs, Zenon
<1> QED BY <1>1, <1>3, <1>4, <1>5, Zenon

\* The loop passes over an option without a value.
LEMMA OneStep ==
  ASSUME NEW args, NEW g, Loops(g, args), NEW p \in Nat, Len(args) \in Nat, p < Len(args),
         g[p].skipNext = FALSE, NEW f \in {"-daemonize", "-nographic"}, args[p + 1] = Flag(f),
         NEW o \in Options, o = <<Flag(f)>>
  PROVE  Passes(g, o, p, p + 1)
<1>1. Len(o) = 1 /\ o[1] = Flag(f) /\ DOMAIN o = 1 .. 1
  OBVIOUS
<1>2. p < Len(args) /\ p + 1 \in Nat /\ args[p + 1] = Flag(f)
  BY <1>1
<1>3. args[p + 1].flag = f
  BY <1>2, FlagFields, Zenon
<1>4. g[p + 1] = [out |-> g[p].out \o appends(args, p + 1), skipNext |-> skipsNext(args, p + 1)]
  BY <1>2, Looks, Zenon
<1>5. skipsNext(args, p + 1) = FALSE
  <2>1. f \notin {"-incoming", "-qmp", "-netdev", "-device"}
    OBVIOUS
  <2> QED BY <1>2, <1>3, <2>1, SkipsCases, Zenon
<1>6. CASE f = "-daemonize"
  <2>1. appends(args, p + 1) = <<>>
    <3>1. args[p + 1].flag \in {"-daemonize", "-incoming"}
      BY <1>3, <1>6, Zenon
    <3> QED BY <1>2, <3>1, AppendsCases, Zenon
  <2>2. Adds(o, <<>>)
    <3>1. o[1].flag = "-daemonize"
      BY <1>1, <1>6, FlagFields, Zenon
    <3>2. ~kept(o)
      BY <3>1, Zenon DEF kept
    <3> QED BY <3>2, AddsNone, Zenon
  <2> QED BY <1>4, <1>5, <2>1, <2>2, Zenon DEF Passes
<1>7. CASE f = "-nographic"
  <2>1. appends(args, p + 1) = <<Flag(f)>>
    <3>1. f \notin {"-daemonize", "-incoming", "-qmp", "-netdev", "-device"}
      BY <1>7
    <3>2. appends(args, p + 1) = <<substitute(args, args[p + 1])>>
      BY <1>2, <1>3, <3>1, AppendsCases, Zenon
    <3> QED BY <1>2, <3>2, SubstituteFlag, Zenon
  <2>2. Adds(o, <<Flag(f)>>)
    <3>1. o[1].flag = "-nographic"
      BY <1>1, <1>7, FlagFields, Zenon
    <3>2. kept(o)
      <4>1. "-nographic" \notin {"-daemonize", "-incoming"} /\ "-nographic" # "-qmp"
        OBVIOUS
      <4> QED BY <3>1, <4>1, Zenon DEF kept
    <3>3. o \in Seq(Args)
      BY OptionArgs, Zenon
    <3>4. \A i \in DOMAIN o : Clean(o[i])
      <4>1. \A i \in DOMAIN o : i = 1
        BY <1>1
      <4> QED BY <1>1, <4>1, FlagClean, Zenon
    <3>5. Adds(o, o)
      BY <3>2, <3>3, <3>4, Zenon DEF Adds
    <3> QED BY <3>5, Zenon
  <2> QED BY <1>4, <1>5, <2>1, <2>2, Zenon DEF Passes
<1> QED BY <1>6, <1>7, Zenon

\* A pair that the loop skips when it has added e.
LEMMA SkippedPair ==
  ASSUME NEW args, NEW g, Loops(g, args), NEW p \in Nat, Len(args) \in Nat, p + 2 <= Len(args),
         g[p].skipNext = FALSE, NEW o, NEW e, Adds(o, e),
         appends(args, p + 1) = e, skipsNext(args, p + 1) = TRUE
  PROVE  Passes(g, o, p, p + 2)
<1>1. g[p + 2] = [out |-> g[p].out \o appends(args, p + 1), skipNext |-> FALSE]
  BY PairSkips, Zenon
<1> QED BY <1>1, Zenon DEF Passes

\* A pair that it passes on.
LEMMA PassedPair ==
  ASSUME NEW args, NEW g, Loops(g, args), NEW p \in Nat, Len(args) \in Nat, p + 2 <= Len(args),
         g[p].skipNext = FALSE, g[p].out \in Seq(Args), DOMAIN args = 1 .. Len(args),
         NEW f \in Names, NEW K \in SUBSET {"srcDir", "srcKey", "image", "shm", "stray", "ro"},
         "srcKey" \in K => "srcDir" \in K, args[p + 2] = Value(K),
         appends(args, p + 1) = <<Flag(f)>>, skipsNext(args, p + 1) = FALSE, kept(Pair(f, K))
  PROVE  Passes(g, Pair(f, K), p, p + 2)
<1>1. K \in SUBSET Keys
  BY Zenon DEF Keys
<1>2. PICK v : v = substitute(args, Value(K))
  BY Zenon
<1>3. PICK a : a = Flag(f)
  OBVIOUS
<1>4. a \in Args /\ Value(K) \in Args
  BY <1>1, <1>3, ArgsAre, Zenon
<1>5. g[p + 2] = [out |-> g[p].out \o <<a, v>>, skipNext |-> FALSE]
  <2>1. appends(args, p + 1) = <<a>>
    BY <1>3, Zenon
  <2>2. g[p + 2] = [out |-> g[p].out \o <<a, substitute(args, Value(K))>>, skipNext |-> FALSE]
    BY <1>1, <1>4, <2>1, PairPasses, ZenonT(40)
  <2> QED BY <1>2, <2>2, Zenon
<1>6. v \in Args /\ v.flag = Value(K).flag
  BY <1>2, <1>4, RewrittenArgs, Zenon
<1>7. Clean(v)
  <2>1. p + 2 \in DOMAIN args
    OBVIOUS
  <2>2. \A k \in K : Has(args, k)
    <3>1. args[p + 2].keys = K
      BY ValueFields, Zenon
    <3> QED BY <2>1, <3>1, Zenon DEF Has
  <2>3. /\ "srcDir" \in K \/ "srcKey" \in K => findSrcSandboxDir(args)
        /\ "image" \in K => extractNvdimmPath(args)
    BY <2>2, Zenon DEF findSrcSandboxDir, extractNvdimmPath
  <2>4. Clean(substitute(args, Value(K)))
    BY <2>3, SubstituteCleans
  <2> QED BY <1>2, <2>4, Zenon
<1>8. Adds(Pair(f, K), <<a, v>>)
  <2>1. PICK o : o = Pair(f, K)
    OBVIOUS
  <2>2. o = <<a, Value(K)>> /\ kept(o)
    BY <1>3, <2>1, Zenon DEF Pair
  <2>3. Clean(a)
    BY <1>3, FlagClean, Zenon
  <2>4. Adds(o, <<a, v>>)
    BY <1>4, <1>6, <1>7, <2>2, <2>3, AddsPair, Zenon
  <2> QED BY <2>1, <2>4, Zenon
<1> QED BY <1>5, <1>8, Zenon DEF Passes

\* The loop passes over every option and adds what it should.
LEMMA OptionStep ==
  ASSUME NEW args \in Seq(Args), NEW g, Loops(g, args), NEW o \in Options,
         NEW p \in Nat, p + Len(o) <= Len(args), \A i \in 1 .. Len(o) : args[p + i] = o[i],
         g[p].skipNext = FALSE, g[p].out \in Seq(Args)
  PROVE  Passes(g, o, p, p + Len(o))
<1>1. Len(args) \in Nat /\ DOMAIN args = 1 .. Len(args)
  OBVIOUS
<1>2. ASSUME NEW f \in {"-daemonize", "-nographic"}, o = <<Flag(f)>> PROVE Passes(g, o, p, p + Len(o))
  <2>1. Len(o) = 1 /\ o[1] = Flag(f)
    BY <1>2, Zenon
  <2>2. p < Len(args) /\ args[p + 1] = Flag(f)
    BY <1>1, <2>1
  <2>3. Passes(g, o, p, p + 1)
    BY <1>1, <1>2, <2>2, OneStep, Zenon
  <2> QED BY <2>1, <2>3, Zenon
<1>3. ASSUME NEW f, NEW K, o = Pair(f, K)
      PROVE  Len(o) = 2 /\ p + 2 <= Len(args) /\ args[p + 1] = Flag(f) /\ args[p + 2] = Value(K)
  <2>1. Len(o) = 2 /\ o[1] = Flag(f) /\ o[2] = Value(K)
    BY <1>3, PairParts, ZenonT(40)
  <2> QED BY <1>1, <2>1
\* The pair is dropped.
<1>4. ASSUME NEW f, NEW K, o = Pair(f, K), f = "-incoming" \/ (f = "-qmp" /\ "fd" \in K)
      PROVE  Passes(g, o, p, p + Len(o))
  <2>1. Len(o) = 2 /\ p + 2 <= Len(args) /\ args[p + 1] = Flag(f) /\ args[p + 2] = Value(K)
    BY <1>3, <1>4, Zenon
  <2>2. appends(args, p + 1) = <<>> /\ skipsNext(args, p + 1) = TRUE
    <3>1. PairIteration(args, p, f, K)
      BY <1>1, <1>4, <2>1, PairAppends, Zenon
    <3> QED BY <1>4, <3>1, Zenon DEF PairIteration
  <2>3. Adds(o, <<>>)
    <3>1. ~kept(o)
      BY <1>4, PairKept, Zenon
    <3> QED BY <3>1, AddsNone, Zenon
  <2>4. Passes(g, o, p, p + 2)
    BY <1>1, <2>1, <2>2, <2>3, SkippedPair, Zenon
  <2> QED BY <2>1, <2>4, Zenon
\* The pair is rewritten by the iteration for its flag.
<1>5. ASSUME NEW f \in {"-netdev", "-device"}, NEW K \in SUBSET Keys, o = Pair(f, K),
             NEW v \in Args, v.flag = "", Clean(v),
             appends(args, p + 1) = <<Flag(f), v>>, skipsNext(args, p + 1) = TRUE
      PROVE  Passes(g, o, p, p + Len(o))
  <2>1. Len(o) = 2 /\ p + 2 <= Len(args)
    BY <1>3, <1>5, Zenon
  <2>2. PICK a : a = Flag(f)
    BY Zenon
  <2>3. PICK c : c = Value(K)
    OBVIOUS
  <2>4. f \in Names /\ f \notin {"-daemonize", "-incoming", "-qmp"}
    BY Zenon DEF Names
  <2>5. a \in Args /\ Clean(a) /\ c.flag = ""
    BY <2>2, <2>3, <2>4, ArgsAre, FlagClean, ValueFields, Zenon
  <2>6. kept(o)
    BY <1>5, <2>4, PairKept, Zenon
  <2>7. o = <<a, c>>
    BY <1>5, <2>2, <2>3, Zenon DEF Pair
  <2>8. v.flag = c.flag
    BY <1>5, <2>5, Zenon
  <2>9. Adds(o, <<a, v>>)
    BY <1>5, <2>5, <2>6, <2>7, <2>8, AddsPair, Zenon
  <2>10. appends(args, p + 1) = <<a, v>>
    BY <1>5, <2>2, Zenon
  <2>11. Passes(g, o, p, p + 2)
    <3>1. PICK e : e = <<a, v>>
      BY Zenon
    <3>2. Adds(o, e) /\ appends(args, p + 1) = e
      BY <2>9, <2>10, <3>1, Zenon
    <3> QED BY <1>1, <1>5, <2>1, <3>2, SkippedPair, Zenon
  <2> QED BY <2>1, <2>11, Zenon
<1>6. ASSUME NEW K \in SUBSET {"fd", "ifname", "script"}, o = Pair("-netdev", {"tap"} \cup K)
      PROVE  Passes(g, o, p, p + Len(o))
  <2>1. PICK T : T = {"tap"} \cup K
    BY Zenon
  <2>2. T \in SUBSET Keys
    BY <2>1, Zenon DEF Keys
  <2>3. PICK f : f = "-netdev"
    OBVIOUS
  <2>4. o = Pair(f, T)
    BY <1>6, <2>1, <2>3, Zenon
  <2>5. p + 2 <= Len(args) /\ args[p + 1] = Flag(f) /\ args[p + 2] = Value(T)
    BY <1>3, <2>4, Zenon
  <2>6. PICK v : v = tapKeys(stripFDKeys(Value(T)))
    OBVIOUS
  <2>7. v \in Args /\ v.flag = ""
    BY <2>2, <2>6, StripArgs, Zenon
  <2>8. Clean(v)
    BY <2>1, <2>6, StripCleans, Zenon
  <2>9. appends(args, p + 1) = <<Flag(f), tapKeys(stripFDKeys(Value(T)))>> /\ skipsNext(args, p + 1) = TRUE
    <3>1. PairIteration(args, p, f, T)
      BY <1>1, <2>3, <2>5, PairAppends, Zenon
    <3> QED BY <2>3, <3>1, Zenon DEF PairIteration
  <2>10. appends(args, p + 1) = <<Flag(f), v>> /\ f \in {"-netdev", "-device"}
    BY <2>3, <2>6, <2>9, Zenon
  <2> QED BY <1>5, <2>2, <2>4, <2>7, <2>8, <2>9, <2>10, Zenon
<1>7. ASSUME NEW K \in SUBSET {"fd"}, o = Pair("-device", K)
      PROVE  Passes(g, o, p, p + Len(o))
  <2>1. K \in SUBSET Keys /\ K \in SUBSET {"fd", "ifname", "script"}
    BY Zenon DEF Keys
  <2>2. PICK f : f = "-device"
    OBVIOUS
  <2>3. o = Pair(f, K)
    BY <1>7, <2>2, Zenon
  <2>4. p + 2 <= Len(args) /\ args[p + 1] = Flag(f) /\ args[p + 2] = Value(K)
    BY <1>3, <2>3, Zenon
  <2>5. PICK v : v = stripFDKeys(Value(K))
    OBVIOUS
  <2>6. v \in Args /\ v.flag = "" /\ Clean(v)
    BY <2>1, <2>5, StripArgs, StripCleans, Zenon
  <2>7. appends(args, p + 1) = <<Flag(f), stripFDKeys(Value(K))>> /\ skipsNext(args, p + 1) = TRUE
    <3>1. PairIteration(args, p, f, K)
      BY <1>1, <2>2, <2>4, PairAppends, Zenon
    <3> QED BY <2>2, <3>1, Zenon DEF PairIteration
  <2>8. appends(args, p + 1) = <<Flag(f), v>> /\ f \in {"-netdev", "-device"}
    BY <2>2, <2>5, <2>7, Zenon
  <2> QED BY <1>5, <2>1, <2>3, <2>6, <2>7, <2>8, Zenon
\* The pair is passed on.
<1>8. ASSUME NEW f \in {"-qmp", "-object", "-chardev"},
             NEW K \in {{"srcDir"}, {"image", "ro"}, {"shm"}, {"stray", "ro"}, {"srcDir", "srcKey"}},
             o = Pair(f, K)
      PROVE  Passes(g, o, p, p + Len(o))
  <2>1. /\ K \in SUBSET {"srcDir", "srcKey", "image", "shm", "stray", "ro"} /\ "fd" \notin K
        /\ "srcKey" \in K => "srcDir" \in K
    OBVIOUS
  <2>2. f \in Names /\ (f = "-qmp" \/ f \in {"-object", "-chardev"}) /\ f \notin {"-daemonize", "-incoming"}
    BY Zenon DEF Names
  <2>3. Len(o) = 2 /\ p + 2 <= Len(args) /\ args[p + 1] = Flag(f) /\ args[p + 2] = Value(K)
    BY <1>3, <1>8, Zenon
  <2>4. appends(args, p + 1) = <<Flag(f)>> /\ skipsNext(args, p + 1) = FALSE
    <3>1. PairIteration(args, p, f, K)
      BY <1>1, <2>1, <2>2, <2>3, PairAppends, Zenon
    <3> QED BY <2>1, <2>2, <3>1, Zenon DEF PairIteration
  <2>5. kept(Pair(f, K))
    BY <2>1, <2>2, PairKept, Zenon
  <2>6. Passes(g, Pair(f, K), p, p + 2)
    BY <1>1, <2>1, <2>2, <2>3, <2>4, <2>5, PassedPair, Zenon
  <2> QED BY <1>8, <2>3, <2>6, Zenon
<1>9. CASE o = Pair("-incoming", {}) \/ o = Pair("-qmp", {"fd"})
  <2>1. "fd" \in {"fd"}
    OBVIOUS
  <2> QED BY <1>4, <1>9, <2>1, Zenon
<1> QED BY <1>2, <1>6, <1>7, <1>8, <1>9, OptionForms, Zenon

\* f[i] is the concatenation of the first i sequences of s.
Concats(f, s, V) ==
  /\ f \in [0 .. Len(s) -> Seq(V)] /\ f[0] = <<>>
  /\ \A i \in 1 .. Len(s) : f[i] = f[i - 1] \o s[i]

\* The concatenations exist.
LEMMA ConcatsExist ==
  ASSUME NEW V, NEW s \in Seq(Seq(V))
  PROVE  \E f : Concats(f, s, V)
<1> DEFINE N == Len(s)
           F == [i \in 1 .. N |-> [v \in Seq(V) |-> v \o s[i]]]
<1>1. N \in Nat /\ <<>> \in Seq(V)
  OBVIOUS
<1>2. F \in Steps(N, Seq(V))
  <2>1. ASSUME NEW i \in 1 .. N PROVE s[i] \in Seq(V)
    OBVIOUS
  <2>2. ASSUME NEW i \in 1 .. N PROVE [v \in Seq(V) |-> v \o s[i]] \in [Seq(V) -> Seq(V)]
    BY <2>1, ConcatOf
  <2> QED BY <2>2, Zenon DEF Steps
<1>3. PICK f : Computes(f, N, Seq(V), <<>>, F)
  <2> HIDE DEF F, N
  <2> QED BY <1>1, <1>2, NumberRecursion, Zenon
<1>4. f \in [0 .. N -> Seq(V)] /\ f[0] = <<>>
  BY <1>3, Zenon DEF Computes
<1>5. ASSUME NEW i \in 1 .. N PROVE f[i] = f[i - 1] \o s[i]
  <2>1. f[i] = F[i][f[i - 1]]
    BY <1>3, Zenon DEF Computes
  <2>2. i - 1 \in 0 .. N
    BY <1>1
  <2>3. f[i - 1] \in Seq(V)
    BY <1>4, <2>2, Zenon
  <2>4. F[i] = [v \in Seq(V) |-> v \o s[i]]
    BY Zenon
  <2> QED BY <2>1, <2>3, <2>4, Zenon
<1> QED BY <1>4, <1>5, Zenon DEF Concats

\* Arguments is the last of them.
LEMMA ArgumentsAre ==
  ASSUME NEW V, NEW s \in Seq(Seq(V)), NEW f, Concats(f, s, V)
  PROVE  Arguments(s) = f[Len(s)]
<1> DEFINE N == Len(s)
           Def(u) == [i \in 0 .. N |-> IF i = 0 THEN <<>> ELSE u[i - 1] \o s[i]]
<1>1. N \in Nat
  OBVIOUS
<1>2. f \in [0 .. N -> Seq(V)] /\ f[0] = <<>> /\ \A i \in 1 .. N : f[i] = f[i - 1] \o s[i]
  BY Zenon DEF Concats
<1>3. f = Def(f)
  <2>1. f = [i \in 0 .. N |-> f[i]]
    BY <1>2, Zenon
  <2>2. ASSUME NEW i \in 0 .. N PROVE f[i] = IF i = 0 THEN <<>> ELSE f[i - 1] \o s[i]
    <3>1. i = 0 \/ i \in 1 .. N
      BY <1>1
    <3> QED BY <1>2, <3>1, Zenon
  <2> QED BY <2>1, <2>2, Zenon
<1> DEFINE upto == CHOOSE u : u = Def(u)
<1>4. PICK u : u = upto
  BY Zenon
<1>5. u = [i \in 0 .. N |-> IF i = 0 THEN <<>> ELSE u[i - 1] \o s[i]]
  BY <1>3, <1>4, Zenon
<1>6. Arguments(s) = u[N]
  BY <1>4, Zenon DEF Arguments
<1> DEFINE T == {i \in 0 .. N : u[i] = f[i]}
<1>7. T \in SUBSET Nat /\ 0 \in T
  <2>1. 0 \in 0 .. N /\ T \in SUBSET Nat
    BY <1>1
  <2>2. u[0] = <<>>
    BY <1>5, <2>1, Zenon
  <2> QED BY <1>2, <2>1, <2>2, Zenon
<1>8. ASSUME NEW n \in 0 .. N, n \in T, n < N PROVE n + 1 \in T
  <2>1. n + 1 \in 1 .. N /\ n + 1 \in 0 .. N /\ (n + 1) - 1 = n /\ n + 1 # 0
    BY <1>1, <1>8
  <2>2. u[n + 1] = u[(n + 1) - 1] \o s[n + 1]
    BY <1>5, <2>1, Zenon
  <2>3. f[n + 1] = f[(n + 1) - 1] \o s[n + 1]
    BY <1>2, <2>1, Zenon
  <2> QED BY <1>8, <2>1, <2>2, <2>3, Zenon
<1>9. 0 .. N \subseteq T
  <2> HIDE DEF T, N
  <2> QED BY <1>1, <1>7, <1>8, NumberInduction, Zenon
<1> QED
  <2>1. N \in 0 .. N
    BY <1>1
  <2> QED BY <1>6, <1>9, <2>1, Zenon

\* Where the sequences of s are in their concatenation.
Places(f, N) ==
  \A n \in 0 .. N : \A k \in 0 .. n :
    Len(f[k]) <= Len(f[n]) /\ \A i \in 1 .. Len(f[k]) : f[n][i] = f[k][i]

\* Each starts the ones behind it.
LEMMA ConcatsPlaces ==
  ASSUME NEW V, NEW s \in Seq(Seq(V)), NEW f, Concats(f, s, V)
  PROVE  Places(f, Len(s))
<1> DEFINE N == Len(s)
           Starts(x, y) == Len(x) <= Len(y) /\ \A i \in 1 .. Len(x) : y[i] = x[i]
           T == {n \in 0 .. N : \A k \in 0 .. n : Starts(f[k], f[n])}
<1>1. N \in Nat /\ \A i \in 1 .. N : s[i] \in Seq(V)
  OBVIOUS
<1>2. f \in [0 .. N -> Seq(V)] /\ \A i \in 1 .. N : f[i] = f[i - 1] \o s[i]
  BY Zenon DEF Concats
<1>3. ASSUME NEW x \in Seq(V) PROVE Starts(x, x)
  OBVIOUS
<1>4. ASSUME NEW x \in Seq(V), NEW y \in Seq(V), NEW z \in Seq(V), Starts(x, y)
      PROVE  Starts(x, y \o z)
  <2>1. /\ Len(x) \in Nat /\ Len(y) \in Nat /\ Len(z) \in Nat /\ Len(y \o z) = Len(y) + Len(z)
        /\ \A i \in 1 .. Len(y) : (y \o z)[i] = y[i]
    BY ConcatOf
  <2>2. Len(x) <= Len(y \o z)
    BY <1>4, <2>1
  <2>3. ASSUME NEW i \in 1 .. Len(x) PROVE (y \o z)[i] = x[i]
    <3>1. i \in 1 .. Len(y)
      BY <1>4, <2>1, SMTT(30)
    <3> QED BY <1>4, <2>1, <3>1, Zenon
  <2> QED BY <2>2, <2>3, Zenon
<1>5. T \in SUBSET Nat /\ 0 \in T
  <2>1. f[0] \in Seq(V) /\ 0 \in 0 .. N /\ \A k \in 0 .. 0 : k = 0
    BY <1>1, <1>2
  <2>2. Starts(f[0], f[0])
    BY <1>3, <2>1, Zenon
  <2>3. 0 \in T
    <3> HIDE DEF Starts
    <3> QED BY <2>1, <2>2, Zenon
  <2> QED BY <1>1, <2>3
<1>6. ASSUME NEW n \in 0 .. N, n \in T, n < N PROVE n + 1 \in T
  <2>1. n + 1 \in 1 .. N /\ n + 1 \in 0 .. N /\ (n + 1) - 1 = n /\ n \in 0 .. n
    BY <1>1, <1>6
  <2>2. f[n + 1] = f[n] \o s[n + 1] /\ s[n + 1] \in Seq(V) /\ f[n] \in Seq(V) /\ f[n + 1] \in Seq(V)
    BY <1>1, <1>2, <2>1, Zenon
  <2>3. ASSUME NEW k \in 0 .. n + 1 PROVE Starts(f[k], f[n + 1])
    <3>1. CASE k = n + 1
      <4> HIDE DEF Starts
      <4> QED BY <1>3, <2>2, <3>1, Zenon
    <3>2. CASE k # n + 1
      <4>1. k \in 0 .. n /\ k \in 0 .. N
        BY <1>1, <3>2
      <4>2. f[k] \in Seq(V)
        BY <1>2, <4>1, Zenon
      <4>3. Starts(f[k], f[n])
        <5> HIDE DEF Starts
        <5> QED BY <1>6, <4>1, Zenon
      <4>4. Starts(f[k], f[n] \o s[n + 1])
        <5> HIDE DEF Starts
        <5> QED BY <1>4, <2>2, <4>2, <4>3, Zenon
      <4> HIDE DEF Starts
      <4> QED BY <2>2, <4>4, Zenon
    <3> QED BY <3>1, <3>2, Zenon
  <2> HIDE DEF Starts
  <2> QED BY <2>1, <2>3, Zenon
<1>7. 0 .. N \subseteq T
  <2> HIDE DEF T, N
  <2> QED BY <1>1, <1>5, <1>6, NumberInduction, Zenon
<1>8. \A n \in 0 .. N : \A k \in 0 .. n : Starts(f[k], f[n])
  <2> HIDE DEF Starts
  <2> QED BY <1>7, Zenon
<1> QED BY <1>8, Zenon DEF Places

\* Kept(options) is the options that mean something on the destination, the others empty.
Kept(options) == [i \in DOMAIN options |-> IF kept(options[i]) THEN options[i] ELSE <<>>]

\* After the arguments of the first options the loop has added the flags of those that are
\* kept, every argument clean, and skips nothing.
Replayed(w, h) ==
  /\ w.skipNext = FALSE /\ w.out \in Seq(Args)
  /\ Flags(w.out) = Flags(h)
  /\ \A i \in DOMAIN w.out : Clean(w.out[i])

\* z is x followed by y.
Joined(x, y, z) ==
  /\ z \in Seq(Args) /\ Len(z) = Len(x) + Len(y)
  /\ \A i \in 1 .. Len(x) : z[i] = x[i]
  /\ \A i \in 1 .. Len(y) : z[Len(x) + i] = y[i]

\* The concatenation joins.
LEMMA ArgsJoined ==
  ASSUME NEW x \in Seq(Args), NEW y \in Seq(Args)
  PROVE  Joined(x, y, x \o y)
BY ConcatOf DEF Joined

\* One more option.
LEMMA ReplayedStep ==
  ASSUME NEW w, NEW h \in Seq(Args), Replayed(w, h), NEW o \in Options, NEW e, Adds(o, e),
         NEW r, r = [out |-> w.out \o e, skipNext |-> FALSE]
  PROVE  Replayed(r, h \o (IF kept(o) THEN o ELSE <<>>))
<1>1. PICK x : x = IF kept(o) THEN o ELSE <<>>
  BY Zenon
<1>2. PICK v : v = w.out
  OBVIOUS
<1>3. v \in Seq(Args) /\ Flags(v) = Flags(h) /\ \A i \in DOMAIN v : Clean(v[i])
  BY <1>2, Zenon DEF Replayed
<1>4. e \in Seq(Args) /\ Flags(e) = Flags(x) /\ \A i \in DOMAIN e : Clean(e[i])
  BY <1>1, Zenon DEF Adds
<1>5. x \in Seq(Args)
  <2>1. o \in Seq(Args) /\ <<>> \in Seq(Args)
    BY OptionArgs
  <2> QED BY <1>1, <2>1, Zenon
<1>6. r.out = v \o e /\ r.skipNext = FALSE
  <2>1. ASSUME NEW y, NEW f, NEW t, t = [out |-> y, skipNext |-> f] PROVE t.out = y /\ t.skipNext = f
    BY <2>1, Zenon
  <2>2. PICK f : f = FALSE
    OBVIOUS
  <2>3. PICK y : y = v \o e
    BY Zenon
  <2>4. r = [out |-> y, skipNext |-> f]
    BY <1>2, <2>2, <2>3, Zenon
  <2>5. r.out = y /\ r.skipNext = f
    BY <2>1, <2>4, ZenonT(60)
  <2> QED BY <2>2, <2>3, <2>5, Zenon
<1>7. v \o e \in Seq(Args) /\ Flags(v \o e) = Flags(h \o x)
  <2>1. Flags(v \o e) = Flags(v) \o Flags(e)
    BY <1>3, <1>4, FlagsOf, Zenon
  <2>2. Flags(h \o x) = Flags(h) \o Flags(x)
    BY <1>5, FlagsOf, Zenon
  <2>3. v \o e \in Seq(Args)
    BY <1>3, <1>4
  <2> QED BY <1>3, <1>4, <2>1, <2>2, <2>3, Zenon
<1>8. ASSUME NEW i \in DOMAIN (v \o e) PROVE Clean((v \o e)[i])
  <2>0. Joined(v, e, v \o e)
    BY <1>3, <1>4, ArgsJoined, Zenon
  <2>1. /\ Len(v) \in Nat /\ Len(e) \in Nat /\ DOMAIN v = 1 .. Len(v) /\ DOMAIN e = 1 .. Len(e)
        /\ i \in 1 .. (Len(v) + Len(e))
    BY <1>3, <1>4
  <2>2. CASE i \in 1 .. Len(v)
    <3>1. (v \o e)[i] = v[i]
      BY <2>0, <2>2, Zenon DEF Joined
    <3> QED BY <1>3, <2>1, <2>2, <3>1, Zenon
  <2>3. CASE i \notin 1 .. Len(v)
    <3>1. PICK j : j = i - Len(v)
      BY Zenon
    <3>2. j \in 1 .. Len(e) /\ Len(v) + j = i
      BY <2>1, <2>3, <3>1
    <3>3. (v \o e)[Len(v) + j] = e[j]
      BY <2>0, <3>2, Zenon DEF Joined
    <3> QED BY <1>4, <2>1, <3>2, <3>3, Zenon
  <2> QED BY <2>2, <2>3, Zenon
<1>9. Replayed(r, h \o x)
  BY <1>6, <1>7, <1>8, Zenon DEF Replayed
<1> QED BY <1>1, <1>9, Zenon

\* The loop over the whole command line.
LEMMA LoopReplays ==
  ASSUME NEW options \in Seq(Options)
  PROVE  LET args == Arguments(options)
         IN /\ args \in Seq(Args) /\ Arguments(Kept(options)) \in Seq(Args)
            /\ Replayed(iterated(args)[Len(args)], Arguments(Kept(options)))
<1>1. PICK N \in Nat : N = Len(options)
  OBVIOUS
<1>2. ASSUME NEW k \in 1 .. N PROVE options[k] \in Options /\ options[k] \in Seq(Args) /\ Len(options[k]) \in Nat
  <2>1. options[k] \in Options
    BY <1>1
  <2>2. options[k] \in Seq(Args)
    BY <2>1, OptionArgs, Zenon
  <2> QED BY <2>1, <2>2
<1>3. options \in Seq(Seq(Args))
  <2>1. options \in [1 .. N -> Seq(Args)]
    BY <1>1, <1>2
  <2> QED BY <2>1, FcnIsSeq, Zenon
<1>4. PICK s : s = Kept(options)
  OBVIOUS
<1>5. s \in Seq(Seq(Args)) /\ Len(s) = N /\ \A k \in 1 .. N : s[k] = IF kept(options[k]) THEN options[k] ELSE <<>>
  <2>1. DOMAIN options = 1 .. N /\ <<>> \in Seq(Args)
    BY <1>1
  <2>2. s = [k \in 1 .. N |-> IF kept(options[k]) THEN options[k] ELSE <<>>]
    BY <1>4, <2>1, Zenon DEF Kept
  <2>3. \A k \in 1 .. N : s[k] = IF kept(options[k]) THEN options[k] ELSE <<>>
    BY <2>2, Zenon
  <2>4. \A k \in 1 .. N : s[k] \in Seq(Args)
    BY <1>2, <2>1, <2>3, Zenon
  <2>5. s \in [1 .. N -> Seq(Args)]
    BY <2>2, <2>4
  <2> QED BY <2>3, <2>5, FcnIsSeq, Zenon
<1>6. PICK f : Concats(f, options, Args)
  BY <1>3, ConcatsExist, Zenon
<1>7. PICK h : Concats(h, s, Args)
  BY <1>5, ConcatsExist, Zenon
<1>8. PICK args : args = Arguments(options)
  OBVIOUS
<1>9. args = f[N] /\ Arguments(s) = h[N]
  <2>1. Arguments(options) = f[Len(options)]
    BY <1>3, <1>6, ArgumentsAre, Zenon
  <2>2. Arguments(s) = h[Len(s)]
    BY <1>5, <1>7, ArgumentsAre, Zenon
  <2> QED BY <1>1, <1>5, <1>8, <2>1, <2>2, Zenon
<1>10. f \in [0 .. N -> Seq(Args)] /\ f[0] = <<>> /\ \A k \in 1 .. N : f[k] = f[k - 1] \o options[k]
  BY <1>1, <1>6, Zenon DEF Concats
<1>11. h \in [0 .. N -> Seq(Args)] /\ h[0] = <<>> /\ \A k \in 1 .. N : h[k] = h[k - 1] \o s[k]
  BY <1>5, <1>7, Zenon DEF Concats
<1>12. N \in 0 .. N /\ 0 \in 0 .. N
  OBVIOUS
<1>13. args \in Seq(Args) /\ h[N] \in Seq(Args) /\ Len(args) \in Nat
  <2>1. args \in Seq(Args) /\ h[N] \in Seq(Args)
    BY <1>9, <1>10, <1>11, <1>12, Zenon
  <2> QED BY <2>1
<1>14. PICK g : g = iterated(args)
  OBVIOUS
<1>15. Loops(g, args)
  BY <1>13, <1>14, IteratedLoops, Zenon
<1>16. ASSUME NEW k \in 0 .. N
       PROVE  Len(f[k]) <= Len(args) /\ \A i \in 1 .. Len(f[k]) : args[i] = f[k][i]
  <2>1. Places(f, Len(options))
    BY <1>3, <1>6, ConcatsPlaces, Zenon
  <2>2. N \in 0 .. Len(options)
    BY <1>1
  <2> QED BY <1>9, <2>1, <2>2, Zenon DEF Places
<1> DEFINE T == {k \in 0 .. N : Replayed(g[Len(f[k])], h[k])}
<1>17. T \in SUBSET Nat /\ 0 \in T
  <2>1. Len(f[0]) = 0
    BY <1>10
  <2>2. g[0] = [out |-> <<>>, skipNext |-> FALSE]
    BY <1>15, Zenon DEF Loops
  <2>3. Replayed([out |-> <<>>, skipNext |-> FALSE], <<>>)
    BY DEF Replayed
  <2>4. Replayed(g[Len(f[0])], h[0])
    BY <1>11, <2>1, <2>2, <2>3, Zenon
  <2>5. 0 \in T
    BY <1>12, <2>4, Zenon
  <2> QED BY <2>5
<1>18. ASSUME NEW n \in 0 .. N, n \in T, n < N PROVE n + 1 \in T
  <2>1. n + 1 \in 1 .. N /\ n + 1 \in 0 .. N /\ (n + 1) - 1 = n
    BY <1>18
  <2>2. PICK o : o = options[n + 1]
    OBVIOUS
  <2>3. PICK x : x = f[n]
    OBVIOUS
  <2>4. PICK y : y = h[n]
    OBVIOUS
  <2>5. o \in Options /\ o \in Seq(Args) /\ Len(o) \in Nat /\ x \in Seq(Args) /\ y \in Seq(Args)
    BY <1>2, <1>10, <1>11, <2>1, <2>2, <2>3, <2>4, Zenon
  <2>6. f[n + 1] = x \o o /\ h[n + 1] = y \o (IF kept(o) THEN o ELSE <<>>)
    BY <1>5, <1>10, <1>11, <2>1, <2>2, <2>3, <2>4, Zenon
  <2>7. PICK p : p = Len(x)
    OBVIOUS
  <2>8. p \in Nat
    BY <2>5, <2>7
  <2>9. Len(x \o o) = p + Len(o) /\ \A i \in 1 .. Len(o) : (x \o o)[p + i] = o[i]
    <3>1. Joined(x, o, x \o o)
      BY <2>5, ArgsJoined, Zenon
    <3> QED BY <2>7, <3>1, Zenon DEF Joined
  <2>10. p + Len(o) <= Len(args) /\ \A i \in 1 .. Len(x \o o) : args[i] = (x \o o)[i]
    BY <1>16, <2>1, <2>6, <2>9, Zenon
  <2>11. ASSUME NEW i \in 1 .. Len(o) PROVE args[p + i] = o[i]
    <3>1. p + i \in 1 .. Len(x \o o)
      BY <2>5, <2>8, <2>9
    <3> QED BY <2>9, <2>10, <3>1, Zenon
  <2>12. Replayed(g[p], y)
    BY <1>18, <2>3, <2>4, <2>7, Zenon
  <2>13. g[p].skipNext = FALSE /\ g[p].out \in Seq(Args)
    BY <2>12, Zenon DEF Replayed
  <2>14. Passes(g, o, p, p + Len(o))
    BY <1>13, <1>15, <2>5, <2>8, <2>10, <2>11, <2>13, OptionStep, Zenon
  <2>15. PICK e : Adds(o, e) /\ g[p + Len(o)] = [out |-> g[p].out \o e, skipNext |-> FALSE]
    BY <2>14, Zenon DEF Passes
  <2>16. Replayed(g[p + Len(o)], y \o (IF kept(o) THEN o ELSE <<>>))
    <3>1. PICK w : w = g[p]
      OBVIOUS
    <3>2. PICK r : r = g[p + Len(o)]
      OBVIOUS
    <3>3. Replayed(w, y) /\ r = [out |-> w.out \o e, skipNext |-> FALSE]
      BY <2>12, <2>15, <3>1, <3>2, Zenon
    <3>4. Replayed(r, y \o (IF kept(o) THEN o ELSE <<>>))
      BY <2>5, <2>15, <3>3, ReplayedStep, Zenon
    <3> QED BY <3>2, <3>4, Zenon
  <2>17. Replayed(g[Len(f[n + 1])], h[n + 1])
    BY <2>6, <2>9, <2>16, Zenon
  <2> QED BY <2>1, <2>17, Zenon
<1>19. 0 .. N \subseteq T
  <2> HIDE DEF T
  <2> QED BY <1>17, <1>18, NumberInduction, Zenon
<1>20. Replayed(g[Len(args)], h[N])
  BY <1>9, <1>12, <1>19, Zenon
<1> QED BY <1>4, <1>8, <1>9, <1>13, <1>14, <1>20, Zenon

\* What is appended behind the loop completes the command line.
LEMMA OneCommandLine ==
  ASSUME NEW options \in Seq(Options)
  PROVE  ReplaysCleanly(options)
<1>1. PICK args : args = Arguments(options)
  OBVIOUS
<1>2. PICK H : H = Arguments(Kept(options))
  OBVIOUS
<1>3. PICK w : w = iterated(args)[Len(args)].out
  OBVIOUS
<1>4. args \in Seq(Args) /\ H \in Seq(Args) /\ Replayed(iterated(args)[Len(args)], H)
  BY <1>1, <1>2, LoopReplays, Zenon
<1>5. w \in Seq(Args) /\ Flags(w) = Flags(H) /\ \A i \in DOMAIN w : Clean(w[i])
  BY <1>3, <1>4, Zenon DEF Replayed
<1>6. PICK a : a = Flag("-incoming")
  OBVIOUS
<1>7. PICK v : v = Value({"defer"})
  OBVIOUS
<1>8. a \in Args /\ v \in Args /\ a.flag = "-incoming" /\ v.flag = "" /\ v.keys = {"defer"}
  <2>1. "-incoming" \in Names /\ {"defer"} \in SUBSET Keys
    BY DEF Names, Keys
  <2> QED BY <1>6, <1>7, <2>1, ArgsAre, FlagFields, ValueFields, Zenon
<1>9. Clean(a) /\ Clean(v)
  <2>1. \A k \in {"fd", "srcDir", "srcKey", "image", "copy", "tap"} : k \notin {"defer"}
    OBVIOUS
  <2>2. v.keys \cap {"fd", "srcDir", "srcKey", "image"} = {} /\ "copy" \notin v.keys /\ "tap" \notin v.keys
    BY <1>8, <2>1, Zenon
  <2> QED BY <1>6, <2>2, FlagClean, Zenon DEF Clean
<1>10. PICK t : t = <<a, v>>
  BY Zenon
<1>11. t \in Seq(Args) /\ Len(t) = 2 /\ t[1] = a /\ t[2] = v /\ DOMAIN t = 1 .. 2
  <2>1. a \in Args /\ v \in Args
    BY <1>8, Zenon
  <2> QED BY <1>10, <2>1
<1>12. Flags(t) = <<"-incoming", "">>
  <2>1. Flags(t) = [i \in 1 .. 2 |-> t[i].flag]
    BY <1>11, Zenon DEF Flags
  <2>2. ASSUME NEW b, NEW c, NEW z, z = [i \in 1 .. 2 |-> t[i].flag], t[1].flag = b, t[2].flag = c
        PROVE  z = <<b, c>>
    BY <2>2
  <2>3. t[1].flag = "-incoming" /\ t[2].flag = ""
    BY <1>8, <1>11, Zenon
  <2> QED BY <2>1, <2>2, <2>3, Zenon
<1>13. PICK out : out = transformCmdline(args)
  OBVIOUS
<1>14. out = w \o t
  BY <1>3, <1>6, <1>7, <1>10, <1>13, Zenon DEF transformCmdline
<1>15. Flags(out) = Flags(H) \o <<"-incoming", "">>
  <2>1. Flags(out) = Flags(w) \o Flags(t)
    BY <1>5, <1>11, <1>14, FlagsOf, Zenon
  <2> QED BY <1>5, <1>12, <2>1, Zenon
<1>16. /\ Len(w) \in Nat /\ Len(out) = Len(w) + 2 /\ DOMAIN w = 1 .. Len(w) /\ DOMAIN out = 1 .. (Len(w) + 2)
       /\ \A i \in 1 .. Len(w) : out[i] = w[i]
       /\ out[Len(w) + 1] = a /\ out[Len(w) + 2] = v
  <2>0. Joined(w, t, out)
    BY <1>5, <1>11, <1>14, ArgsJoined, Zenon
  <2>1. out \in Seq(Args) /\ Len(out) = Len(w) + 2
    BY <1>11, <2>0, Zenon DEF Joined
  <2>2. (\A i \in 1 .. Len(w) : out[i] = w[i]) /\ \A i \in 1 .. Len(t) : out[Len(w) + i] = t[i]
    BY <2>0, Zenon DEF Joined
  <2>3. 1 \in 1 .. 2 /\ 2 \in 1 .. 2
    OBVIOUS
  <2>4. out[Len(w) + 1] = a /\ out[Len(w) + 2] = v
    BY <1>11, <2>2, <2>3, Zenon
  <2>5. Len(w) \in Nat /\ DOMAIN w = 1 .. Len(w) /\ DOMAIN out = 1 .. Len(out)
    BY <1>5, <2>1
  <2> QED BY <2>1, <2>2, <2>4, <2>5, Zenon
<1>17. ASSUME NEW i \in DOMAIN out PROVE Clean(out[i])
  <2>1. i \in 1 .. Len(w) \/ i = Len(w) + 1 \/ i = Len(w) + 2
    BY <1>16
  <2> QED BY <1>5, <1>9, <1>16, <2>1, Zenon
<1>18. out[Len(out)].keys = {"defer"}
  BY <1>8, <1>16, Zenon
<1> QED BY <1>1, <1>2, <1>13, <1>15, <1>17, <1>18, Zenon DEF ReplaysCleanly, Kept

\* Every command line that Kata writes is replayed with its options in order, none of the
\* source's descriptors, paths or listeners, and deferred, however many options it has
\* (destspawn.go:156-249).
THEOREM EveryCommandLine ==
  /\ \A options \in Seq(Options) : ReplaysCleanly(options)
  /\ Spec => []CommandLinesReplay
<1>1. \A options \in Seq(Options) : ReplaysCleanly(options)
  BY OneCommandLine, Zenon
<1>2. CommandLinesReplay
  BY <1>1, CommandLinesAssumption, Zenon DEF CommandLinesReplay, AllReplayCleanly
<1>3. Spec => []CommandLinesReplay
  BY <1>2, PTL
<1> QED BY <1>1, <1>3, Zenon
=============================================================================
