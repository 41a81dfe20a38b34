-------------------------------- MODULE Node --------------------------------
(***************************************************************************)
(* One destination node: the Jobs that replay QEMUs in its sandbox         *)
(* directories, and the factory that watches these directories.  A Job     *)
(* finds its command line in a log (PodLog) and rewrites it (Cmdline).     *)
(***************************************************************************)
EXTENDS DestReplay, Factory, Cmdline, PodLog

VARIABLE missed   \* history: sandboxes of which the watcher knows an older meta file, or half of it

vars == <<nodeVars, replayVars, factoryVars, missed>>

Init == ReplayInit /\ FactoryInit /\ missed = {}

\* The file changes after the watcher has read it.
MissedChanges == missed \cup {s \in seen : meta[s] \notin NoMeta /\ meta'[s] # meta[s]}

\* The watcher reads the file while it is written; it forgets all when its process
\* ends, and a sandbox that a whole scan did not meet.
MissedReads ==
  IF stops' # stops THEN {}
  ELSE IF scanning /\ ~scanning' THEN missed \cap current
  ELSE missed \cup {s \in todo \ (todo' \cup seen) : meta[s] = "partial"}

Next ==
  \/ NodeStep /\ missed' = MissedChanges /\ UNCHANGED factoryVars
  \/ FactoryStep /\ missed' = MissedReads /\ UNCHANGED replayVars

Spec == Init /\ [][Next]_vars

-----------------------------------------------------------------------------
\* Every variable has its type.
TypeOK == ReplayTypeOK /\ FactoryTypeOK /\ missed \subseteq Sandboxes

\* A Job that had its sandbox directory to itself talks to its own QEMU, and what it
\* writes for the factory and moves out of its cgroup is that QEMU, whatever earlier
\* Jobs left in the directory or still run from it (destspawn.go:426-431, dest.go:506).
OwnQEMU ==
  \A v \in Vms \ overlaps :
    peer[v] \in {v, "none"} /\ noted[v] \in {v, "none"}

Queued == {queue[i] : i \in DOMAIN queue}

\* One factory process hands a migrated QEMU to at most one shim, although its meta
\* file stays where it is and is met again by every scan (watcher.go:97-99, 127-131).
ServedOnce ==
  /\ \A v \in Vms : served[v] = 0 \/ (served[v] = 1 /\ v \notin Queued)
  /\ \A i, j \in DOMAIN queue : queue[i] = queue[j] /\ queue[i] \in Vms => i = j

\* The watcher passes over a complete meta file only when it has offered its QEMU, or
\* had read that sandbox's file too early: half written, or before a later Job of the
\* same sandbox replaced it (watcher.go:97-99, 112-117, 127-131).
OfferedOrMissed ==
  \A s \in seen \ missed :
    meta[s] \in Vms => served[meta[s]] > 0 \/ meta[s] \in Queued

\* A Job that looks for its command line takes each marker from a whole line, wherever
\* the apiserver or the reader cuts the log, and finds one that ends within the limit
\* (cmdlinefetch.go:294-322).
MarkersAreWhole == \A v \in Vms : dst[v] = "fetch" => AllTakeWholeMarkers

\* The QEMU that a Job is about to start has the options of the source's in their order,
\* whichever they are, with none of the source's descriptors, paths or listeners, and
\* waits for the migration (destspawn.go:156-249).
CommandLinesReplay == \A v \in Vms : dst[v] = "fsWait" => AllReplayCleanly
=============================================================================
