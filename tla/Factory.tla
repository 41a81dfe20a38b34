------------------------------ MODULE Factory ------------------------------
(***************************************************************************)
(* katamaran-factory (internal/factory, cmd/katamaran-factory): a watcher  *)
(* that scans the sandbox directories for migration-meta.json and a gRPC   *)
(* server that hands the queued QEMUs to the Kata shims of new sandboxes.  *)
(* The watcher reads the directory once and then one file at a time, while *)
(* destinations write them.  All state is in the memory of the process.    *)
(***************************************************************************)
EXTENDS DestNode, Sequences

CONSTANT MaxStops   \* bound: how often the factory process ends

ASSUME FactoryAssumption == MaxStops \in Nat

VARIABLES
  up,        \* the process runs
  quit,      \* s.quit is closed
  queue,     \* s.queue
  seen,      \* w.seen
  scanning,  \* a scan is under way
  todo,      \* entries of the scan under way that are still to read
  current,   \* the `current' set of the scan under way
  served,    \* how often GetBaseVM has answered with each QEMU
  stops

factoryVars == <<up, quit, queue, seen, scanning, todo, current, served, stops>>
serverVars  == <<up, quit, served, stops>>

Offers == Vms \cup {"nopid"}

FactoryInit ==
  /\ up = TRUE /\ stops = 0
  /\ quit = FALSE /\ queue = <<>>
  /\ seen = {} /\ scanning = FALSE /\ todo = {} /\ current = {}
  /\ served = [v \in Offers |-> 0]

FactoryTypeOK ==
  /\ up \in BOOLEAN /\ quit \in BOOLEAN
  /\ queue \in Seq(Offers)
  /\ seen \subseteq Sandboxes /\ scanning \in BOOLEAN
  /\ current \subseteq Sandboxes /\ todo \subseteq current
  /\ served \in [Offers -> Nat]
  /\ stops \in 0 .. MaxStops

-----------------------------------------------------------------------------
(* Watcher *)

\* ReadDir
ScanStart ==
  /\ up /\ ~scanning
  /\ scanning' = TRUE
  /\ current' = {s \in Sandboxes : meta[s] # "nodir"}
  /\ todo' = current'
  /\ UNCHANGED <<nodeVars, serverVars, queue, seen>>

OfferVM(v) == queue' = Append(queue, v)

\* Mutant: what was offered is not marked.
scanUnseenTwice(s) ==
  IF meta[s] \in NoMeta
  THEN UNCHANGED <<queue, seen>>
  ELSE seen' = seen /\ OfferVM(meta[s])

\* A file that does not parse is marked as seen as well.
scanUnseen(s) ==
  IF meta[s] \in {"nodir", "absent"}
  THEN UNCHANGED <<queue, seen>>
  ELSE /\ seen' = seen \cup {s}
       /\ IF meta[s] = "partial" THEN queue' = queue ELSE OfferVM(meta[s])

ScanEntry(s) ==
  /\ s \in todo
  /\ todo' = todo \ {s}
  /\ IF s \in seen THEN UNCHANGED <<queue, seen>> ELSE scanUnseen(s)
  /\ UNCHANGED <<nodeVars, serverVars, scanning, current>>

\* Mutant: nothing is forgotten.
ScanEndKeeps ==
  /\ scanning /\ todo = {}
  /\ scanning' = FALSE
  /\ seen' = seen
  /\ current' = {}
  /\ UNCHANGED <<nodeVars, serverVars, queue, todo>>

\* What has vanished from the directory may be offered again.
ScanEnd ==
  /\ scanning /\ todo = {}
  /\ scanning' = FALSE
  /\ seen' = seen \cap current
  /\ current' = {}
  /\ UNCHANGED <<nodeVars, serverVars, queue, todo>>

-----------------------------------------------------------------------------
(* Server *)

\* Otherwise an error, which makes the Kata shim boot a fresh VM.
GetBaseVM ==
  /\ up /\ ~quit /\ queue # <<>>
  /\ queue' = Tail(queue)
  /\ served' = [served EXCEPT ![Head(queue)] = @ + 1]
  /\ UNCHANGED <<nodeVars, up, quit, seen, scanning, todo, current, stops>>

Quit ==
  /\ up /\ ~quit /\ stops < MaxStops
  /\ quit' = TRUE
  /\ UNCHANGED <<nodeVars, up, queue, seen, scanning, todo, current, served, stops>>

\* main returns after GracefulStop, or the process dies: nothing is kept.
FactoryStops ==
  /\ up /\ stops < MaxStops
  /\ up' = FALSE /\ stops' = stops + 1
  /\ quit' = FALSE /\ queue' = <<>>
  /\ seen' = {} /\ scanning' = FALSE /\ todo' = {} /\ current' = {}
  /\ served' = [v \in Offers |-> 0]
  /\ UNCHANGED nodeVars

FactoryStarts ==
  /\ ~up /\ up' = TRUE
  /\ UNCHANGED <<nodeVars, quit, queue, seen, scanning, todo, current, served, stops>>

Scan == ScanStart \/ ScanEnd \/ \E s \in Sandboxes : ScanEntry(s)

FactoryStep == Scan \/ GetBaseVM \/ Quit \/ FactoryStops \/ FactoryStarts
=============================================================================
