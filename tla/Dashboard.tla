----------------------------- MODULE Dashboard -----------------------------
(***************************************************************************)
(* The dashboard (internal/dashboard): one migration at a time, started by *)
(* handleMigrate and run by the runOrchestrator goroutine; one load        *)
(* generator at a time; and the page (index.html), which polls             *)
(* handleStatus with the cursors of the last answer it has seen.  The      *)
(* critical sections of migrationMutex and of loadgenMutex are the steps.  *)
(* The orchestrator is external: Apply and Watch answer what they like.    *)
(*                                                                         *)
(* A log line and a sample carry their sequence number, which the code     *)
(* only knows from the place in the buffer, and what they are part of.     *)
(***************************************************************************)
EXTENDS Naturals, Sequences, FiniteSets, Functions

CONSTANTS
  maxLogLines, maxPingLines, maxHistoryEntries, \* the buffers' limits
  maxPageSamples,                               \* 500 in the page
  MaxMigrations, MaxLines,  \* bounds: migrations; log lines, for each of them
  MaxLoads, MaxPings        \* bounds: load generators; samples of all of them

ASSUME DashboardAssumption ==
  /\ {maxLogLines, maxPingLines, maxHistoryEntries, maxPageSamples} \subseteq Nat \ {0}
  /\ {MaxMigrations, MaxLines, MaxLoads, MaxPings} \subseteq Nat

VARIABLES
  isMigrating, migrationID, cancel, \* cancel: "nil", "armed" or "called"
  migrationOutput, migrationLogSeq,
  latestProgress,                   \* the migration whose progress it is; 0: nil
  succeeded, failed, migrationHistory,
  wk,                               \* runOrchestrator, for each migration
  loadgenRunning, loadgen, loadgenCancel, pingLog, pingSeq,
  lg,                               \* the load generators' goroutines
  logsDiv, lastLogSeq, activeLogMigrationID,
  pingSamples, lastPingSeq          \* the page

logVars  == <<migrationOutput, migrationLogSeq>>
tallyVars == <<succeeded, failed, migrationHistory>>
migVars  == <<isMigrating, migrationID, cancel, logVars, latestProgress, tallyVars, wk>>
loadVars == <<loadgenRunning, loadgen, loadgenCancel, pingLog, pingSeq, lg>>
logPage  == <<logsDiv, lastLogSeq, activeLogMigrationID>>
pingPage == <<pingSamples, lastPingSeq>>
vars == <<migVars, loadVars, logPage, pingPage>>

Migrations == 1 .. MaxMigrations
Loads      == 1 .. MaxLoads
Idle       == [pc |-> "none", term |-> ""]

Init ==
  /\ isMigrating = FALSE /\ migrationID = 0 /\ cancel = "nil"
  /\ migrationOutput = <<>> /\ migrationLogSeq = 0 /\ latestProgress = 0
  /\ succeeded = 0 /\ failed = 0 /\ migrationHistory = <<>>
  /\ wk = [m \in Migrations |-> Idle]
  /\ loadgenRunning = FALSE /\ loadgen = 0 /\ loadgenCancel = "nil"
  /\ pingLog = <<>> /\ pingSeq = 0
  /\ lg = [g \in Loads |-> "none"]
  /\ logsDiv = <<>> /\ lastLogSeq = 0 /\ activeLogMigrationID = 0
  /\ pingSamples = <<>> /\ lastPingSeq = 0

\* The last n elements: what slices.Delete and splice leave.
Newest(s, n) == SubSeq(s, IF Len(s) > n THEN Len(s) - n + 1 ELSE 1, Len(s))

-----------------------------------------------------------------------------
(* Migrations *)

\* Mutant: the progress of the last migration stays.
handleMigrateKeepsProgress(m) ==
  /\ ~isMigrating /\ m = migrationID + 1
  /\ isMigrating' = TRUE /\ migrationID' = m /\ cancel' = "armed"
  /\ migrationOutput' = <<>> /\ migrationLogSeq' = migrationLogSeq + 1
  /\ latestProgress' = latestProgress
  /\ wk' = [wk EXCEPT ![m].pc = "submit"]

\* Every check of the form comes before the lock and changes nothing when it fails;
\* a migration under way is answered with a conflict.
handleMigrate(m) ==
  /\ ~isMigrating /\ m = migrationID + 1
  /\ isMigrating' = TRUE /\ migrationID' = m /\ cancel' = "armed"
  /\ migrationOutput' = <<>> /\ migrationLogSeq' = migrationLogSeq + 1
  /\ latestProgress' = 0
  /\ wk' = [wk EXCEPT ![m].pc = "submit"]

handleMigrateStop ==
  /\ cancel = "armed" /\ cancel' = "called"
  /\ UNCHANGED <<isMigrating, migrationID, logVars, latestProgress, tallyVars, wk>>

\* Mutant: the limit is off by one.
appendLogOneMore(m) ==
  /\ migrationLogSeq' = migrationLogSeq + 1
  /\ migrationOutput' =
       Newest(Append(migrationOutput, [of |-> m, seq |-> migrationLogSeq']), maxLogLines + 1)

appendLog(m) ==
  /\ migrationLogSeq' = migrationLogSeq + 1
  /\ migrationOutput' =
       Newest(Append(migrationOutput, [of |-> m, seq |-> migrationLogSeq']), maxLogLines)

setMigrationResult(m, ok) ==
  /\ succeeded' = IF ok THEN succeeded + 1 ELSE succeeded
  /\ failed' = IF ok THEN failed ELSE failed + 1
  /\ migrationHistory' =
       Newest(Append(migrationHistory,
                     [id |-> migrationID, ok |-> ok, progress |-> latestProgress, by |-> m]),
              maxHistoryEntries)

Goes(m, pc, term) == wk' = [wk EXCEPT ![m] = [pc |-> pc, term |-> term]]

Submits(m) ==
  /\ wk[m].pc = "submit" /\ appendLog(m) /\ Goes(m, "apply", "")
  /\ UNCHANGED <<isMigrating, migrationID, cancel, latestProgress, tallyVars>>

\* Apply: an id, or an error, which is what it returns once ctx is cancelled.
ApplyReturns(m) ==
  /\ wk[m].pc = "apply" /\ appendLog(m)
  /\ Goes(m, "watch", "") \/ Goes(m, "settle", "failed")
  /\ UNCHANGED <<isMigrating, migrationID, cancel, latestProgress, tallyVars>>

WatchReturns(m) ==
  /\ wk[m].pc = "watch"
  /\ \/ Goes(m, "loop", "") /\ UNCHANGED logVars
     \/ Goes(m, "settle", "failed") /\ appendLog(m)
  /\ UNCHANGED <<isMigrating, migrationID, cancel, latestProgress, tallyVars>>

\* One StatusUpdate of the channel: RAM progress is kept, a line is logged and a
\* terminal phase remembered, the last one if there are several.
Update(m) ==
  /\ wk[m].pc = "loop" /\ migrationLogSeq < m * MaxLines
  /\ \E term \in {wk[m].term, "succeeded", "failed"} :
       /\ Goes(m, "loop", term)
       /\ latestProgress' \in IF term = "succeeded" /\ term # wk[m].term
                               THEN {m} ELSE {latestProgress, m}
  /\ appendLog(m)
  /\ UNCHANGED <<isMigrating, migrationID, cancel, tallyVars>>

ChannelCloses(m) ==
  /\ wk[m].pc = "loop" /\ Goes(m, "settle", wk[m].term)
  /\ UNCHANGED <<isMigrating, migrationID, cancel, logVars, latestProgress, tallyVars>>

\* Mutant: recover records no result.
PanicsQuietly(m) ==
  /\ wk[m].pc \in {"apply", "watch", "loop"}
  /\ appendLog(m) /\ Goes(m, "leave", "failed")
  /\ UNCHANGED <<isMigrating, migrationID, cancel, latestProgress, tallyVars>>

\* The deferred recover logs a line and records an error.
Panics(m) ==
  /\ wk[m].pc \in {"apply", "watch", "loop"}
  /\ appendLog(m) /\ Goes(m, "settle", "failed")
  /\ UNCHANGED <<isMigrating, migrationID, cancel, latestProgress, tallyVars>>

\* A channel closed without a terminal phase counts as an error.
Settles(m) ==
  /\ wk[m].pc = "settle"
  /\ setMigrationResult(m, wk[m].term = "succeeded")
  /\ Goes(m, "leave", wk[m].term)
  /\ UNCHANGED <<isMigrating, migrationID, cancel, logVars, latestProgress>>

Leaves(m) ==
  /\ wk[m].pc = "leave" /\ Goes(m, "done", "")
  /\ isMigrating' = FALSE /\ cancel' = "nil"
  /\ UNCHANGED <<migrationID, logVars, latestProgress, tallyVars>>

runOrchestrator(m) ==
  \/ Submits(m) \/ ApplyReturns(m) \/ WatchReturns(m) \/ Update(m)
  \/ ChannelCloses(m) \/ Panics(m) \/ Settles(m) \/ Leaves(m)

-----------------------------------------------------------------------------
(* Load generators *)

tryStartLoadgen(g, kind) ==
  /\ ~loadgenRunning /\ g = loadgen + 1
  /\ loadgenRunning' = TRUE /\ loadgen' = g /\ loadgenCancel' = "armed"
  /\ pingLog' = <<>> /\ pingSeq' = pingSeq + 1
  /\ lg' = [lg EXCEPT ![g] = kind]

\* Mutant: Stop frees the slot at once.
stopLoadgenResets ==
  /\ loadgenCancel = "armed" /\ loadgenCancel' = "nil"
  /\ loadgenRunning' = FALSE
  /\ UNCHANGED <<loadgen, pingLog, pingSeq, lg>>

stopLoadgen ==
  /\ loadgenCancel = "armed" /\ loadgenCancel' = "called"
  /\ UNCHANGED <<loadgenRunning, loadgen, pingLog, pingSeq, lg>>

\* What it reads under the lock before only goes into the answer.
handleLoadgenStop == stopLoadgen

addPing(g) ==
  /\ pingSeq' = pingSeq + 1
  /\ pingLog' = Newest(Append(pingLog, [of |-> g, seq |-> pingSeq']), maxPingLines)

Samples(g) ==
  /\ lg[g] \in {"ping", "http"} /\ pingSeq < MaxPings /\ addPing(g)
  /\ UNCHANGED <<loadgenRunning, loadgen, loadgenCancel, lg>>

Ends(g) ==
  /\ lg' = [lg EXCEPT ![g] = "ended"]
  /\ UNCHANGED <<loadgenRunning, loadgen, loadgenCancel>>

\* ping cannot start, or its output ends; a cancelled ctx kills it.
PingEnds(g) == lg[g] = "ping" /\ Ends(g) /\ UNCHANGED <<pingLog, pingSeq>>

\* ctx is done or a panic is recovered, or no request can be made, which leaves a sample.
HTTPEnds(g) ==
  /\ lg[g] = "http" /\ Ends(g)
  /\ \/ UNCHANGED <<pingLog, pingSeq>>
     \/ pingSeq < MaxPings /\ addPing(g)

resetLoadgen(g) ==
  /\ lg[g] = "ended" /\ lg' = [lg EXCEPT ![g] = "none"]
  /\ loadgenRunning' = FALSE /\ loadgenCancel' = "nil"
  /\ UNCHANGED <<loadgen, pingLog, pingSeq>>

-----------------------------------------------------------------------------
(* Status and the page *)

\* Mutant: a cursor the buffer has left behind is not noticed.
DeltaSkipsReset(buf, seq, after) ==
  LET start == seq - Len(buf)
  IN  [reset |-> FALSE,
       items |-> IF after > start THEN SubSeq(buf, after - start + 1, Len(buf)) ELSE buf]

\* handleStatus, for a buffer whose last element has number seq: what it sends to a
\* page with the cursor, and whether it says reset.  The page sends no cursor 0.
Delta(buf, seq, after) ==
  LET start == seq - Len(buf)
      reset == after > 0 /\ (after < start \/ after > seq)
  IN  [reset |-> reset,
       items |-> IF after > start /\ ~reset
                 THEN SubSeq(buf, after - start + 1, Len(buf)) ELSE buf]

logsDelta(after) == Delta(migrationOutput, migrationLogSeq, after)

pingsDelta(after) == Delta(pingLog, pingSeq, after)

\* refreshStatus runs one request at a time and keeps its cursors when one fails: an
\* answer that comes late finds the page as it was when the server wrote it, so
\* reading and showing are one step here, and the two buffers two independent ones.
ShowLogs ==
  LET d == logsDelta(lastLogSeq)
      clear == d.reset \/ (migrationID # 0 /\ migrationID # activeLogMigrationID)
      wipe == clear \/ (d.items # <<>> /\ lastLogSeq = 0)
  IN  /\ logsDiv' = (IF wipe THEN <<>> ELSE logsDiv) \o d.items
      /\ activeLogMigrationID' = IF clear THEN migrationID ELSE activeLogMigrationID
      /\ lastLogSeq' = migrationLogSeq

ClearLogs ==
  /\ logsDiv # <<>> /\ logsDiv' = <<>>
  /\ UNCHANGED <<lastLogSeq, activeLogMigrationID>>

ShowPings ==
  LET d == pingsDelta(lastPingSeq)
  IN  /\ pingSamples' = Newest((IF d.reset THEN <<>> ELSE pingSamples) \o d.items, maxPageSamples)
      /\ lastPingSeq' = pingSeq

-----------------------------------------------------------------------------
MigrationStep ==
  /\ \/ \E m \in Migrations : handleMigrate(m) /\ UNCHANGED tallyVars
     \/ handleMigrateStop
     \/ \E m \in Migrations : runOrchestrator(m)
  /\ UNCHANGED <<loadVars, logPage, pingPage>>

LoadStep ==
  /\ \/ \E g \in Loads :
            \/ tryStartLoadgen(g, "ping") \/ tryStartLoadgen(g, "http")
            \/ Samples(g) \/ PingEnds(g) \/ HTTPEnds(g) \/ resetLoadgen(g)
     \/ handleLoadgenStop
  /\ UNCHANGED <<migVars, logPage, pingPage>>

Next ==
  \/ MigrationStep \/ LoadStep
  \/ (ShowLogs \/ ClearLogs) /\ UNCHANGED <<migVars, loadVars, pingPage>>
  \/ ShowPings /\ UNCHANGED <<migVars, loadVars, logPage>>

Spec == Init /\ [][Next]_vars

-----------------------------------------------------------------------------
Tagged(N) == [of : 0 .. N, seq : Nat]

Results == [id : 0 .. MaxMigrations, ok : BOOLEAN, progress : 0 .. MaxMigrations, by : Migrations]

Goroutines == [pc : {"none", "submit", "apply", "watch", "loop", "settle", "leave", "done"},
               term : {"", "succeeded", "failed"}]

\* Every variable has its type, and no buffer outgrows its limit.
TypeOK ==
  /\ isMigrating \in BOOLEAN /\ migrationID \in 0 .. MaxMigrations
  /\ cancel \in {"nil", "armed", "called"} /\ loadgenCancel \in {"nil", "armed", "called"}
  /\ migrationOutput \in Seq(Tagged(MaxMigrations)) /\ Len(migrationOutput) <= maxLogLines
  /\ migrationLogSeq \in Nat /\ latestProgress \in 0 .. MaxMigrations
  /\ succeeded \in Nat /\ failed \in Nat
  /\ migrationHistory \in Seq(Results) /\ Len(migrationHistory) <= maxHistoryEntries
  /\ wk \in [Migrations -> Goroutines]
  /\ loadgenRunning \in BOOLEAN /\ loadgen \in 0 .. MaxLoads
  /\ pingLog \in Seq(Tagged(MaxLoads)) /\ Len(pingLog) <= maxPingLines /\ pingSeq \in Nat
  /\ logsDiv \in Seq(Tagged(MaxMigrations)) /\ lastLogSeq \in 0 .. migrationLogSeq
  /\ activeLogMigrationID \in 0 .. migrationID /\ lg \in [Loads -> {"none", "ping", "http", "ended"}]
  /\ pingSamples \in Seq(Tagged(MaxLoads)) /\ Len(pingSamples) <= maxPageSamples
  /\ lastPingSeq \in 0 .. pingSeq

\* A result is filed under the migration it is the result of, with that migration's
\* progress and no earlier one's, although setMigrationResult takes both from what is
\* current when it runs (migrate.go:448, 455), after other requests had their turn.
HistoryIsOwn ==
  \A h \in Range(migrationHistory) : h.id = h.by /\ h.progress \in {0, h.by}

\* Each migration gets one result, also when its goroutine panics, and the newest are
\* in the history in the order they ran: started = succeeded + failed + the one that
\* has not settled yet (migrate.go:223, 263, 441-465).
ResultsAddUp ==
  /\ migrationID = succeeded + failed
       + Cardinality({m \in Migrations : wk[m].pc \notin {"none", "leave", "done"}})
  /\ \A i \in 1 .. Len(migrationHistory) :
       migrationHistory[i].by = succeeded + failed - Len(migrationHistory) + i

Numbered(shown, last, of) ==
  \A i \in 1 .. Len(shown) : shown[i] = [of |-> of, seq |-> last - Len(shown) + i]

\* What the page shows is one unbroken run of the log lines of one migration, up to its
\* cursor: none twice, none missing and none of an earlier migration, however many
\* lines or migrations went by between two answers (server.go:410-419, index.html:1043).
\* The same holds of the samples, where only the reset flag tells one load generator
\* from the next (server.go:446-456, loadgen.go:70-71).
PageIsExact ==
  /\ Numbered(logsDiv, lastLogSeq, activeLogMigrationID)
  /\ pingSamples # <<>> => Numbered(pingSamples, lastPingSeq, pingSamples[Len(pingSamples)].of)

\* The slot of a migration, and that of a load generator, is taken exactly while its
\* goroutine is alive, through errors, stops and panics: a slot that outlives it would
\* answer every later request with a conflict, one that is freed early would let a
\* second goroutine write into the same buffers (migrate.go:250, loadgen.go:81).
SlotsHeld ==
  /\ isMigrating = (\E m \in Migrations : wk[m].pc \notin {"none", "done"})
  /\ isMigrating = (cancel # "nil")
  /\ loadgenRunning = (\E g \in Loads : lg[g] # "none")
  /\ loadgenRunning = (loadgenCancel # "nil")
=============================================================================
