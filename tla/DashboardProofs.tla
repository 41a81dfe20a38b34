-------------------------- MODULE DashboardProofs --------------------------
(***************************************************************************)
(* Proofs about the dashboard, for any limits of its buffers and any       *)
(* number of migrations, load generators, lines and samples.               *)
(***************************************************************************)
EXTENDS Dashboard, SequenceTheorems, FiniteSetTheorems, TLAPS

-----------------------------------------------------------------------------
(* The inductive invariant.                                                *)

\* Migrations before the current one have ended, those after it have not begun, and the
\* current one holds the slot until it ends.
WorkInv ==
  /\ \A m \in Migrations :
       /\ m < migrationID => wk[m].pc = "done"
       /\ m = migrationID => wk[m].pc # "none" /\ (isMigrating <=> wk[m].pc # "done")
       /\ m > migrationID => wk[m].pc = "none"
  /\ isMigrating => migrationID # 0
  /\ isMigrating <=> cancel # "nil"

LoadInv ==
  /\ \A g \in Loads : lg[g] # "none" <=> g = loadgen /\ loadgenRunning
  /\ loadgenRunning => loadgen # 0
  /\ loadgenRunning <=> loadgenCancel # "nil"

\* The current migration has no result yet.
Unsettled == isMigrating /\ wk[migrationID].pc # "leave"

\* The results h are those of the last migrations up to n, each its own.
InOrder(h, n) ==
  \A i \in 1 .. Len(h) : /\ h[i].by = n - Len(h) + i
                         /\ h[i].id = h[i].by /\ h[i].progress \in {0, h[i].by}

ResultInv ==
  /\ migrationID = succeeded + failed + (IF Unsettled THEN 1 ELSE 0)
  /\ InOrder(migrationHistory, succeeded + failed)
  /\ latestProgress \in {0, migrationID}

\* The buffer holds the last lines of the current migration; the page lags behind.
LogInv ==
  /\ Numbered(migrationOutput, migrationLogSeq, migrationID)
  /\ Len(migrationOutput) <= migrationLogSeq
  /\ Numbered(logsDiv, lastLogSeq, activeLogMigrationID)
  /\ Len(logsDiv) <= lastLogSeq

\* The same of the samples; a cursor the buffer still covers is of the load generator
\* that fills it.
PingInv ==
  /\ Numbered(pingLog, pingSeq, loadgen)
  /\ Len(pingLog) <= pingSeq
  /\ pingSamples # <<>> => Numbered(pingSamples, lastPingSeq, pingSamples[Len(pingSamples)].of)
  /\ Len(pingSamples) <= lastPingSeq
  /\ pingSamples # <<>> /\ lastPingSeq >= pingSeq - Len(pingLog) => pingSamples[Len(pingSamples)].of = loadgen

IInv == TypeOK /\ WorkInv /\ LoadInv /\ ResultInv /\ LogInv /\ PingInv

-----------------------------------------------------------------------------
(* Buffers.                                                                *)

\* The end of a sequence, from a place on.
LEMMA SuffixIs ==
  ASSUME NEW S, NEW s \in Seq(S), NEW from \in 1 .. Len(s) + 1
  PROVE  /\ SubSeq(s, from, Len(s)) \in Seq(S)
         /\ Len(SubSeq(s, from, Len(s))) = Len(s) - from + 1
         /\ \A i \in 1 .. Len(s) - from + 1 : SubSeq(s, from, Len(s))[i] = s[from + i - 1]
<1>1. Len(s) \in Nat
  BY LenProperties
<1>2. from \in Int /\ Len(s) \in Int /\ \A i \in from .. Len(s) : s[i] \in S
  BY <1>1, ElementOfSeq
<1>3. /\ SubSeq(s, from, Len(s)) \in Seq(S)
      /\ Len(SubSeq(s, from, Len(s))) = IF from <= Len(s) THEN Len(s) - from + 1 ELSE 0
      /\ \A i \in 1 .. Len(s) - from + 1 : SubSeq(s, from, Len(s))[i] = s[from + i - 1]
  BY <1>2, SubSeqProperties
<1>4. ~(from <= Len(s)) => Len(s) - from + 1 = 0
  BY <1>1
<1> QED BY <1>3, <1>4

\* What is left of a buffer that was cut to its limit are its last elements.
LEMMA NewestIs ==
  ASSUME NEW S, NEW s \in Seq(S), NEW n \in Nat \ {0}
  PROVE  /\ Newest(s, n) \in Seq(S)
         /\ Len(Newest(s, n)) = IF Len(s) > n THEN n ELSE Len(s)
         /\ \A i \in 1 .. Len(Newest(s, n)) :
              Newest(s, n)[i] = s[Len(s) - Len(Newest(s, n)) + i]
<1> DEFINE from == IF Len(s) > n THEN Len(s) - n + 1 ELSE 1
<1>1. Len(s) \in Nat
  BY LenProperties
<1>2. from \in 1 .. Len(s) + 1
  BY <1>1
<1>3. Newest(s, n) = SubSeq(s, from, Len(s))
  BY DEF Newest
<1>4. Len(s) - from + 1 = IF Len(s) > n THEN n ELSE Len(s)
  BY <1>1
<1> HIDE DEF from
<1>5. /\ Newest(s, n) \in Seq(S)
      /\ Len(Newest(s, n)) = Len(s) - from + 1
      /\ \A i \in 1 .. Len(s) - from + 1 : Newest(s, n)[i] = s[from + i - 1]
  BY <1>2, <1>3, SuffixIs
<1>6. \A i \in 1 .. Len(Newest(s, n)) : from + i - 1 = Len(s) - Len(Newest(s, n)) + i
  BY <1>1, <1>2, <1>5
<1> QED BY <1>4, <1>5, <1>6

\* A line that is added carries the next number.
LEMMA NumberedAppend ==
  ASSUME NEW N \in Nat, NEW s \in Seq(Tagged(N)), NEW last \in Nat, NEW of \in 0 .. N,
         Numbered(s, last, of)
  PROVE  LET t == Append(s, [of |-> of, seq |-> last + 1])
         IN  t \in Seq(Tagged(N)) /\ Len(t) = Len(s) + 1 /\ Numbered(t, last + 1, of)
<1> DEFINE e == [of |-> of, seq |-> last + 1]
<1>1. e \in Tagged(N)
  BY DEF Tagged
<1>2. /\ Append(s, e) \in Seq(Tagged(N))
      /\ Len(Append(s, e)) = Len(s) + 1
      /\ \A i \in 1 .. Len(s) : Append(s, e)[i] = s[i]
      /\ Append(s, e)[Len(s) + 1] = e
  <2> HIDE DEF e
  <2> QED BY <1>1, AppendProperties
<1>3. Numbered(Append(s, e), last + 1, of)
  <2> SUFFICES ASSUME NEW i \in 1 .. Len(s) + 1
               PROVE  Append(s, e)[i] = [of |-> of, seq |-> last + 1 - (Len(s) + 1) + i]
    BY <1>2 DEF Numbered
  <2>1. Len(s) \in Nat
    BY LenProperties
  <2>2. CASE i = Len(s) + 1
    BY <1>2, <2>1, <2>2
  <2>3. CASE i \in 1 .. Len(s)
    <3>1. Append(s, e)[i] = [of |-> of, seq |-> last - Len(s) + i]
      BY <1>2, <2>3 DEF Numbered
    <3>2. last - Len(s) + i = last + 1 - (Len(s) + 1) + i
      BY <2>1
    <3> QED BY <3>1, <3>2
  <2> QED BY <2>1, <2>2, <2>3
<1> QED BY <1>2, <1>3

\* A buffer that is cut keeps its numbers.
LEMMA NumberedNewest ==
  ASSUME NEW S, NEW s \in Seq(S), NEW last \in Nat, NEW of, NEW n \in Nat \ {0}, Numbered(s, last, of)
  PROVE  Numbered(Newest(s, n), last, of)
<1> SUFFICES ASSUME NEW i \in 1 .. Len(Newest(s, n))
             PROVE  Newest(s, n)[i] = [of |-> of, seq |-> last - Len(Newest(s, n)) + i]
  BY Zenon DEF Numbered
<1>1. Len(s) \in Nat /\ Len(Newest(s, n)) \in 0 .. Len(s)
  BY NewestIs, LenProperties
<1>2. Newest(s, n)[i] = s[Len(s) - Len(Newest(s, n)) + i]
  BY NewestIs
<1>3. Len(s) - Len(Newest(s, n)) + i \in 1 .. Len(s)
  BY <1>1
<1>4. last - Len(s) + (Len(s) - Len(Newest(s, n)) + i) = last - Len(Newest(s, n)) + i
  BY <1>1
<1> QED BY <1>2, <1>3, <1>4 DEF Numbered

\* Two runs of which the second continues the first are one.
LEMMA NumberedConcat ==
  ASSUME NEW S, NEW s \in Seq(S), NEW t \in Seq(S), NEW last \in Nat, NEW of,
         Numbered(s, last, of), Numbered(t, last + Len(t), of)
  PROVE  Numbered(s \o t, last + Len(t), of)
<1>1. Len(s) \in Nat /\ Len(t) \in Nat
  BY LenProperties
<1>2. /\ Len(s \o t) = Len(s) + Len(t)
      /\ \A i \in 1 .. Len(s) + Len(t) :
           (s \o t)[i] = IF i <= Len(s) THEN s[i] ELSE t[i - Len(s)]
  BY ConcatProperties
<1> SUFFICES ASSUME NEW i \in 1 .. Len(s) + Len(t)
             PROVE  (s \o t)[i] = [of |-> of, seq |-> last + Len(t) - (Len(s) + Len(t)) + i]
  BY <1>2 DEF Numbered
<1>3. CASE i <= Len(s)
  <2>1. (s \o t)[i] = [of |-> of, seq |-> last - Len(s) + i]
    BY <1>1, <1>2, <1>3 DEF Numbered
  <2>2. last - Len(s) + i = last + Len(t) - (Len(s) + Len(t)) + i
    BY <1>1
  <2> QED BY <2>1, <2>2
<1>4. CASE i > Len(s)
  <2>1. i - Len(s) \in 1 .. Len(t)
    BY <1>1, <1>4
  <2>2. (s \o t)[i] = [of |-> of, seq |-> last + Len(t) - Len(t) + (i - Len(s))]
    BY <1>1, <1>2, <1>4, <2>1 DEF Numbered
  <2>3. last + Len(t) - Len(t) + (i - Len(s)) = last + Len(t) - (Len(s) + Len(t)) + i
    BY <1>1
  <2> QED BY <2>2, <2>3
<1> QED BY <1>1, <1>3, <1>4

\* The last element tells whose run it is.
LEMMA NumberedLast ==
  ASSUME NEW S, NEW s \in Seq(S), NEW last \in Nat, NEW of, Numbered(s, last, of), s # <<>>
  PROVE  s[Len(s)].of = of
<1>1. Len(s) \in 1 .. Len(s)
  BY EmptySeq, LenProperties
<1>2. s[Len(s)] = [of |-> of, seq |-> last - Len(s) + Len(s)]
  BY <1>1, Zenon DEF Numbered
<1> QED BY <1>2

\* What handleStatus answers to a cursor: the numbers up to the last, all that the buffer
\* has if it says reset or the page has nothing, and else those after the cursor.
LEMMA DeltaIs ==
  ASSUME NEW S, NEW buf \in Seq(S), NEW seq \in Nat, NEW of, NEW after \in 0 .. seq,
         Numbered(buf, seq, of), Len(buf) <= seq
  PROVE  LET d == Delta(buf, seq, after)
         IN  /\ d.items \in Seq(S) /\ Len(d.items) <= Len(buf)
             /\ Numbered(d.items, seq, of)
             /\ d.reset <=> after # 0 /\ after < seq - Len(buf)
             /\ ~d.reset /\ after # 0 => Len(d.items) = seq - after
             /\ after = 0 => d.items = buf
<1> DEFINE start == seq - Len(buf)
           d == Delta(buf, seq, after)
           tail == SubSeq(buf, after - start + 1, Len(buf))
<1>1. Len(buf) \in Nat /\ start \in Nat /\ start = seq - Len(buf)
  BY LenProperties
<1>2. d.reset = (after > 0 /\ (after < start \/ after > seq))
  BY DEF Delta
<1>3. d.items = IF after > start /\ ~d.reset THEN tail ELSE buf
  BY Zenon DEF Delta
<1>4. after - start + 1 \in Int /\ (after > start => after - start + 1 \in 1 .. Len(buf) + 1)
  BY <1>1
<1>5. after > start => /\ tail \in Seq(S)
                       /\ Len(tail) = Len(buf) - (after - start + 1) + 1
                       /\ \A i \in 1 .. Len(buf) - (after - start + 1) + 1 :
                            tail[i] = buf[after - start + 1 + i - 1]
  <2> DEFINE from == after - start + 1
  <2> SUFFICES ASSUME from \in 1 .. Len(buf) + 1
               PROVE  /\ SubSeq(buf, from, Len(buf)) \in Seq(S)
                      /\ Len(SubSeq(buf, from, Len(buf))) = Len(buf) - from + 1
                      /\ \A i \in 1 .. Len(buf) - from + 1 :
                           SubSeq(buf, from, Len(buf))[i] = buf[from + i - 1]
    BY <1>4, Zenon
  <2> HIDE DEF from
  <2> QED BY SuffixIs
<1> HIDE DEF tail, d, start
<1>6. d.reset <=> after # 0 /\ after < start
  <2>1. (after > 0 /\ (after < start \/ after > seq)) <=> (after # 0 /\ after < start)
    BY <1>1
  <2> QED BY <1>2, <2>1, Zenon
<1>7. CASE after > start
  <2>1. Len(tail) = seq - after /\ Len(tail) <= Len(buf)
    <3>1. Len(tail) = Len(buf) - (after - start + 1) + 1
      BY <1>5, <1>7, Zenon
    <3> QED BY <1>1, <1>7, <3>1
  <2>2. Numbered(tail, seq, of)
    <3> SUFFICES ASSUME NEW i \in 1 .. Len(tail)
                 PROVE  tail[i] = [of |-> of, seq |-> seq - Len(tail) + i]
      BY DEF Numbered
    <3>1. after - start + i \in 1 .. Len(buf)
      BY <1>1, <1>7, <2>1
    <3>2. tail[i] = buf[after - start + i]
      <4>1. i \in 1 .. Len(buf) - (after - start + 1) + 1
        BY <1>1, <1>5, <1>7, <2>1, Zenon
      <4>2. after - start + 1 + i - 1 = after - start + i
        BY <1>1, <2>1
      <4> QED BY <1>5, <1>7, <4>1, <4>2, Zenon
    <3>3. seq - Len(buf) + (after - start + i) = seq - Len(tail) + i
      BY <1>1, <2>1
    <3> QED BY <3>1, <3>2, <3>3, Zenon DEF Numbered
  <2>3. d.items = tail /\ ~d.reset
    BY <1>1, <1>3, <1>6, <1>7
  <2>4. after # 0
    BY <1>1, <1>7
  <2> QED BY <1>1, <1>5, <1>6, <1>7, <2>1, <2>2, <2>3, <2>4, Zenon DEF d
<1>8. CASE ~(after > start)
  <2>1. d.items = buf
    BY <1>3, <1>8
  <2>2. ~d.reset /\ after # 0 => Len(buf) = seq - after
    BY <1>1, <1>6, <1>8
  <2>3. Len(buf) <= Len(buf)
    BY <1>1
  <2> QED BY <1>1, <1>6, <2>1, <2>2, <2>3, Zenon DEF d
<1> QED BY <1>7, <1>8

-----------------------------------------------------------------------------
(* Migrations.                                                             *)

\* A goroutine that can still do something is that of the current migration.
LEMMA WorkerIsCurrent ==
  ASSUME TypeOK, WorkInv, NEW m \in Migrations, wk[m].pc \notin {"none", "done"}
  PROVE  m = migrationID /\ isMigrating
<1>1. m \in Nat /\ migrationID \in Nat
  BY DEF TypeOK, Migrations
<1>2. ~(m < migrationID) /\ ~(m > migrationID)
  BY DEF WorkInv
<1>3. m = migrationID
  BY <1>1, <1>2
<1> QED BY <1>3 DEF WorkInv

\* appendLog of the current migration extends the run of its lines.
LEMMA AppendLogEffect ==
  ASSUME TypeOK, LogInv, NEW m \in Migrations, m = migrationID, appendLog(m)
  PROVE  /\ migrationLogSeq' = migrationLogSeq + 1
         /\ migrationOutput' \in Seq(Tagged(MaxMigrations))
         /\ Len(migrationOutput') <= maxLogLines
         /\ Len(migrationOutput') <= migrationLogSeq'
         /\ Numbered(migrationOutput', migrationLogSeq', m)
<1> DEFINE t == Append(migrationOutput, [of |-> m, seq |-> migrationLogSeq + 1])
<1>1. MaxMigrations \in Nat /\ m \in 0 .. MaxMigrations /\ maxLogLines \in Nat \ {0}
  BY DashboardAssumption DEF Migrations
<1>2. migrationLogSeq \in Nat /\ migrationOutput \in Seq(Tagged(MaxMigrations))
  BY DEF TypeOK
<1>3. Numbered(migrationOutput, migrationLogSeq, m) /\ Len(migrationOutput) <= migrationLogSeq
  BY DEF LogInv
<1>4. t \in Seq(Tagged(MaxMigrations)) /\ Len(t) = Len(migrationOutput) + 1
      /\ Numbered(t, migrationLogSeq + 1, m)
  BY <1>1, <1>2, <1>3, NumberedAppend
<1>5. migrationLogSeq' = migrationLogSeq + 1 /\ migrationOutput' = Newest(t, maxLogLines)
  BY DEF appendLog
<1> HIDE DEF t
<1>6. migrationOutput' \in Seq(Tagged(MaxMigrations))
      /\ Len(migrationOutput') = IF Len(t) > maxLogLines THEN maxLogLines ELSE Len(t)
  BY <1>1, <1>4, <1>5, NewestIs, Zenon
<1>7. Len(migrationOutput) \in Nat
  BY <1>2, LenProperties, Zenon
<1>8. Numbered(migrationOutput', migrationLogSeq', m)
  BY <1>1, <1>2, <1>4, <1>5, NumberedNewest
<1> QED BY <1>1, <1>2, <1>3, <1>4, <1>5, <1>6, <1>7, <1>8

\* The run of an orchestrator's step: it is the current migration's, and it leaves the log
\* as it is or adds a line.
LEMMA OrchestratorLog ==
  ASSUME TypeOK, WorkInv, LogInv, NEW m \in Migrations, runOrchestrator(m)
  PROVE  /\ m = migrationID /\ isMigrating /\ migrationID' = migrationID
         /\ migrationLogSeq' \in {migrationLogSeq, migrationLogSeq + 1}
         /\ migrationOutput' \in Seq(Tagged(MaxMigrations))
         /\ Len(migrationOutput') <= maxLogLines
         /\ Len(migrationOutput') <= migrationLogSeq'
         /\ Numbered(migrationOutput', migrationLogSeq', migrationID')
<1>1. wk[m].pc \notin {"none", "done"} /\ migrationID' = migrationID
  BY Zenon DEF runOrchestrator, Submits, ApplyReturns, WatchReturns, Update, ChannelCloses, Panics,
         Settles, Leaves
<1>2. appendLog(m) \/ UNCHANGED logVars
  BY Zenon DEF runOrchestrator, Submits, ApplyReturns, WatchReturns, Update, ChannelCloses, Panics,
         Settles, Leaves
<1>3. m = migrationID /\ isMigrating
  BY <1>1, WorkerIsCurrent, Zenon
<1>4. CASE appendLog(m)
  BY <1>1, <1>3, <1>4, AppendLogEffect, Zenon
<1>5. CASE UNCHANGED logVars
  BY <1>1, <1>3, <1>5, Zenon DEF logVars, TypeOK, LogInv
<1> QED BY <1>2, <1>4, <1>5

\* ... it moves its own goroutine only, and frees the slot exactly when that one is done.
LEMMA OrchestratorWork ==
  ASSUME TypeOK, WorkInv, NEW m \in Migrations, runOrchestrator(m)
  PROVE  /\ wk' \in [Migrations -> Goroutines]
         /\ \A k \in Migrations : k # m => wk'[k] = wk[k]
         /\ wk'[m].pc # "none"
         /\ \/ wk'[m].pc = "done" /\ isMigrating' = FALSE /\ cancel' = "nil"
            \/ wk'[m].pc # "done" /\ isMigrating' = isMigrating /\ cancel' = cancel
         /\ latestProgress' \in {latestProgress, m}
<1>1. wk \in [Migrations -> Goroutines] /\ wk[m] \in Goroutines
  BY DEF TypeOK
<1>2. PICK pc \in {"apply", "watch", "loop", "settle", "leave", "done"},
           term \in {"", "succeeded", "failed"} :
        /\ Goes(m, pc, term)
        /\ \/ pc = "done" /\ isMigrating' = FALSE /\ cancel' = "nil"
           \/ pc # "done" /\ isMigrating' = isMigrating /\ cancel' = cancel
  <2>0. wk[m].term \in {"", "succeeded", "failed"}
    BY <1>1, Zenon DEF Goroutines
  <2>1. CASE Submits(m)
    BY <2>1, Zenon DEF Submits
  <2>2. CASE ApplyReturns(m)
    BY <2>2, Zenon DEF ApplyReturns
  <2>3. CASE WatchReturns(m)
    BY <2>3, Zenon DEF WatchReturns
  <2>4. CASE Update(m)
    BY <2>0, <2>4, Zenon DEF Update
  <2>5. CASE ChannelCloses(m)
    BY <2>0, <2>5, Zenon DEF ChannelCloses
  <2>6. CASE Panics(m)
    BY <2>6, Zenon DEF Panics
  <2>7. CASE Settles(m)
    BY <2>0, <2>7, Zenon DEF Settles
  <2>8. CASE Leaves(m)
    BY <2>8, Zenon DEF Leaves
  <2> QED BY <2>1, <2>2, <2>3, <2>4, <2>5, <2>6, <2>7, <2>8, Zenon DEF runOrchestrator
<1>3. [pc |-> pc, term |-> term] \in Goroutines
  BY Zenon DEF Goroutines
<1>4. wk' = [wk EXCEPT ![m] = [pc |-> pc, term |-> term]]
  BY <1>2, Zenon DEF Goes
<1>5. wk'[m].pc = pc /\ wk' \in [Migrations -> Goroutines] /\ \A k \in Migrations : k # m => wk'[k] = wk[k]
  BY <1>1, <1>3, <1>4, Zenon
<1>6. latestProgress' \in {latestProgress, m}
  BY Zenon DEF runOrchestrator, Submits, ApplyReturns, WatchReturns, Update, ChannelCloses, Panics,
         Settles, Leaves
<1> QED BY <1>2, <1>5, <1>6, Zenon

\* ... and only where it settles does it touch the results.
LEMMA OrchestratorResult ==
  ASSUME TypeOK, WorkInv, NEW m \in Migrations, runOrchestrator(m)
  PROVE  \/ Settles(m) /\ Unsettled /\ ~Unsettled'
         \/ UNCHANGED tallyVars /\ (Unsettled' <=> Unsettled)
<1>1. wk \in [Migrations -> Goroutines]
  BY DEF TypeOK
<1>2. wk[m].pc \notin {"none", "done"} /\ migrationID' = migrationID
  BY Zenon DEF runOrchestrator, Submits, ApplyReturns, WatchReturns, Update, ChannelCloses, Panics,
         Settles, Leaves
<1>3. m = migrationID /\ m = migrationID' /\ isMigrating
  BY <1>2, WorkerIsCurrent, Zenon
<1>4. Unsettled <=> wk[m].pc # "leave"
  BY <1>3 DEF Unsettled
<1>5. Unsettled' <=> isMigrating' /\ wk'[m].pc # "leave"
  BY <1>3, Zenon DEF Unsettled
<1>6. CASE Settles(m)
  <2>1. wk[m].pc = "settle" /\ wk'[m].pc = "leave"
    BY <1>1, <1>6, Zenon DEF Settles, Goes
  <2> QED BY <1>4, <1>5, <1>6, <2>1, Zenon
<1>7. CASE Leaves(m)
  <2>1. wk[m].pc = "leave" /\ ~isMigrating' /\ UNCHANGED tallyVars
    BY <1>7, Zenon DEF Leaves
  <2> QED BY <1>4, <1>5, <2>1, Zenon
<1>8. CASE ~Settles(m) /\ ~Leaves(m)
  <2>1. wk[m].pc # "leave" /\ isMigrating' = isMigrating /\ UNCHANGED tallyVars
    BY <1>8, Zenon DEF runOrchestrator, Submits, ApplyReturns, WatchReturns, Update, ChannelCloses, Panics
  <2>2. \E pc \in {"apply", "watch", "loop", "settle"} : \E term : Goes(m, pc, term)
    BY <1>8, Zenon DEF runOrchestrator, Submits, ApplyReturns, WatchReturns, Update, ChannelCloses, Panics
  <2>3. wk'[m].pc # "leave"
    BY <1>1, <2>2 DEF Goes
  <2> QED BY <1>3, <1>4, <1>5, <2>1, <2>3, Zenon
<1> QED BY <1>6, <1>7, <1>8, Zenon

\* A result is filed behind the earlier ones, the oldest of which may fall out.
LEMMA Filed ==
  ASSUME NEW h \in Seq(Results), NEW n \in Nat, NEW e \in Results, NEW k \in Nat \ {0},
         e.by = n + 1, e.id = n + 1, e.progress \in {0, n + 1}, InOrder(h, n)
  PROVE  LET u == Newest(Append(h, e), k)
         IN  u \in Seq(Results) /\ Len(u) <= k /\ InOrder(u, n + 1)
<1>1. PICK t : t = Append(h, e)
  BY Zenon
<1>2. t \in Seq(Results) /\ Len(t) = Len(h) + 1 /\ t[Len(h) + 1] = e
      /\ \A i \in 1 .. Len(h) : t[i] = h[i]
  BY <1>1, AppendProperties
<1>3. Len(h) \in Nat /\ Len(t) \in Nat
  BY <1>2, LenProperties, Zenon
<1>4. InOrder(t, n + 1)
  <2> SUFFICES ASSUME NEW i \in 1 .. Len(t)
               PROVE  /\ t[i].by = n + 1 - Len(t) + i
                      /\ t[i].id = t[i].by /\ t[i].progress \in {0, t[i].by}
    BY DEF InOrder
  <2>1. CASE i = Len(h) + 1
    <3>1. n + 1 - Len(t) + i = n + 1
      BY <1>2, <1>3, <2>1
    <3> QED BY <1>2, <2>1, <3>1, Zenon
  <2>2. CASE i # Len(h) + 1
    <3>1. i \in 1 .. Len(h) /\ n + 1 - Len(t) + i = n - Len(h) + i
      BY <1>2, <1>3, <2>2
    <3> QED BY <1>2, <3>1, Zenon DEF InOrder
  <2> QED BY <2>1, <2>2, Zenon
<1>5. PICK u : u = Newest(t, k)
  OBVIOUS
<1>6. /\ u \in Seq(Results) /\ Len(u) = IF Len(t) > k THEN k ELSE Len(t)
      /\ \A i \in 1 .. Len(u) : u[i] = t[Len(t) - Len(u) + i]
  <2>1. /\ Newest(t, k) \in Seq(Results)
        /\ Len(Newest(t, k)) = IF Len(t) > k THEN k ELSE Len(t)
        /\ \A i \in 1 .. Len(Newest(t, k)) : Newest(t, k)[i] = t[Len(t) - Len(Newest(t, k)) + i]
    <3> HIDE <1>5
    <3> QED BY <1>2, NewestIs, Zenon
  <2> QED BY <1>5, <2>1, Zenon
<1>7. Len(u) \in Nat /\ Len(u) <= Len(t) /\ Len(u) <= k
  BY <1>3, <1>6
<1>8. InOrder(u, n + 1)
  <2> SUFFICES ASSUME NEW i \in 1 .. Len(u)
               PROVE  /\ u[i].by = n + 1 - Len(u) + i
                      /\ u[i].id = u[i].by /\ u[i].progress \in {0, u[i].by}
    BY DEF InOrder
  <2>0. Len(t) - Len(u) + i \in 1 .. Len(t)
    BY <1>3, <1>7
  <2>1. PICK j \in 1 .. Len(t) : j = Len(t) - Len(u) + i
    BY <2>0, Zenon
  <2>2. n + 1 - Len(t) + j = n + 1 - Len(u) + i
    BY <1>3, <1>7, <2>1
  <2>3. u[i] = t[j]
    BY <1>6, <2>1, Zenon
  <2>4. t[j].by = n + 1 - Len(t) + j /\ t[j].id = t[j].by /\ t[j].progress \in {0, t[j].by}
    BY <1>4 DEF InOrder
  <2> QED BY <2>2, <2>3, <2>4, Zenon
<1> QED BY <1>1, <1>5, <1>6, <1>7, <1>8, Zenon

LEMMA SettlesEffect ==
  ASSUME IInv, NEW m \in Migrations, Settles(m), m = migrationID, Unsettled
  PROVE  /\ succeeded' \in Nat /\ failed' \in Nat /\ succeeded' + failed' = m
         /\ migrationHistory' \in Seq(Results) /\ Len(migrationHistory') <= maxHistoryEntries
         /\ InOrder(migrationHistory', succeeded' + failed')
<1> DEFINE ok == wk[m].term = "succeeded"
           e == [id |-> migrationID, ok |-> ok, progress |-> latestProgress, by |-> m]
<1>1. /\ succeeded \in Nat /\ failed \in Nat /\ migrationHistory \in Seq(Results)
      /\ latestProgress \in 0 .. MaxMigrations /\ migrationID \in 0 .. MaxMigrations
      /\ maxHistoryEntries \in Nat \ {0}
  BY DashboardAssumption, Zenon DEF IInv, TypeOK
<1>2. /\ succeeded' = IF ok THEN succeeded + 1 ELSE succeeded
      /\ failed' = IF ok THEN failed ELSE failed + 1
  BY DEF Settles, setMigrationResult
<1>3. succeeded' \in Nat /\ failed' \in Nat /\ succeeded' + failed' = succeeded + failed + 1
  BY <1>1, <1>2
<1>4. m = succeeded + failed + 1 /\ InOrder(migrationHistory, succeeded + failed)
  BY Zenon DEF IInv, ResultInv
<1>5. e \in Results
  BY <1>1, Zenon DEF Results
<1>6. e.by = m /\ e.id = m /\ e.progress \in {0, m}
  BY DEF IInv, ResultInv
<1>7. migrationHistory' = Newest(Append(migrationHistory, e), maxHistoryEntries)
  BY DEF Settles, setMigrationResult
<1> HIDE DEF e
<1>8. succeeded + failed \in Nat
  BY <1>1
<1>9. /\ migrationHistory' \in Seq(Results) /\ Len(migrationHistory') <= maxHistoryEntries
      /\ InOrder(migrationHistory', succeeded + failed + 1)
  BY <1>1, <1>4, <1>5, <1>6, <1>7, <1>8, Filed, Zenon
<1> QED BY <1>3, <1>4, <1>9, Zenon

\* handleMigrate takes the slot for the next migration, of which nothing is known yet.
LEMMA MigrateStep ==
  ASSUME IInv, NEW m \in Migrations, handleMigrate(m), UNCHANGED <<tallyVars, loadVars, logPage, pingPage>>
  PROVE  TypeOK' /\ WorkInv' /\ ResultInv' /\ LogInv'
<1>1. /\ migrationID \in Nat /\ m \in Nat /\ m = migrationID + 1 /\ migrationID' = m
      /\ migrationLogSeq \in Nat /\ m \in 0 .. MaxMigrations
  <2>1. MaxMigrations \in Nat /\ m \in Nat /\ m \in 0 .. MaxMigrations
    BY DashboardAssumption DEF Migrations
  <2>2. migrationID \in Nat /\ migrationLogSeq \in Nat
    BY <2>1 DEF IInv, TypeOK
  <2> QED BY <2>1, <2>2 DEF handleMigrate
<1>2. /\ wk \in [Migrations -> Goroutines] /\ wk' \in [Migrations -> Goroutines]
      /\ wk'[m].pc = "submit" /\ \A k \in Migrations : k # m => wk'[k] = wk[k]
  BY Zenon DEF IInv, TypeOK, Goroutines, handleMigrate
<1>3. ~isMigrating /\ isMigrating' = TRUE /\ cancel' = "armed"
  BY DEF handleMigrate
<1>4. migrationOutput' = <<>> /\ migrationLogSeq' = migrationLogSeq + 1 /\ latestProgress' = 0
  BY DEF handleMigrate
<1>5. TypeOK'
  <2>1. lastLogSeq' \in 0 .. migrationLogSeq' /\ activeLogMigrationID' \in 0 .. migrationID'
    BY <1>1, <1>4 DEF IInv, TypeOK, logPage
  <2>2. migrationOutput' \in Seq(Tagged(MaxMigrations)) /\ Len(migrationOutput') <= maxLogLines
    BY <1>4, DashboardAssumption
  <2>3. latestProgress' \in 0 .. MaxMigrations /\ migrationLogSeq' \in Nat
    BY <1>4, <1>1, DashboardAssumption
  <2> QED BY <1>1, <1>2, <1>3, <2>1, <2>2, <2>3, Zenon DEF IInv, TypeOK, tallyVars, loadVars, logPage, pingPage
<1>6. WorkInv'
  <2>1. \A k \in Migrations :
          /\ k < m => wk'[k].pc = "done"
          /\ k > m => wk'[k].pc = "none"
    <3> TAKE k \in Migrations
    <3>1. k \in Nat
      BY DEF Migrations
    <3>2. k < m => k < migrationID \/ k = migrationID
      BY <1>1, <3>1
    <3>3. k > m => k > migrationID
      BY <1>1, <3>1
    <3>4. k < m \/ k > m => wk'[k] = wk[k]
      BY <1>1, <1>2, <3>1
    <3> QED BY <1>3, <3>2, <3>3, <3>4, Zenon DEF IInv, WorkInv
  <2>2. m # 0
    BY <1>1
  <2> QED BY <1>1, <1>2, <1>3, <2>1, <2>2, Zenon DEF WorkInv
<1>7. ResultInv'
  <2>1. ~Unsettled /\ Unsettled'
    BY <1>1, <1>2, <1>3, Zenon DEF Unsettled
  <2>2. migrationID = succeeded + failed + 0 /\ InOrder(migrationHistory, succeeded + failed)
    BY <2>1 DEF IInv, ResultInv
  <2>3. succeeded \in Nat /\ failed \in Nat /\ UNCHANGED <<succeeded, failed, migrationHistory>>
    BY DEF IInv, TypeOK, tallyVars
  <2>4. migrationID' = succeeded' + failed' + 1 /\ InOrder(migrationHistory', succeeded' + failed')
    BY <1>1, <2>2, <2>3
  <2> QED BY <1>4, <2>1, <2>4, Zenon DEF ResultInv
<1>8. LogInv'
  <2>1. Numbered(<<>>, migrationLogSeq', migrationID') /\ Len(<<>>) <= migrationLogSeq + 1
    BY <1>1 DEF Numbered
  <2> QED BY <1>4, <2>1 DEF IInv, LogInv, logPage
<1> QED BY <1>5, <1>6, <1>7, <1>8, Zenon

\* A step of the goroutine, as the lemmas above describe it.
LEMMA OrchestratorStep ==
  ASSUME IInv, NEW m \in Migrations, runOrchestrator(m), UNCHANGED <<loadVars, logPage, pingPage>>
  PROVE  TypeOK' /\ WorkInv' /\ ResultInv' /\ LogInv'
<1>1. TypeOK /\ WorkInv /\ ResultInv /\ LogInv
  BY DEF IInv
<1>2. /\ m = migrationID /\ isMigrating /\ migrationID' = migrationID
      /\ migrationLogSeq' \in {migrationLogSeq, migrationLogSeq + 1}
      /\ migrationOutput' \in Seq(Tagged(MaxMigrations))
      /\ Len(migrationOutput') <= maxLogLines
      /\ Len(migrationOutput') <= migrationLogSeq'
      /\ Numbered(migrationOutput', migrationLogSeq', migrationID')
  BY <1>1, OrchestratorLog
<1>3. /\ wk' \in [Migrations -> Goroutines]
      /\ \A k \in Migrations : k # m => wk'[k] = wk[k]
      /\ wk'[m].pc # "none"
      /\ \/ wk'[m].pc = "done" /\ isMigrating' = FALSE /\ cancel' = "nil"
         \/ wk'[m].pc # "done" /\ isMigrating' = isMigrating /\ cancel' = cancel
      /\ latestProgress' \in {latestProgress, m}
  BY <1>1, OrchestratorWork, Zenon
<1>4. /\ succeeded' \in Nat /\ failed' \in Nat
      /\ migrationID' = succeeded' + failed' + (IF Unsettled' THEN 1 ELSE 0)
      /\ migrationHistory' \in Seq(Results) /\ Len(migrationHistory') <= maxHistoryEntries
      /\ InOrder(migrationHistory', succeeded' + failed')
  <2>1. CASE Settles(m) /\ Unsettled /\ ~Unsettled'
    <3>1. /\ succeeded' \in Nat /\ failed' \in Nat /\ succeeded' + failed' = m
          /\ migrationHistory' \in Seq(Results) /\ Len(migrationHistory') <= maxHistoryEntries
          /\ InOrder(migrationHistory', succeeded' + failed')
      BY <1>2, <2>1, SettlesEffect, Zenon
    <3>2. migrationID' = succeeded' + failed' + 0
      BY <1>2, <3>1
    <3> QED BY <2>1, <3>1, <3>2, Zenon
  <2>2. CASE UNCHANGED tallyVars /\ (Unsettled' <=> Unsettled)
    BY <1>1, <1>2, <2>2, Zenon DEF tallyVars, TypeOK, ResultInv
  <2> QED BY <1>1, <2>1, <2>2, OrchestratorResult, Zenon
<1>5. TypeOK'
  <2>1. migrationLogSeq' \in Nat /\ lastLogSeq' \in 0 .. migrationLogSeq'
    BY <1>1, <1>2 DEF TypeOK, logPage
  <2>2. latestProgress' \in 0 .. MaxMigrations /\ m \in 0 .. MaxMigrations
    <3>1. latestProgress \in 0 .. MaxMigrations /\ MaxMigrations \in Nat
      BY <1>1, DashboardAssumption DEF TypeOK
    <3>2. m \in 0 .. MaxMigrations
      BY <3>1 DEF Migrations
    <3> QED BY <1>3, <3>1, <3>2, Zenon
  <2>3. isMigrating' \in BOOLEAN /\ cancel' \in {"nil", "armed", "called"}
    BY <1>1, <1>3, Zenon DEF TypeOK
  <2> QED BY <1>1, <1>2, <1>3, <1>4, <2>1, <2>2, <2>3, Zenon DEF TypeOK, loadVars, logPage, pingPage
<1>6. WorkInv'
  <2>1. m \in Nat
    BY DEF Migrations
  <2>2. \A k \in Migrations : (k < m => k # m) /\ (k > m => k # m)
    BY <2>1, SMTT(30) DEF Migrations
  <2>3. \A k \in Migrations :
          /\ k < migrationID' => wk'[k].pc = "done"
          /\ k > migrationID' => wk'[k].pc = "none"
    BY <1>1, <1>2, <1>3, <2>2, Zenon DEF WorkInv
  <2>4. wk'[m].pc # "none" /\ (isMigrating' <=> wk'[m].pc # "done") /\ (isMigrating' <=> cancel' # "nil")
    BY <1>1, <1>2, <1>3, Zenon DEF WorkInv
  <2>5. m # 0
    BY DEF Migrations
  <2> QED BY <1>2, <2>3, <2>4, <2>5, Zenon DEF WorkInv
<1>7. ResultInv'
  <2>1. latestProgress' \in {0, migrationID'}
    BY <1>1, <1>2, <1>3, Zenon DEF ResultInv
  <2> QED BY <1>4, <2>1, Zenon DEF ResultInv
<1>8. LogInv'
  BY <1>1, <1>2, Zenon DEF LogInv, logPage
<1> QED BY <1>5, <1>6, <1>7, <1>8, Zenon

\* Any step of a migration: starting one, asking it to stop, running it.
LEMMA MigrationsStep ==
  ASSUME IInv, MigrationStep
  PROVE  IInv'
<1>1. UNCHANGED <<loadVars, logPage, pingPage>>
  BY Zenon DEF MigrationStep
<1>2. LoadInv' /\ PingInv'
  BY <1>1 DEF IInv, LoadInv, PingInv, loadVars, pingPage
<1>3. CASE \E m \in Migrations : handleMigrate(m) /\ UNCHANGED tallyVars
  BY <1>1, <1>2, <1>3, MigrateStep, Zenon DEF IInv
<1>4. CASE handleMigrateStop
  <2>1. cancel = "armed" /\ cancel' = "called"
    BY <1>4 DEF handleMigrateStop
  <2>2. UNCHANGED <<isMigrating, migrationID, logVars, latestProgress, tallyVars, wk>>
    BY <1>4, Zenon DEF handleMigrateStop
  <2>3. TypeOK'
    BY <1>1, <2>1, <2>2, Zenon DEF IInv, TypeOK, logVars, tallyVars, loadVars, logPage, pingPage
  <2>4. WorkInv'
    BY <2>1, <2>2, Zenon DEF IInv, WorkInv
  <2>5. ResultInv'
    BY <2>2, Zenon DEF IInv, ResultInv, Unsettled, tallyVars
  <2>6. LogInv'
    BY <1>1, <2>2, Zenon DEF IInv, LogInv, logVars, logPage
  <2> QED BY <1>2, <2>3, <2>4, <2>5, <2>6, Zenon DEF IInv
<1>5. CASE \E m \in Migrations : runOrchestrator(m)
  BY <1>1, <1>2, <1>5, OrchestratorStep, Zenon DEF IInv
<1> QED BY <1>3, <1>4, <1>5, Zenon DEF MigrationStep

-----------------------------------------------------------------------------
(* Load generators.                                                        *)

\* A buffer of at most m lines, the last of which has number q, moves on when a line is added.
LEMMA BufferMoves ==
  ASSUME NEW m \in Nat \ {0}, NEW q \in Nat, NEW a \in Nat, a <= q,
         NEW b, b = IF a + 1 > m THEN m ELSE a + 1
  PROVE  /\ b <= m /\ b <= q + 1 /\ q - a <= (q + 1) - b
         /\ \A c \in Nat : c >= (q + 1) - b => c >= q - a
BY SMTT(30)

\* A sample of the current load generator extends the run of its samples, and a page that
\* is behind the buffer stays behind it.
LEMMA AddPingEffect ==
  ASSUME TypeOK, PingInv, NEW g \in Loads, g = loadgen, addPing(g), UNCHANGED <<loadgen, pingPage>>
  PROVE  /\ pingSeq' \in Nat /\ pingSeq' = pingSeq + 1
         /\ pingLog' \in Seq(Tagged(MaxLoads)) /\ Len(pingLog') <= maxPingLines
         /\ PingInv'
<1> DEFINE t == Append(pingLog, [of |-> g, seq |-> pingSeq + 1])
<1>1. MaxLoads \in Nat /\ g \in 0 .. MaxLoads /\ maxPingLines \in Nat \ {0}
  BY DashboardAssumption DEF Loads
<1>2. pingSeq \in Nat /\ pingLog \in Seq(Tagged(MaxLoads)) /\ lastPingSeq \in Nat
  BY DEF TypeOK
<1>3. Numbered(pingLog, pingSeq, g) /\ Len(pingLog) <= pingSeq
  BY Zenon DEF PingInv
<1>4. t \in Seq(Tagged(MaxLoads)) /\ Len(t) = Len(pingLog) + 1 /\ Numbered(t, pingSeq + 1, g)
  BY <1>1, <1>2, <1>3, NumberedAppend
<1>5. pingSeq' = pingSeq + 1 /\ pingLog' = Newest(t, maxPingLines)
  BY Zenon DEF addPing
<1> HIDE DEF t
<1>6. pingLog' \in Seq(Tagged(MaxLoads))
      /\ Len(pingLog') = IF Len(t) > maxPingLines THEN maxPingLines ELSE Len(t)
  BY <1>1, <1>4, <1>5, NewestIs, Zenon
<1>7. Len(pingLog) \in Nat
  BY <1>2, LenProperties, Zenon
<1>8. Numbered(pingLog', pingSeq', g)
  <2>1. pingSeq + 1 \in Nat
    BY <1>2
  <2> QED BY <1>1, <1>4, <1>5, <2>1, NumberedNewest, Zenon
<1>9. /\ Len(pingLog') <= maxPingLines /\ Len(pingLog') <= pingSeq'
      /\ pingSeq - Len(pingLog) <= pingSeq' - Len(pingLog')
      /\ \A c \in Nat : c >= pingSeq' - Len(pingLog') => c >= pingSeq - Len(pingLog)
  <2>1. Len(pingLog') = IF Len(pingLog) + 1 > maxPingLines THEN maxPingLines ELSE Len(pingLog) + 1
    BY <1>4, <1>6, Zenon
  <2>2. PICK m, q, a, b : m = maxPingLines /\ q = pingSeq /\ a = Len(pingLog) /\ b = Len(pingLog')
    BY Zenon
  <2>3. /\ m \in Nat \ {0} /\ q \in Nat /\ a \in Nat /\ a <= q
        /\ b = IF a + 1 > m THEN m ELSE a + 1
    BY <1>1, <1>2, <1>3, <1>7, <2>1, <2>2, Zenon
  <2>4. /\ b <= m /\ b <= q + 1 /\ q - a <= (q + 1) - b
        /\ \A c \in Nat : c >= (q + 1) - b => c >= q - a
    BY <2>3, BufferMoves, Zenon
  <2>5. pingSeq' = q + 1 /\ pingSeq = q
    BY <1>5, <2>2, Zenon
  <2>6. /\ Len(pingLog') <= maxPingLines /\ Len(pingLog') <= pingSeq'
        /\ pingSeq - Len(pingLog) <= pingSeq' - Len(pingLog')
    BY <2>2, <2>4, <2>5, Zenon
  <2>7. ASSUME NEW c \in Nat, c >= pingSeq' - Len(pingLog') PROVE c >= pingSeq - Len(pingLog)
    <3>1. c >= (q + 1) - b
      BY <2>2, <2>5, <2>7, Zenon
    <3>2. c >= q - a
      BY <2>4, <3>1, Zenon
    <3> QED BY <2>2, <3>2, Zenon
  <2> QED BY <2>6, <2>7, Zenon
<1>10. lastPingSeq >= pingSeq' - Len(pingLog') => lastPingSeq >= pingSeq - Len(pingLog)
  BY <1>2, <1>9, Zenon
<1>11. UNCHANGED <<pingSamples, lastPingSeq, loadgen>>
  BY Zenon DEF pingPage
<1>12. PingInv'
  BY <1>8, <1>9, <1>10, <1>11, Zenon DEF PingInv
<1> QED BY <1>2, <1>5, <1>6, <1>9, <1>12

\* Starting a load generator, sampling, ending and freeing the slot.
LEMMA LoadsStep ==
  ASSUME IInv, LoadStep
  PROVE  IInv'
<1>1. UNCHANGED <<migVars, logPage, pingPage>>
  BY DEF LoadStep
<1>2. /\ UNCHANGED <<isMigrating, migrationID, cancel, migrationOutput, migrationLogSeq>>
      /\ UNCHANGED <<latestProgress, succeeded, failed, migrationHistory, wk>>
      /\ UNCHANGED <<logsDiv, lastLogSeq, activeLogMigrationID, pingSamples, lastPingSeq>>
  BY <1>1 DEF migVars, logVars, tallyVars, logPage, pingPage
<1>3. WorkInv' /\ ResultInv' /\ LogInv'
  <2>1. WorkInv'
    BY <1>2, Zenon DEF IInv, WorkInv
  <2>2. ResultInv'
    BY <1>2, Zenon DEF IInv, ResultInv, Unsettled
  <2>3. LogInv'
    BY <1>2 DEF IInv, LogInv
  <2> QED BY <2>1, <2>2, <2>3, Zenon
<1>4. TypeOK /\ LoadInv /\ PingInv
  BY Zenon DEF IInv
<1>5. ASSUME /\ loadgenRunning' \in BOOLEAN /\ loadgen' \in 0 .. MaxLoads
             /\ loadgenCancel' \in {"nil", "armed", "called"}
             /\ pingLog' \in Seq(Tagged(MaxLoads)) /\ Len(pingLog') <= maxPingLines
             /\ pingSeq' \in Nat /\ lastPingSeq \in 0 .. pingSeq'
             /\ lg' \in [Loads -> {"none", "ping", "http", "ended"}]
      PROVE  TypeOK'
  BY <1>2, <1>4, <1>5, Zenon DEF TypeOK
<1>6. ASSUME NEW g \in Loads, NEW kind \in {"ping", "http"}, tryStartLoadgen(g, kind)
      PROVE  IInv'
  <2>1. /\ ~loadgenRunning /\ loadgenRunning' = TRUE /\ loadgenCancel' = "armed"
        /\ loadgen' = g /\ pingLog' = <<>> /\ pingSeq' = pingSeq + 1
        /\ lg' = [lg EXCEPT ![g] = kind]
    BY <1>6, Zenon DEF tryStartLoadgen
  <2>2. g \in 0 .. MaxLoads /\ g # 0
    BY DashboardAssumption DEF Loads
  <2>3. pingSeq \in Nat /\ lastPingSeq \in 0 .. pingSeq
    BY <1>4, Zenon DEF TypeOK
  <2>4. TypeOK'
    <3>1. pingSeq' \in Nat /\ lastPingSeq \in 0 .. pingSeq'
      BY <2>1, <2>3
    <3>2. pingLog' \in Seq(Tagged(MaxLoads)) /\ Len(pingLog') <= maxPingLines
      BY <2>1, DashboardAssumption
    <3>3. lg' \in [Loads -> {"none", "ping", "http", "ended"}]
      BY <1>4, <2>1, Zenon DEF TypeOK
    <3> QED BY <1>5, <2>1, <2>2, <3>1, <3>2, <3>3, Zenon
  <2>5. LoadInv'
    <3>1. lg \in [Loads -> {"none", "ping", "http", "ended"}]
      BY <1>4, Zenon DEF TypeOK
    <3>2. \A k \in Loads : lg'[k] = IF k = g THEN kind ELSE lg[k]
      BY <2>1, <3>1, Zenon
    <3>3. \A k \in Loads : lg[k] = "none"
      BY <1>4, <2>1, Zenon DEF LoadInv
    <3>4. \A k \in Loads : lg'[k] # "none" <=> k = loadgen' /\ loadgenRunning'
      BY <2>1, <3>2, <3>3, Zenon
    <3> QED BY <2>1, <2>2, <3>4, Zenon DEF LoadInv
  <2>6. PingInv'
    <3>1. Numbered(<<>>, pingSeq', loadgen') /\ Len(<<>>) <= pingSeq + 1
      BY <2>3 DEF Numbered
    <3>2. ~(lastPingSeq >= pingSeq' - Len(pingLog'))
      BY <2>1, <2>3
    <3> QED BY <1>2, <1>4, <2>1, <3>1, <3>2, Zenon DEF PingInv
  <2> QED BY <1>3, <2>4, <2>5, <2>6, Zenon DEF IInv
<1>7. ASSUME NEW g \in Loads, lg[g] # "none" PROVE g = loadgen /\ loadgenRunning
  BY <1>4, <1>7, Zenon DEF LoadInv
<1>8. ASSUME NEW g \in Loads, lg[g] # "none", addPing(g), UNCHANGED loadgen
      PROVE  /\ pingSeq' \in Nat /\ lastPingSeq \in 0 .. pingSeq'
             /\ pingLog' \in Seq(Tagged(MaxLoads)) /\ Len(pingLog') <= maxPingLines
             /\ PingInv'
  <2>1. /\ pingSeq' \in Nat /\ pingSeq' = pingSeq + 1
        /\ pingLog' \in Seq(Tagged(MaxLoads)) /\ Len(pingLog') <= maxPingLines
        /\ PingInv'
    BY <1>1, <1>4, <1>7, <1>8, AddPingEffect, Zenon
  <2>2. pingSeq \in Nat /\ lastPingSeq \in 0 .. pingSeq
    BY <1>4, Zenon DEF TypeOK
  <2>3. lastPingSeq \in 0 .. pingSeq'
    BY <2>1, <2>2, SMTT(30)
  <2> QED BY <2>1, <2>3, Zenon
<1>9. ASSUME UNCHANGED <<pingLog, pingSeq, loadgen>>
      PROVE  /\ pingSeq' \in Nat /\ lastPingSeq \in 0 .. pingSeq'
             /\ pingLog' \in Seq(Tagged(MaxLoads)) /\ Len(pingLog') <= maxPingLines
             /\ PingInv'
  BY <1>2, <1>4, <1>9, Zenon DEF TypeOK, PingInv
<1>10. ASSUME NEW g \in Loads, Samples(g) PROVE IInv'
  <2>1. /\ lg[g] # "none" /\ addPing(g)
        /\ UNCHANGED <<loadgenRunning, loadgen, loadgenCancel, lg>>
    BY <1>10, Zenon DEF Samples
  <2>2. LoadInv'
    BY <1>4, <2>1, Zenon DEF LoadInv
  <2>3. TypeOK' /\ PingInv'
    BY <1>4, <1>5, <1>8, <2>1, Zenon DEF TypeOK
  <2> QED BY <1>3, <2>2, <2>3, Zenon DEF IInv
<1>11. ASSUME NEW g \in Loads, lg[g] \in {"ping", "http"}, Ends(g),
              addPing(g) \/ UNCHANGED <<pingLog, pingSeq>>
       PROVE  IInv'
  <2>1. /\ lg' = [lg EXCEPT ![g] = "ended"] /\ UNCHANGED <<loadgenRunning, loadgen, loadgenCancel>>
    BY <1>11, Zenon DEF Ends
  <2>2. lg \in [Loads -> {"none", "ping", "http", "ended"}]
    BY <1>4, Zenon DEF TypeOK
  <2>3. \A k \in Loads : lg'[k] # "none" <=> lg[k] # "none"
    BY <1>11, <2>1, <2>2, Zenon
  <2>4. LoadInv'
    BY <1>4, <2>1, <2>3, Zenon DEF LoadInv
  <2>5. /\ pingSeq' \in Nat /\ lastPingSeq \in 0 .. pingSeq'
        /\ pingLog' \in Seq(Tagged(MaxLoads)) /\ Len(pingLog') <= maxPingLines
        /\ PingInv'
    BY <1>8, <1>9, <1>11, <2>1, Zenon
  <2>6. TypeOK'
    BY <1>4, <1>5, <2>1, <2>2, <2>5, ZenonT(40) DEF TypeOK
  <2> QED BY <1>3, <2>4, <2>5, <2>6, Zenon DEF IInv
<1>12. ASSUME NEW g \in Loads, resetLoadgen(g) PROVE IInv'
  <2>1. /\ lg[g] = "ended" /\ lg' = [lg EXCEPT ![g] = "none"]
        /\ loadgenRunning' = FALSE /\ loadgenCancel' = "nil"
        /\ UNCHANGED <<loadgen, pingLog, pingSeq>>
    BY <1>12, Zenon DEF resetLoadgen
  <2>2. lg \in [Loads -> {"none", "ping", "http", "ended"}]
    BY <1>4 DEF TypeOK
  <2>3. \A k \in Loads : lg'[k] = "none"
    BY <1>4, <1>7, <2>1, <2>2, Zenon DEF LoadInv
  <2>4. LoadInv'
    BY <2>1, <2>3, Zenon DEF LoadInv
  <2>5. TypeOK' /\ PingInv'
    BY <1>4, <1>5, <1>9, <2>1, <2>2, Zenon DEF TypeOK
  <2> QED BY <1>3, <2>4, <2>5 DEF IInv
<1>13. CASE handleLoadgenStop
  <2>1. /\ loadgenCancel = "armed" /\ loadgenCancel' = "called"
        /\ UNCHANGED <<loadgenRunning, loadgen, pingLog, pingSeq, lg>>
    BY <1>13 DEF handleLoadgenStop, stopLoadgen
  <2>2. LoadInv'
    BY <1>4, <2>1 DEF LoadInv
  <2>3. TypeOK' /\ PingInv'
    BY <1>4, <1>5, <1>9, <2>1, Zenon DEF TypeOK
  <2> QED BY <1>3, <2>2, <2>3, Zenon DEF IInv
<1> QED BY <1>6, <1>10, <1>11, <1>12, <1>13, Zenon DEF LoadStep, PingEnds, HTTPEnds

-----------------------------------------------------------------------------
(* The page.                                                               *)

\* An answer with the delta of a cursor, appended to what the page has up to the cursor.
LEMMA Continued ==
  ASSUME NEW S, NEW shown \in Seq(S), NEW buf \in Seq(S), NEW seq \in Nat, NEW of, NEW after \in 0 .. seq,
         Numbered(buf, seq, of), Len(buf) <= seq,
         Numbered(shown, after, of), Len(shown) <= after, ~Delta(buf, seq, after).reset
  PROVE  LET u == shown \o Delta(buf, seq, after).items
         IN  u \in Seq(S) /\ Numbered(u, seq, of) /\ Len(u) <= seq
<1>1. PICK items : items = Delta(buf, seq, after).items
  BY Zenon
<1>2. /\ items \in Seq(S) /\ Len(items) <= Len(buf) /\ Numbered(items, seq, of)
      /\ after # 0 => Len(items) = seq - after
  BY <1>1, DeltaIs, Zenon
<1>3. Len(shown) \in Nat /\ Len(items) \in Nat /\ Len(buf) \in Nat
  BY <1>2, LenProperties, Zenon
<1>4. shown \o items \in Seq(S) /\ Len(shown \o items) = Len(shown) + Len(items)
  BY <1>2, ConcatProperties
<1>5. CASE after = 0
  <2>1. shown = <<>>
    BY <1>3, <1>5, EmptySeq
  <2>2. shown \o items = items
    BY <1>2, <2>1, ConcatEmptySeq, Zenon
  <2>3. Len(items) <= seq
    BY <1>2, <1>3
  <2> QED BY <1>1, <1>2, <2>2, <2>3, Zenon
<1>6. CASE after # 0
  <2>1. after \in Nat /\ after + Len(items) = seq /\ Len(shown) + Len(items) <= seq
    BY <1>2, <1>3, <1>6
  <2>2. Numbered(items, after + Len(items), of)
    BY <1>2, <2>1, Zenon
  <2>3. Numbered(shown \o items, after + Len(items), of)
    BY <1>2, <2>1, <2>2, NumberedConcat, Zenon
  <2> QED BY <1>1, <1>4, <2>1, <2>3, Zenon
<1> QED BY <1>5, <1>6, Zenon

\* The page clears its lines when the server says so or a migration is new to it, and
\* else goes on with those of the migration it shows.
LEMMA ShowLogsStep ==
  ASSUME IInv, ShowLogs, UNCHANGED <<migVars, loadVars, pingPage>>
  PROVE  IInv'
<1> DEFINE d == Delta(migrationOutput, migrationLogSeq, lastLogSeq)
           clear == d.reset \/ (migrationID # 0 /\ migrationID # activeLogMigrationID)
           wipe == clear \/ (d.items # <<>> /\ lastLogSeq = 0)
<1>1. /\ UNCHANGED <<isMigrating, migrationID, cancel, migrationOutput, migrationLogSeq>>
      /\ UNCHANGED <<latestProgress, succeeded, failed, migrationHistory, wk>>
      /\ UNCHANGED <<loadgenRunning, loadgen, loadgenCancel, pingLog, pingSeq, lg>>
      /\ UNCHANGED <<pingSamples, lastPingSeq>>
  BY DEF migVars, logVars, tallyVars, loadVars, pingPage
<1>2. WorkInv' /\ LoadInv' /\ ResultInv' /\ PingInv'
  <2>1. WorkInv' /\ LoadInv'
    BY <1>1, Zenon DEF IInv, WorkInv, LoadInv
  <2>2. ResultInv'
    BY <1>1, Zenon DEF IInv, ResultInv, Unsettled
  <2>3. PingInv'
    BY <1>1, Zenon DEF IInv, PingInv
  <2> QED BY <2>1, <2>2, <2>3, Zenon
<1>3. /\ migrationOutput \in Seq(Tagged(MaxMigrations)) /\ logsDiv \in Seq(Tagged(MaxMigrations))
      /\ migrationLogSeq \in Nat /\ lastLogSeq \in 0 .. migrationLogSeq
      /\ migrationID \in 0 .. MaxMigrations /\ activeLogMigrationID \in 0 .. migrationID
  BY DEF IInv, TypeOK
<1>4. /\ Numbered(migrationOutput, migrationLogSeq, migrationID)
      /\ Len(migrationOutput) <= migrationLogSeq
      /\ Numbered(logsDiv, lastLogSeq, activeLogMigrationID) /\ Len(logsDiv) <= lastLogSeq
  BY Zenon DEF IInv, LogInv
<1>5. /\ d.items \in Seq(Tagged(MaxMigrations)) /\ Len(d.items) <= Len(migrationOutput)
      /\ Numbered(d.items, migrationLogSeq, migrationID)
  BY <1>3, <1>4, DeltaIs, Zenon
<1>6. Len(d.items) <= migrationLogSeq
  <2>1. Len(d.items) \in Nat /\ Len(migrationOutput) \in Nat
    BY <1>3, <1>5, LenProperties, Zenon
  <2> QED BY <1>3, <1>4, <1>5, <2>1, SMTT(30)
<1>7. /\ logsDiv' = (IF wipe THEN <<>> ELSE logsDiv) \o d.items
      /\ activeLogMigrationID' = (IF clear THEN migrationID ELSE activeLogMigrationID)
      /\ lastLogSeq' = migrationLogSeq
  BY DEF ShowLogs, logsDelta
<1>8. ~clear => ~d.reset /\ activeLogMigrationID = migrationID
  BY <1>3
<1>9. clear => wipe
  BY Zenon
<1>10. /\ logsDiv' \in Seq(Tagged(MaxMigrations)) /\ Numbered(logsDiv', migrationLogSeq, migrationID)
       /\ Len(logsDiv') <= migrationLogSeq
  <2>1. CASE wipe
    <3>1. logsDiv' = d.items
      BY <1>5, <1>7, <2>1, ConcatEmptySeq, Zenon
    <3> QED BY <1>5, <1>6, <3>1, Zenon
  <2>2. CASE ~wipe
    <3>1. logsDiv' = logsDiv \o d.items
      BY <1>7, <2>2, Zenon
    <3>2. ~d.reset /\ Numbered(logsDiv, lastLogSeq, migrationID)
      BY <1>4, <1>8, <1>9, <2>2, Zenon
    <3> QED BY <1>3, <1>4, <3>1, <3>2, Continued, Zenon
  <2> QED BY <2>1, <2>2, Zenon
<1>11. activeLogMigrationID' = migrationID
  BY <1>7, <1>8
<1> HIDE DEF d, clear, wipe
<1>12. LogInv'
  BY <1>1, <1>4, <1>7, <1>10, <1>11, Zenon DEF LogInv
<1>13. TypeOK'
  <2>1. activeLogMigrationID' \in 0 .. migrationID' /\ lastLogSeq' \in 0 .. migrationLogSeq'
    BY <1>1, <1>3, <1>7, <1>11
  <2> QED BY <1>1, <1>10, <2>1, Zenon DEF IInv, TypeOK
<1> QED BY <1>2, <1>12, <1>13, Zenon DEF IInv

\* The clear button takes the lines from the page and leaves its cursor.
LEMMA ClearLogsStep ==
  ASSUME IInv, ClearLogs, UNCHANGED <<migVars, loadVars, pingPage>>
  PROVE  IInv'
<1>1. /\ UNCHANGED <<isMigrating, migrationID, cancel, migrationOutput, migrationLogSeq>>
      /\ UNCHANGED <<latestProgress, succeeded, failed, migrationHistory, wk>>
      /\ UNCHANGED <<loadgenRunning, loadgen, loadgenCancel, pingLog, pingSeq, lg>>
      /\ UNCHANGED <<pingSamples, lastPingSeq, lastLogSeq, activeLogMigrationID>>
      /\ logsDiv' = <<>>
  BY Zenon DEF ClearLogs, migVars, logVars, tallyVars, loadVars, pingPage
<1>2. WorkInv' /\ LoadInv'
  BY <1>1, Zenon DEF IInv, WorkInv, LoadInv
<1>3. ResultInv'
  BY <1>1, Zenon DEF IInv, ResultInv, Unsettled
<1>4. PingInv'
  BY <1>1, Zenon DEF IInv, PingInv
<1>5. LogInv'
  <2>1. lastLogSeq \in Nat
    BY DEF IInv, TypeOK
  <2>2. Numbered(<<>>, lastLogSeq, activeLogMigrationID) /\ Len(<<>>) <= lastLogSeq
    BY <2>1 DEF Numbered
  <2> QED BY <1>1, <2>2, Zenon DEF IInv, LogInv
<1>6. TypeOK'
  <2>1. <<>> \in Seq(Tagged(MaxMigrations))
    BY EmptySeq, Zenon
  <2> QED BY <1>1, <2>1, Zenon DEF IInv, TypeOK
<1> QED BY <1>2, <1>3, <1>4, <1>5, <1>6, Zenon DEF IInv

\* The page goes on with the samples of a load generator while the buffer covers its
\* cursor; a cursor the buffer does not cover is answered with a reset.
LEMMA ShowPingsStep ==
  ASSUME IInv, ShowPings, UNCHANGED <<migVars, loadVars, logPage>>
  PROVE  IInv'
<1> DEFINE d == Delta(pingLog, pingSeq, lastPingSeq)
           u == (IF d.reset THEN <<>> ELSE pingSamples) \o d.items
<1>1. /\ UNCHANGED <<isMigrating, migrationID, cancel, migrationOutput, migrationLogSeq>>
      /\ UNCHANGED <<latestProgress, succeeded, failed, migrationHistory, wk>>
      /\ UNCHANGED <<loadgenRunning, loadgen, loadgenCancel, pingLog, pingSeq, lg>>
      /\ UNCHANGED <<logsDiv, lastLogSeq, activeLogMigrationID>>
  BY SMTT(30) DEF migVars, logVars, tallyVars, loadVars, logPage
<1>2. WorkInv' /\ LoadInv' /\ ResultInv' /\ LogInv'
  <2>1. WorkInv' /\ LoadInv'
    BY <1>1, SMTT(30) DEF IInv, WorkInv, LoadInv
  <2>2. ResultInv'
    BY <1>1, Zenon DEF IInv, ResultInv, Unsettled
  <2>3. LogInv'
    BY <1>1, Zenon DEF IInv, LogInv
  <2> QED BY <2>1, <2>2, <2>3, Zenon
<1>3. /\ pingLog \in Seq(Tagged(MaxLoads)) /\ pingSamples \in Seq(Tagged(MaxLoads))
      /\ pingSeq \in Nat /\ lastPingSeq \in 0 .. pingSeq /\ maxPageSamples \in Nat \ {0}
      /\ Len(pingLog) \in Nat /\ Len(pingSamples) \in Nat
  BY DashboardAssumption, LenProperties, Zenon DEF IInv, TypeOK
<1>4. /\ Numbered(pingLog, pingSeq, loadgen) /\ Len(pingLog) <= pingSeq
      /\ pingSamples # <<>> => Numbered(pingSamples, lastPingSeq, pingSamples[Len(pingSamples)].of)
      /\ Len(pingSamples) <= lastPingSeq
      /\ pingSamples # <<>> /\ lastPingSeq >= pingSeq - Len(pingLog) => pingSamples[Len(pingSamples)].of = loadgen
  BY Zenon DEF IInv, PingInv
<1>5. /\ d.items \in Seq(Tagged(MaxLoads)) /\ Len(d.items) <= Len(pingLog)
      /\ Numbered(d.items, pingSeq, loadgen)
      /\ d.reset <=> lastPingSeq # 0 /\ lastPingSeq < pingSeq - Len(pingLog)
  BY <1>3, <1>4, DeltaIs, Zenon
<1>6. pingSamples' = Newest(u, maxPageSamples) /\ lastPingSeq' = pingSeq
  BY DEF ShowPings, pingsDelta
<1>7. u \in Seq(Tagged(MaxLoads)) /\ Numbered(u, pingSeq, loadgen) /\ Len(u) <= pingSeq
  <2>1. CASE d.reset
    <3>1. u = d.items
      BY <1>5, <2>1, ConcatEmptySeq, Zenon
    <3>2. Len(d.items) \in Nat
      BY <1>5, LenProperties, Zenon
    <3>3. Len(d.items) <= pingSeq
      BY <1>3, <1>4, <1>5, <3>2, SMTT(30)
    <3> QED BY <1>5, <3>1, <3>3, Zenon
  <2>2. CASE ~d.reset
    <3>1. u = pingSamples \o d.items
      BY <2>2, Zenon
    <3>2. Numbered(pingSamples, lastPingSeq, loadgen)
      <4>1. CASE pingSamples = <<>>
        BY <4>1 DEF Numbered
      <4>2. CASE pingSamples # <<>>
        <5>1. lastPingSeq # 0
          BY <1>3, <1>4, <4>2, EmptySeq, SMTT(30)
        <5>2. lastPingSeq >= pingSeq - Len(pingLog)
          BY <1>3, <1>5, <2>2, <5>1, SMTT(30)
        <5> QED BY <1>4, <4>2, <5>2, Zenon
      <4> QED BY <4>1, <4>2, Zenon
    <3> QED BY <1>3, <1>4, <2>2, <3>1, <3>2, Continued, Zenon
  <2> QED BY <2>1, <2>2, Zenon
<1> HIDE DEF d, u
<1>8. /\ pingSamples' \in Seq(Tagged(MaxLoads)) /\ Numbered(pingSamples', pingSeq, loadgen)
      /\ Len(pingSamples') = IF Len(u) > maxPageSamples THEN maxPageSamples ELSE Len(u)
  BY <1>3, <1>6, <1>7, NewestIs, NumberedNewest, Zenon
<1>9. Len(pingSamples') <= maxPageSamples /\ Len(pingSamples') <= pingSeq
  <2>1. Len(u) \in Nat
    BY <1>7, LenProperties, Zenon
  <2> QED BY <1>3, <1>7, <1>8, <2>1
<1>10. pingSamples' # <<>> => pingSamples'[Len(pingSamples')].of = loadgen
  <2> SUFFICES ASSUME pingSamples' # <<>> PROVE pingSamples'[Len(pingSamples')].of = loadgen
    BY Zenon
  <2> QED BY <1>3, <1>8, NumberedLast, Zenon
<1>11. PingInv'
  BY <1>1, <1>4, <1>6, <1>8, <1>9, <1>10, Zenon DEF PingInv
<1>12. TypeOK'
  <2>1. lastPingSeq' \in 0 .. pingSeq'
    BY <1>1, <1>3, <1>6
  <2> QED BY <1>1, <1>8, <1>9, <2>1, Zenon DEF IInv, TypeOK
<1> QED BY <1>2, <1>11, <1>12, Zenon DEF IInv

-----------------------------------------------------------------------------
(* The theorems.                                                           *)

LEMMA InitIInv ==
  ASSUME Init
  PROVE  IInv
<1>1. TypeOK
  <2>1. wk \in [Migrations -> Goroutines]
    BY Zenon DEF Init, Idle, Goroutines
  <2>2. lg \in [Loads -> {"none", "ping", "http", "ended"}]
    BY DEF Init
  <2>3. 0 \in 0 .. MaxMigrations /\ 0 \in 0 .. MaxLoads /\ 0 \in 0 .. 0 /\ Len(<<>>) = 0
    BY DashboardAssumption
  <2>4. 0 <= maxLogLines /\ 0 <= maxPingLines /\ 0 <= maxHistoryEntries /\ 0 <= maxPageSamples
    BY DashboardAssumption
  <2>5. /\ migrationOutput \in Seq(Tagged(MaxMigrations)) /\ logsDiv \in Seq(Tagged(MaxMigrations))
        /\ pingLog \in Seq(Tagged(MaxLoads)) /\ pingSamples \in Seq(Tagged(MaxLoads))
        /\ migrationHistory \in Seq(Results)
    BY EmptySeq, Zenon DEF Init
  <2>6. /\ Len(migrationOutput) <= maxLogLines /\ Len(migrationHistory) <= maxHistoryEntries
        /\ Len(pingLog) <= maxPingLines /\ Len(pingSamples) <= maxPageSamples
    BY <2>3, <2>4 DEF Init
  <2>7. /\ isMigrating \in BOOLEAN /\ loadgenRunning \in BOOLEAN
        /\ cancel \in {"nil", "armed", "called"} /\ loadgenCancel \in {"nil", "armed", "called"}
    BY Zenon DEF Init
  <2>8. /\ migrationID \in 0 .. MaxMigrations /\ latestProgress \in 0 .. MaxMigrations
        /\ loadgen \in 0 .. MaxLoads /\ migrationLogSeq \in Nat /\ pingSeq \in Nat
        /\ succeeded \in Nat /\ failed \in Nat /\ lastLogSeq \in 0 .. migrationLogSeq
        /\ activeLogMigrationID \in 0 .. migrationID /\ lastPingSeq \in 0 .. pingSeq
    BY <2>3, Zenon DEF Init
  <2> QED BY <2>1, <2>2, <2>5, <2>6, <2>7, <2>8, Zenon DEF TypeOK
<1>2. WorkInv
  <2>1. \A m \in Migrations : wk[m].pc = "none" /\ ~(m < 0) /\ m # 0
    <3>1. \A m \in Migrations : ~(m < 0) /\ m # 0
      BY DEF Migrations
    <3>2. \A m \in Migrations : wk[m].pc = "none"
      BY Zenon DEF Init, Idle
    <3> QED BY <3>1, <3>2, Zenon
  <2> QED BY <2>1, Zenon DEF Init, WorkInv
<1>3. LoadInv
  BY Zenon DEF Init, LoadInv
<1>4. ResultInv
  BY DEF Init, ResultInv, Unsettled, InOrder
<1>5. LogInv /\ PingInv
  BY DEF Init, LogInv, PingInv, Numbered
<1> QED BY <1>1, <1>2, <1>3, <1>4, <1>5, Zenon DEF IInv

\* IInv holds in every reachable state, whatever the limits of the buffers and however
\* the requests, the goroutines and the page's polls interleave.
THEOREM Inductive == Spec => []IInv
<1>1. Init => IInv
  BY InitIInv, Zenon
<1>2. IInv /\ [Next]_vars => IInv'
  <2> SUFFICES ASSUME IInv, [Next]_vars PROVE IInv'
    OBVIOUS
  <2>1. CASE MigrationStep
    BY <2>1, MigrationsStep
  <2>2. CASE LoadStep
    BY <2>2, LoadsStep, Zenon
  <2>3. CASE (ShowLogs \/ ClearLogs) /\ UNCHANGED <<migVars, loadVars, pingPage>>
    BY <2>3, ShowLogsStep, ClearLogsStep, Zenon
  <2>4. CASE ShowPings /\ UNCHANGED <<migVars, loadVars, logPage>>
    BY <2>4, ShowPingsStep, Zenon
  <2>5. CASE UNCHANGED vars
    <3>1. /\ UNCHANGED <<isMigrating, migrationID, cancel, migrationOutput, migrationLogSeq>>
          /\ UNCHANGED <<latestProgress, succeeded, failed, migrationHistory, wk>>
          /\ UNCHANGED <<loadgenRunning, loadgen, loadgenCancel, pingLog, pingSeq, lg>>
          /\ UNCHANGED <<logsDiv, lastLogSeq, activeLogMigrationID, pingSamples, lastPingSeq>>
      BY <2>5, Zenon DEF vars, migVars, logVars, tallyVars, loadVars, logPage, pingPage
    <3>2. TypeOK'
      BY <3>1, SMTT(30) DEF IInv, TypeOK
    <3>3. WorkInv' /\ LoadInv'
      BY <3>1, ZenonT(40) DEF IInv, WorkInv, LoadInv
    <3>4. ResultInv'
      BY <3>1, Zenon DEF IInv, ResultInv, Unsettled
    <3>5. LogInv' /\ PingInv'
      BY <3>1 DEF IInv, LogInv, PingInv
    <3> QED BY <3>2, <3>3, <3>4, <3>5, Zenon DEF IInv
  <2> QED BY <2>1, <2>2, <2>3, <2>4, <2>5, Zenon DEF Next
<1> QED BY <1>1, <1>2, PTL DEF Spec

\* No buffer of the server or of the page outgrows its limit, the page's cursors never
\* run ahead of the server's numbers, and every variable has its type.
THEOREM DashboardTypes == Spec => []TypeOK
<1>1. IInv => TypeOK
  BY Zenon DEF IInv
<1> QED BY <1>1, Inductive, PTL

\* A result is filed under its own migration, with no other's progress, although
\* setMigrationResult reads the current ones when it runs.
THEOREM ResultsAreOwn == Spec => []HistoryIsOwn
<1>1. IInv => HistoryIsOwn
  <2> SUFFICES ASSUME IInv, NEW h \in Range(migrationHistory)
               PROVE  h.id = h.by /\ h.progress \in {0, h.by}
    BY Zenon DEF HistoryIsOwn
  <2>1. InOrder(migrationHistory, succeeded + failed) /\ migrationHistory \in Seq(Results)
    BY DEF IInv, ResultInv, TypeOK
  <2>2. DOMAIN migrationHistory = 1 .. Len(migrationHistory)
    BY <2>1, LenProperties
  <2>3. PICK i \in 1 .. Len(migrationHistory) : h = migrationHistory[i]
    BY <2>2, Zenon DEF Range
  <2> QED BY <2>1, <2>3, Zenon DEF InOrder
<1> QED BY <1>1, Inductive, PTL

\* Every migration that was started has exactly one result, or is the one that has not
\* settled yet, and the history has the newest in order.
THEOREM EveryMigrationCounts == Spec => []ResultsAddUp
<1>1. IInv => ResultsAddUp
  <2> SUFFICES ASSUME IInv PROVE ResultsAddUp
    OBVIOUS
  <2> DEFINE open == {m \in Migrations : wk[m].pc \notin {"none", "leave", "done"}}
  <2>0. \A i \in 1 .. Len(migrationHistory) :
          migrationHistory[i].by = succeeded + failed - Len(migrationHistory) + i
    <3>1. InOrder(migrationHistory, succeeded + failed)
      BY DEF IInv, ResultInv
    <3> TAKE i \in 1 .. Len(migrationHistory)
    <3>2. succeeded \in Nat /\ failed \in Nat /\ Len(migrationHistory) \in Nat
      BY LenProperties, Zenon DEF IInv, TypeOK
    <3>3. migrationHistory[i].by = (succeeded + failed) - Len(migrationHistory) + i
      BY <3>1, Zenon DEF InOrder
    <3> QED BY <3>2, <3>3
  <2>1. \A m \in open : m = migrationID /\ isMigrating /\ Unsettled
    BY WorkerIsCurrent DEF IInv, Unsettled
  <2>2. CASE Unsettled
    <3>1. migrationID \in open
      <4>1. migrationID \in Migrations
        BY <2>2 DEF IInv, TypeOK, WorkInv, Unsettled, Migrations
      <4> QED BY <2>2, <4>1, Zenon DEF IInv, WorkInv, Unsettled
    <3>2. open = {migrationID}
      BY <2>1, <3>1, Zenon
    <3>3. Cardinality(open) = 1
      BY <3>2, FS_Singleton, Zenon
    <3>4. migrationID = succeeded + failed + 1
      BY <2>2 DEF IInv, ResultInv
    <3> QED BY <2>0, <3>3, <3>4, Zenon DEF ResultsAddUp
  <2>3. CASE ~Unsettled
    <3>1. open = {}
      BY <2>1, <2>3, Zenon
    <3>2. Cardinality(open) = 0
      BY <3>1, FS_EmptySet, Zenon
    <3>4. migrationID = succeeded + failed + 0
      BY <2>3, Zenon DEF IInv, ResultInv
    <3> QED BY <2>0, <3>2, <3>4, Zenon DEF ResultsAddUp
  <2> QED BY <2>2, <2>3
<1> QED BY <1>1, Inductive, PTL

\* The page shows an unbroken run of one migration's lines, and one of one load
\* generator's samples, each up to its cursor.
THEOREM PageNeverSkips == Spec => []PageIsExact
<1>1. IInv => PageIsExact
  BY Zenon DEF IInv, LogInv, PingInv, PageIsExact
<1> QED BY <1>1, Inductive, PTL

\* A slot is taken exactly while its goroutine is alive, so no second one writes into the
\* same buffers and no request is refused for ever.
THEOREM SlotsFollowGoroutines == Spec => []SlotsHeld
<1>1. IInv => SlotsHeld
  <2> SUFFICES ASSUME IInv PROVE SlotsHeld
    OBVIOUS
  <2>1. isMigrating \in BOOLEAN /\ loadgenRunning \in BOOLEAN
    BY Zenon DEF IInv, TypeOK
  <2>2. isMigrating <=> \E m \in Migrations : wk[m].pc \notin {"none", "done"}
    <3>1. ASSUME isMigrating PROVE migrationID \in Migrations
      BY <3>1 DEF IInv, TypeOK, WorkInv, Migrations
    <3>2. ASSUME isMigrating PROVE wk[migrationID].pc \notin {"none", "done"}
      BY <3>1, <3>2, Zenon DEF IInv, WorkInv
    <3> QED BY <3>1, <3>2, WorkerIsCurrent, Zenon DEF IInv
  <2>3. loadgenRunning <=> \E g \in Loads : lg[g] # "none"
    <3>1. ASSUME loadgenRunning PROVE loadgen \in Loads
      BY <3>1 DEF IInv, TypeOK, LoadInv, Loads
    <3> QED BY <3>1, Zenon DEF IInv, LoadInv
  <2>4. (isMigrating <=> cancel # "nil") /\ (loadgenRunning <=> loadgenCancel # "nil")
    BY DEF IInv, WorkInv, LoadInv
  <2> QED BY <2>1, <2>2, <2>3, <2>4, Zenon DEF SlotsHeld
<1> QED BY <1>1, Inductive, PTL
=============================================================================
