-------------------------- MODULE ReconcilerProofs --------------------------
(***************************************************************************)
(* For any number of goroutines, of Migrations under one name, of runs, of *)
(* restarts and of failed API calls: the controller keeps a Migration to   *)
(* one run, and its succeeded is true, unless the Migration met a          *)
(* goroutine of another of its name.                                       *)
(*                                                                         *)
(* The argument: a Migration is dispatched again only when its key is not  *)
(* tracked while a goroutine of its own lives.  handleDeletion brings that *)
(* about, but the Migration is then being deleted and is listed so from    *)
(* there on; a goroutine that ends brings it about too, and then there     *)
(* were two, of one Migration or of two (MeetInv).                         *)
(***************************************************************************)
EXTENDS Reconciler, TLAPS

(* Goroutines that hold a run of their own, and those in front of a watch  *)
(* channel that is open or was when they asked                             *)
Busy == {"applied", "submitted", "watch", "range", "ended"}
Watching == {"submitted", "watch", "range"}

(* The API server: one Migration of the name, the last created; one that   *)
(* is being deleted has the finalizer.                                     *)
UserInv ==
  /\ cr.uid \in {0, created}
  /\ cr.uid = 0 => cr.phase = "" /\ cr.mid = 0
  /\ cr.deleting => cr.finalizer

(* The item of the List is old, but one listed as being deleted is still   *)
(* there: only this loop takes its finalizer away.                         *)
LoopInv ==
  /\ rpc # "idle" => obj.uid \in 1 .. created
  /\ rpc \in {"untrack", "unfinal"} => obj.deleting
  /\ rpc # "idle" /\ obj.deleting => cr.uid = obj.uid /\ cr.deleting
  /\ obj.phase \in {"submitted", "transferring"} => obj.mid # 0
  /\ obj.uid = 0 => obj.mid = 0

(* The loop may still claim the key for u. *)
Claimable(u) == \/ cr.uid = u /\ ~cr.deleting
                \/ rpc = "item" /\ obj.uid = u /\ ~obj.deleting

(* Who met whom is in shared; a live goroutine's Migration that can be     *)
(* claimed is tracked, and has no second goroutine.                        *)
MeetInv ==
  /\ \A w \in Workers :
       /\ wk[w].uid \in 0 .. created
       /\ cr.uid # 0 /\ wk[w].uid \notin {0, cr.uid} => cr.uid \in shared
       /\ rpc = "item" /\ wk[w].uid \notin {0, obj.uid} => obj.uid \in shared
       /\ wk[w].uid # 0 /\ ~tracked /\ Claimable(wk[w].uid) => wk[w].uid \in shared
  /\ \A v, w \in Workers :
       wk[v].uid = wk[w].uid /\ wk[v].uid # 0 => v = w \/ wk[v].uid \in shared

(* A goroutine between Apply and the end of the watch has a run of its own *)
(* and of its Migration; what recover looks at is of its Migration.        *)
WorkerOK(w) ==
  /\ wk[w].uid = 0 <=> wk[w].pc = "free"
  /\ wk[w].pc \in Busy =>
       wk[w].id \in Ids /\ run[wk[w].id].uid = wk[w].uid
  /\ wk[w].pc \in {"recover", "resume"} =>
       /\ wk[w].id \in Ids
       /\ wk[w].uid \notin shared => run[wk[w].id].uid = wk[w].uid
  /\ wk[w].pc = "applied" => run[wk[w].id].out = ""
  /\ wk[w].pc = "range" /\ IsTerminal(wk[w].last) => run[wk[w].id].out # ""
  /\ wk[w].pc \in {"dispatch", "applied", "submitted", "watch"} => wk[w].last = ""

WorkInv ==
  /\ \A w \in Workers : WorkerOK(w)
  /\ \A v, w \in Workers :
       wk[v].pc \in Busy /\ wk[w].pc \in Busy /\ wk[v].id = wk[w].id => v = w

(* A run in flight has no verdict and a goroutine that will watch it; a    *)
(* verdict of success comes with a destination Job that completed.         *)
RunInv ==
  \A i \in Ids :
    /\ run[i].uid = 0 => run[i].out = "" /\ ~run[i].inflight
    /\ run[i].inflight =>
         /\ run[i].out = ""
         /\ \E w \in Workers : wk[w].pc \in Watching /\ wk[w].id = i
    /\ run[i].dst = "complete" => run[i].handover
    /\ run[i].out = "succeeded" => run[i].handover

(* The ids in the status, and in the listed copy of it, name runs of the   *)
(* Migration they are found in.                                            *)
PhaseInv ==
  /\ SucceededIsTrue
  /\ cr.mid # 0 /\ cr.uid \notin shared => run[cr.mid].uid = cr.uid
  /\ obj.mid # 0 /\ obj.uid \notin shared => run[obj.mid].uid = obj.uid

IInv == TypeOK /\ UserInv /\ LoopInv /\ MeetInv /\ WorkInv /\ RunInv /\ PhaseInv

(* The types of a goroutine and of a run, as TypeOK has them *)
WorkerType == [pc : {"free", "dispatch", "applied", "submitted", "watch",
                     "range", "ended", "end", "recover", "resume"},
               uid : 0 .. MaxCRs, id : 0 .. MaxRuns, last : Phases]
RunType == [uid : 0 .. MaxCRs, inflight : BOOLEAN, handover : BOOLEAN,
            src : {"absent", "active", "complete", "failed"},
            dst : {"absent", "active", "complete", "failed"},
            out : {"", "succeeded", "failed"}]

-----------------------------------------------------------------------------
(* The failed patches stay within their bound.                             *)
LEMMA FailureCounted ==
  ASSUME TypeOK, PatchFails
  PROVE  faults' \in 0 .. MaxFaults
<1>1. faults \in 0 .. MaxFaults
  BY Zenon DEF TypeOK
<1>2. QED
  BY <1>1, ReconcilerAssumption DEF PatchFails, Fault

(* patchStatus changes the phase and the id and nothing else.              *)
LEMMA StatusPatch ==
  ASSUME TypeOK, UserInv, NEW id \in 0 .. MaxRuns, NEW p \in Phases \ {""},
         PatchStatus(id, p), p \in {"submitted", "transferring"} => id # 0
  PROVE  /\ cr' \in CRs
         /\ cr'.phase \in {"submitted", "transferring"} => cr'.mid # 0
         /\ cr'.uid = cr.uid /\ cr'.deleting = cr.deleting
         /\ cr'.finalizer = cr.finalizer
         /\ faults' \in 0 .. MaxFaults
         /\ \/ cr' = cr
            \/ /\ cr.uid # 0 /\ cr'.phase = p
               /\ cr'.mid = IF id = 0 THEN cr.mid ELSE id
<1>1. CASE Patch([cr EXCEPT !.phase = p, !.mid = IF id = 0 THEN @ ELSE id])
  BY <1>1, ReconcilerAssumption, Zenon DEF TypeOK, CRs, Patch, Phases
<1>2. CASE PatchFails
  <2>1. cr' = cr
    BY <1>2, Zenon DEF PatchFails
  <2>2. faults' \in 0 .. MaxFaults
    BY <1>2, FailureCounted, Zenon
  <2>3. QED BY <2>1, <2>2, Zenon DEF TypeOK
<1>3. QED BY <1>1, <1>2, Zenon DEF PatchStatus

(* A step that leaves the owners of the goroutines and the Migration's     *)
(* life alone keeps what is about them.                                    *)
LEMMA WorkerKeepsUsers ==
  ASSUME TypeOK, UserInv, LoopInv, MeetInv,
         UNCHANGED <<created, shared, rpc, obj, tracked>>,
         cr'.uid = cr.uid, cr'.deleting = cr.deleting, cr'.finalizer = cr.finalizer,
         cr' = cr \/ cr.uid # 0,
         \A w \in Workers : wk'[w].uid = wk[w].uid
  PROVE  UserInv' /\ LoopInv' /\ MeetInv'
<1>1. UserInv'
  BY Zenon DEF UserInv
<1>2. LoopInv'
  BY DEF LoopInv
<1>3. MeetInv'
  BY DEF MeetInv, Claimable
<1>4. QED BY <1>1, <1>2, <1>3

(* A phase that a goroutine may patch keeps succeeded true: the Migration  *)
(* is its own, or met a goroutine of another.                              *)
LEMMA WorkerReports ==
  ASSUME TypeOK, UserInv, MeetInv, PhaseInv, UNCHANGED <<shared, obj, run>>,
         NEW w \in Workers, wk[w].uid # 0, NEW id \in 0 .. MaxRuns, NEW p,
         cr'.uid = cr.uid,
         \/ cr' = cr
         \/ /\ cr.uid # 0 /\ cr'.phase = p
            /\ cr'.mid = IF id = 0 THEN cr.mid ELSE id,
         id # 0 /\ wk[w].uid \notin shared => run[id].uid = wk[w].uid,
         p = "succeeded" => id # 0 /\ run[id].handover
  PROVE  PhaseInv'
<1>1. CASE cr' = cr
  BY <1>1 DEF PhaseInv, SucceededIsTrue
<1>2. CASE cr' # cr /\ cr.uid \in shared
  BY <1>2 DEF PhaseInv, SucceededIsTrue
<1>3. CASE cr' # cr /\ cr.uid \notin shared
  <2>1. wk[w].uid = cr.uid
    BY <1>3 DEF MeetInv
  <2>2. id # 0 => run[id].uid = cr.uid /\ id \in Ids
    BY <1>3, <2>1, ReconcilerAssumption DEF Ids
  <2>3. cr'.mid # 0 => run[cr'.mid].uid = cr.uid
    BY <1>3, <2>2 DEF PhaseInv
  <2>4. SucceededIsTrue'
    BY <1>3, <2>2 DEF SucceededIsTrue
  <2>5. QED BY <2>3, <2>4 DEF PhaseInv
<1>4. QED BY <1>1, <1>2, <1>3

(* A goroutine that moves on within its run keeps the runs watched.        *)
LEMMA WorkerGoes ==
  ASSUME TypeOK, WorkInv, RunInv, UNCHANGED <<shared, run>>,
         NEW w \in Workers, NEW r \in WorkerType, wk' = [wk EXCEPT ![w] = r],
         wk[w].pc # "free", r.uid = wk[w].uid,
         r.pc \notin {"free", "dispatch", "applied"},
         r.pc \in Busy => wk[w].pc \in Busy /\ r.id = wk[w].id,
         r.pc \in {"recover", "resume"} =>
           wk[w].pc \in {"recover", "resume"} /\ r.id = wk[w].id,
         r.pc \in {"submitted", "watch"} => r.last = "",
         r.pc = "range" /\ IsTerminal(r.last) => run[r.id].out # "",
         wk[w].pc \in Watching /\ run[wk[w].id].inflight => r.pc \in Watching
  PROVE  /\ wk' \in [Workers -> WorkerType]
         /\ \A x \in Workers : wk'[x].uid = wk[x].uid
         /\ WorkInv' /\ RunInv'
<1>1. wk \in [Workers -> WorkerType]
  BY Zenon DEF TypeOK, WorkerType
<1>2. /\ wk' \in [Workers -> WorkerType]
      /\ wk'[w] = r /\ \A x \in Workers \ {w} : wk'[x] = wk[x]
      /\ \A x \in Workers : wk'[x].uid = wk[x].uid
  BY <1>1, Zenon
<1>3. WorkInv'
  <2>1. ASSUME NEW x \in Workers, NEW y \in Workers,
               wk'[x].pc \in Busy /\ wk'[y].pc \in Busy /\ wk'[x].id = wk'[y].id
        PROVE  x = y
    <3>1. wk[x].pc \in Busy /\ wk[x].id = wk'[x].id
      BY <1>2, <2>1, Zenon
    <3>2. wk[y].pc \in Busy /\ wk[y].id = wk'[y].id
      BY <1>2, <2>1, Zenon
    <3>3. QED BY <2>1, <3>1, <3>2, Zenon DEF WorkInv, WorkerOK
  <2>2. ASSUME NEW x \in Workers, x # w
        PROVE  wk'[x] = wk[x] /\ UNCHANGED <<run, shared>>
    BY <1>2, <2>2, Zenon
  <2>3. r.uid # 0
    BY Zenon DEF WorkInv, WorkerOK
  <2>4. r.pc \in Busy => r.id \in Ids /\ run[r.id].uid = r.uid
    BY Zenon DEF WorkInv, WorkerOK
  <2>5. r.pc \in {"recover", "resume"} =>
          r.id \in Ids /\ (r.uid \notin shared => run[r.id].uid = r.uid)
    BY Zenon DEF WorkInv, WorkerOK
  <2>6. QED BY <1>2, <2>1, <2>2, <2>3, <2>4, <2>5, ZenonT(60) DEF WorkInv, WorkerOK, IsTerminal
<1>4. RunInv'
  <2> SUFFICES ASSUME NEW i \in Ids, run[i].inflight
               PROVE  \E x \in Workers : wk'[x].pc \in Watching /\ wk'[x].id = i
    BY Zenon DEF RunInv
  <2>1. PICK x \in Workers : wk[x].pc \in Watching /\ wk[x].id = i
    BY Zenon DEF RunInv
  <2>2. wk'[x].pc \in Watching /\ wk'[x].id = i
    BY <1>2, <2>1, Zenon DEF Watching, Busy
  <2>3. QED BY <2>2, Zenon
<1>5. QED BY <1>2, <1>3, <1>4, Zenon

(* What a goroutine may patch, and where it may go, with the runs as they  *)
(* are                                                                     *)
MayReport(w, id, p) ==
  /\ id \in 0 .. MaxRuns /\ p \in Phases \ {""}
  /\ p \in {"submitted", "transferring"} => id # 0
  /\ id # 0 /\ wk[w].uid \notin shared => run[id].uid = wk[w].uid
  /\ p = "succeeded" => id # 0 /\ run[id].handover

MayGo(w, r) ==
  /\ r \in WorkerType /\ r.uid = wk[w].uid
  /\ r.pc \notin {"free", "dispatch", "applied"}
  /\ r.pc \in Busy => wk[w].pc \in Busy /\ r.id = wk[w].id
  /\ r.pc \in {"recover", "resume"} =>
       wk[w].pc \in {"recover", "resume"} /\ r.id = wk[w].id
  /\ r.pc \in {"submitted", "watch"} => r.last = ""
  /\ r.pc = "range" /\ IsTerminal(r.last) => run[r.id].out # ""
  /\ wk[w].pc \in Watching /\ run[wk[w].id].inflight => r.pc \in Watching

(* A goroutine that patches, or not, and moves on, with the runs as they are *)
LEMMA WorkerStep ==
  ASSUME IInv, NEW w \in Workers, wk[w].pc # "free", UNCHANGED <<run, workRest>>,
         NEW id, NEW p, MayReport(w, id, p),
         PatchStatus(id, p) \/ UNCHANGED <<cr, faults>>,
         NEW r, MayGo(w, r), wk' = [wk EXCEPT ![w] = r]
  PROVE  IInv'
<1>0. TypeOK /\ UserInv /\ LoopInv /\ MeetInv /\ WorkInv /\ RunInv /\ PhaseInv
  BY DEF IInv
<1>1. UNCHANGED <<created, shared, rpc, obj, tracked, run>>
  BY DEF workRest, loopVars
<1>2. /\ cr' \in CRs
      /\ cr'.phase \in {"submitted", "transferring"} => cr'.mid # 0
      /\ cr'.uid = cr.uid /\ cr'.deleting = cr.deleting
      /\ cr'.finalizer = cr.finalizer
      /\ faults' \in 0 .. MaxFaults
      /\ \/ cr' = cr
         \/ /\ cr.uid # 0 /\ cr'.phase = p
            /\ cr'.mid = IF id = 0 THEN cr.mid ELSE id
  <2>1. CASE PatchStatus(id, p)
    BY <1>0, <2>1, StatusPatch, Zenon DEF MayReport
  <2>2. CASE UNCHANGED <<cr, faults>>
    BY <1>0, <2>2, Zenon DEF TypeOK
  <2>3. QED BY <2>1, <2>2
<1>3. /\ wk' \in [Workers -> WorkerType]
      /\ \A x \in Workers : wk'[x].uid = wk[x].uid
      /\ WorkInv' /\ RunInv'
  BY <1>0, <1>1, WorkerGoes, Zenon DEF MayGo
<1>4. TypeOK'
  BY <1>0, <1>1, <1>2, <1>3, Zenon DEF TypeOK, WorkerType
<1>5. UserInv' /\ LoopInv' /\ MeetInv'
  BY <1>0, <1>1, <1>2, <1>3, WorkerKeepsUsers
<1>6. wk[w].uid # 0
  BY <1>0, Zenon DEF WorkInv, WorkerOK
<1>7. PhaseInv'
  BY <1>0, <1>1, <1>2, <1>6, WorkerReports, Zenon DEF MayReport
<1>8. QED BY <1>3, <1>4, <1>5, <1>7 DEF IInv

(* The steps of dispatch and recover that leave the runs alone             *)
LEMMA ReportsStep ==
  ASSUME IInv, NEW w \in Workers,
         \/ DispatchFails(w) \/ PatchSubmitted(w) \/ Watch(w) \/ Update(w)
         \/ RangeEnds(w) \/ WatchEnded(w) \/ RecoverTick(w) \/ RecoverTimesOut(w)
  PROVE  IInv'
<1> DEFINE Ended == [wk[w] EXCEPT !.pc = "end", !.id = 0, !.last = ""]
           At(pc) == [wk[w] EXCEPT !.pc = pc]
<1>0. TypeOK /\ WorkInv /\ RunInv
  BY DEF IInv
<1>1. wk[w] \in WorkerType /\ wk \in [Workers -> WorkerType]
  BY <1>0, Zenon DEF TypeOK, WorkerType
<1>20. wk[w].id \in 0 .. MaxRuns /\ \A i \in Ids : i # 0
  BY <1>1, ReconcilerAssumption DEF WorkerType, Ids
<1>2. MayReport(w, 0, "failed")
  BY ReconcilerAssumption DEF MayReport, Phases
<1>3. ASSUME wk[w].pc \in Busy \cup {"recover", "resume"}
      PROVE  MayReport(w, wk[w].id, "failed")
  BY <1>0, <1>1, <1>3, ReconcilerAssumption, Zenon DEF MayReport, Phases, WorkInv, WorkerOK, WorkerType
<1>4. ASSUME wk[w].pc # "free", wk[w].pc \in Watching => ~run[wk[w].id].inflight
      PROVE  MayGo(w, Ended)
  <2>1. 0 \in 0 .. MaxRuns
    BY ReconcilerAssumption
  <2>2. /\ Ended \in WorkerType
        /\ Ended.pc = "end" /\ Ended.uid = wk[w].uid
    BY <1>1, <2>1, Zenon DEF WorkerType, Phases
  <2>3. QED BY <1>4, <2>2 DEF MayGo, Busy
<1>5. ASSUME Ends(w)
      PROVE  wk' = [wk EXCEPT ![w] = Ended]
  BY <1>1, <1>5, Zenon DEF Ends, WorkerType
<1>6. ASSUME NEW pc, Goto(w, pc)
      PROVE  wk' = [wk EXCEPT ![w] = At(pc)]
  BY <1>1, <1>6 DEF Goto, WorkerType
<1>7. CASE DispatchFails(w)
  <2>1. MayGo(w, Ended) /\ wk' = [wk EXCEPT ![w] = Ended]
    BY <1>4, <1>5, <1>7 DEF DispatchFails, Watching
  <2>2. QED BY <1>2, <1>7, <2>1, WorkerStep, Zenon DEF DispatchFails
<1>8. CASE PatchSubmitted(w)
  <2>1. MayGo(w, At("watch"))
    BY <1>0, <1>1, <1>8, Zenon DEF PatchSubmitted, MayGo, WorkerType, Busy, Watching, WorkInv, WorkerOK
  <2>2. MayReport(w, wk[w].id, "submitted")
    BY <1>0, <1>20, <1>8, Zenon DEF PatchSubmitted, MayReport, WorkInv, WorkerOK, Busy, Phases
  <2>3. QED BY <1>6, <1>8, <2>1, <2>2, WorkerStep DEF PatchSubmitted
<1>9. CASE Watch(w)
  <2>1. CASE run[wk[w].id].inflight /\ Goto(w, "range") /\ UNCHANGED <<cr, faults>>
    <3>1. MayGo(w, At("range"))
      BY <1>0, <1>1, <1>9, Zenon DEF Watch, MayGo, WorkerType, Busy, Watching, WorkInv, WorkerOK, IsTerminal
    <3>2. QED BY <1>2, <1>6, <1>9, <2>1, <3>1, WorkerStep DEF Watch
  <2>2. CASE ~run[wk[w].id].inflight /\ Ends(w) /\ PatchStatus(wk[w].id, "failed")
    <3>1. MayGo(w, Ended) /\ wk' = [wk EXCEPT ![w] = Ended]
      BY <1>4, <1>5, <1>9, <2>2 DEF Watch
    <3>2. MayReport(w, wk[w].id, "failed")
      BY <1>3, <1>9 DEF Watch, Busy
    <3>3. QED BY <1>9, <2>2, <3>1, <3>2, WorkerStep, Zenon DEF Watch
  <2>3. QED BY <1>9, <2>1, <2>2 DEF Watch
<1>10. CASE Update(w)
  <2>1. PICK p \in {"transferring"} \cup {q \in {run[wk[w].id].out} : q # ""} :
          /\ IsTerminal(p) => ~IsTerminal(wk[w].last)
          /\ PatchStatus(wk[w].id, p)
          /\ wk' = [wk EXCEPT ![w].last = p,
                              ![w].pc = IF IsTerminal(wk[w].last) THEN "ended" ELSE @]
    BY <1>10, Zenon DEF Update
  <2> DEFINE r == [wk[w] EXCEPT !.last = p,
                                !.pc = IF IsTerminal(wk[w].last) THEN "ended" ELSE @]
  <2>2. wk[w].pc = "range" /\ wk[w].id \in Ids /\ run[wk[w].id].uid = wk[w].uid
    BY <1>0, <1>10, Zenon DEF Update, WorkInv, WorkerOK, Busy
  <2>3. wk' = [wk EXCEPT ![w] = r]
    BY <1>1, <2>1, Zenon DEF WorkerType
  <2>4. p \in {"transferring", "succeeded", "failed"} /\ (p = "transferring" \/ p = run[wk[w].id].out)
    BY <1>0, <2>1, <2>2, Zenon DEF TypeOK
  <2>5. MayReport(w, wk[w].id, p)
    BY <1>0, <1>20, <2>2, <2>4, Zenon DEF MayReport, RunInv, Phases
  <2>6. run[wk[w].id].inflight => run[wk[w].id].out = ""
    BY <1>0, <2>2, Zenon DEF RunInv
  <2>7. IsTerminal(wk[w].last) => run[wk[w].id].out # ""
    BY <1>0, <2>2, Zenon DEF WorkInv, WorkerOK
  <2>8. MayGo(w, r)
    BY <1>1, <2>2, <2>4, <2>6, <2>7, Zenon DEF MayGo, WorkerType, Busy, Watching, Phases, IsTerminal
  <2>9. QED BY <1>10, <2>1, <2>2, <2>3, <2>5, <2>8, WorkerStep, Zenon DEF Update
<1>11. CASE RangeEnds(w)
  <2>1. MayGo(w, At("ended"))
    BY <1>0, <1>1, <1>11, Zenon DEF RangeEnds, MayGo, WorkerType, Busy, Watching, WorkInv, WorkerOK, RunInv
  <2>2. QED BY <1>2, <1>6, <1>11, <2>1, WorkerStep DEF RangeEnds
<1>12. CASE WatchEnded(w)
  <2>1. MayGo(w, Ended) /\ wk' = [wk EXCEPT ![w] = Ended]
    BY <1>4, <1>5, <1>12 DEF WatchEnded, Watching
  <2>2. MayReport(w, wk[w].id, "failed")
    BY <1>3, <1>12 DEF WatchEnded, Busy
  <2>3. QED BY <1>12, <2>1, <2>2, WorkerStep, Zenon DEF WatchEnded
<1>13. CASE RecoverTick(w)
  <2>1. wk[w].pc = "recover" /\ wk[w].id \in Ids
    BY <1>0, <1>13, Zenon DEF RecoverTick, WorkInv, WorkerOK
  <2>2. MayGo(w, Ended)
    BY <1>4, <2>1, Zenon DEF Watching
  <2>3. CASE Recovered(w, "failed")
    BY <1>3, <1>5, <1>13, <2>1, <2>2, <2>3, WorkerStep DEF RecoverTick, Recovered
  <2>4. CASE run[wk[w].id].dst = "complete" /\ Recovered(w, "succeeded")
    <3>1. run[wk[w].id].handover
      BY <1>0, <2>1, <2>4, Zenon DEF RunInv
    <3>2. MayReport(w, wk[w].id, "succeeded")
      BY <1>0, <1>20, <2>1, <3>1, Zenon DEF MayReport, WorkInv, WorkerOK, Phases
    <3>3. QED BY <1>5, <1>13, <2>1, <2>2, <2>4, <3>2, WorkerStep DEF RecoverTick, Recovered
  <2>5. CASE Goto(w, "resume") /\ UNCHANGED <<cr, faults>>
    <3>1. MayGo(w, At("resume"))
      BY <1>1, <2>1 DEF MayGo, WorkerType, Busy, Watching
    <3>2. QED BY <1>2, <1>6, <1>13, <2>1, <2>5, <3>1, WorkerStep DEF RecoverTick
  <2>6. QED BY <1>13, <2>3, <2>4, <2>5 DEF RecoverTick
<1>14. CASE RecoverTimesOut(w)
  <2>1. wk[w].pc = "recover" /\ Recovered(w, "failed") /\ UNCHANGED <<run, workRest>>
    BY <1>14 DEF RecoverTimesOut
  <2>2. MayGo(w, Ended)
    BY <1>4, <2>1 DEF Watching
  <2>3. QED BY <1>3, <1>5, <2>1, <2>2, WorkerStep DEF Recovered
<1>15. QED BY <1>7, <1>8, <1>9, <1>10, <1>11, <1>12, <1>13, <1>14

(* What the cluster, poll and Stop do to a run *)
RunMoves(i, r) ==
  /\ r.uid = run[i].uid
  /\ r.inflight => run[i].inflight /\ r.out = run[i].out
  /\ run[i].handover => r.handover
  /\ r.out = run[i].out \/ (run[i].inflight /\ r.out # "")
  /\ r.dst = "complete" => r.handover
  /\ r.out = "succeeded" => r.handover

(* A run that ends or whose Jobs change keeps what is about goroutines.    *)
LEMMA RunsMove ==
  ASSUME IInv, UNCHANGED <<cr, obj, shared, wk>>, \A i \in Ids : RunMoves(i, run'[i])
  PROVE  WorkInv' /\ RunInv' /\ PhaseInv'
<1>0. TypeOK /\ WorkInv /\ RunInv /\ PhaseInv /\ UserInv
  BY DEF IInv
<1>1. ASSUME NEW w \in Workers, wk[w].pc = "applied"
      PROVE  ~run[wk[w].id].inflight
  BY <1>0, <1>1, Zenon DEF WorkInv, WorkerOK, RunInv, Busy, Watching
<1>2. WorkInv'
  <2>1. ASSUME NEW w \in Workers, wk[w].pc \in Busy \cup {"recover", "resume"}
        PROVE  wk[w].id \in Ids /\ RunMoves(wk[w].id, run'[wk[w].id])
    BY <1>0, <2>1, Zenon DEF WorkInv, WorkerOK
  <2>2. ASSUME NEW w \in Workers, wk[w].pc = "applied"
        PROVE  run'[wk[w].id].out = ""
    BY <1>0, <1>1, <2>1, <2>2, ZenonT(60) DEF WorkInv, WorkerOK, RunMoves, Busy
  <2>3. ASSUME NEW w \in Workers, wk[w].pc = "range" /\ IsTerminal(wk[w].last)
        PROVE  run'[wk[w].id].out # ""
    BY <1>0, <2>1, <2>3, ZenonT(60) DEF WorkInv, WorkerOK, RunMoves, Busy
  <2>4. ASSUME NEW w \in Workers, wk[w].pc \in Busy \cup {"recover", "resume"}
        PROVE  run'[wk[w].id].uid = run[wk[w].id].uid
    BY <2>1, <2>4, Zenon DEF RunMoves
  <2>5. QED BY <1>0, <2>1, <2>2, <2>3, <2>4, Zenon DEF WorkInv, WorkerOK
<1>3. RunInv'
  BY <1>0, Zenon DEF RunInv, RunMoves
<1>4. PhaseInv'
  <2>0. cr.mid \in 0 .. MaxRuns /\ obj.mid \in 0 .. MaxRuns
    BY <1>0, Zenon DEF TypeOK, CRs
  <2>1. (cr.mid # 0 => cr.mid \in Ids) /\ (obj.mid # 0 => obj.mid \in Ids)
    BY <2>0, ReconcilerAssumption DEF Ids
  <2>2. SucceededIsTrue'
    BY <1>0, Zenon DEF PhaseInv, SucceededIsTrue, RunMoves
  <2>3. QED BY <1>0, <2>1, <2>2, Zenon DEF PhaseInv, RunMoves
<1>5. QED BY <1>2, <1>3, <1>4

(* The Jobs and poll                                                       *)
LEMMA ClusterStep ==
  ASSUME IInv, NEW i \in Ids, Cluster(i)
  PROVE  IInv'
<1>0. TypeOK /\ UserInv /\ LoopInv /\ MeetInv /\ RunInv
  BY DEF IInv
<1>1. UNCHANGED <<cr, created, shared, rpc, obj, tracked, wk, faults>>
  BY DEF Cluster, SourceEnds, DestEnds, StageDest, RunEnds, JobExpires,
         clusterRest, userVars, loopVars
<1>2. run \in [Ids -> RunType]
  BY <1>0, Zenon DEF TypeOK, RunType
<1>3. ASSUME NEW r \in RunType, RunMoves(i, r), run' = [run EXCEPT ![i] = r]
      PROVE  run' \in [Ids -> RunType] /\ \A j \in Ids : RunMoves(j, run'[j])
  BY <1>0, <1>2, <1>3, Zenon DEF RunInv, RunMoves
<1>4. run' \in [Ids -> RunType] /\ \A j \in Ids : RunMoves(j, run'[j])
  <2> DEFINE Src(s) == [run[i] EXCEPT !.src = s]
             Dst(s) == [run[i] EXCEPT !.dst = s]
             Complete == [run[i] EXCEPT !.dst = "complete", !.handover = TRUE]
             Out(o) == [run[i] EXCEPT !.inflight = FALSE, !.out = o]
  <2>1. CASE SourceEnds(i)
    <3>1. PICK s \in {"complete", "failed"} : run' = [run EXCEPT ![i].src = s]
      BY <2>1, Zenon DEF SourceEnds
    <3>2. Src(s) \in RunType /\ RunMoves(i, Src(s)) /\ run' = [run EXCEPT ![i] = Src(s)]
      BY <1>0, <1>2, <3>1, Zenon DEF RunType, RunMoves, RunInv
    <3>3. QED BY <1>3, <3>2, Zenon
  <2>2. CASE DestEnds(i)
    <3>1. CASE run' = [run EXCEPT ![i].dst = "complete", ![i].handover = TRUE]
      <4>1. Complete \in RunType /\ RunMoves(i, Complete) /\ run' = [run EXCEPT ![i] = Complete]
        BY <1>0, <1>2, <3>1, ZenonT(60) DEF RunType, RunMoves, RunInv
      <4>2. QED BY <1>3, <4>1, Zenon
    <3>2. CASE run' = [run EXCEPT ![i].dst = "failed"]
      <4>1. /\ Dst("failed") \in RunType /\ RunMoves(i, Dst("failed"))
            /\ run' = [run EXCEPT ![i] = Dst("failed")]
        BY <1>0, <1>2, <3>2, Zenon DEF RunType, RunMoves, RunInv
      <4>2. QED BY <1>3, <4>1, Zenon
    <3>3. QED BY <2>2, <3>1, <3>2 DEF DestEnds
  <2>3. CASE StageDest(i)
    <3>1. /\ Dst("active") \in RunType /\ RunMoves(i, Dst("active"))
          /\ run' = [run EXCEPT ![i] = Dst("active")]
      BY <1>0, <1>2, <2>3, ZenonT(60) DEF StageDest, RunType, RunMoves, RunInv
    <3>2. QED BY <1>3, <3>1, Zenon
  <2>4. CASE RunEnds(i)
    <3>1. PICK o \in {"succeeded", "failed"} :
            /\ run' = [run EXCEPT ![i].inflight = FALSE, ![i].out = o]
            /\ o = "succeeded" => run[i].dst = "complete"
      BY <2>4, Zenon DEF RunEnds
    <3>2. Out(o) \in RunType /\ RunMoves(i, Out(o)) /\ run' = [run EXCEPT ![i] = Out(o)]
      BY <1>0, <1>2, <2>4, <3>1, ZenonT(60) DEF RunEnds, RunType, RunMoves, RunInv
    <3>3. QED BY <1>3, <3>2, Zenon
  <2>5. CASE JobExpires(i)
    <3>1. CASE run' = [run EXCEPT ![i].src = "absent"]
      <4>1. /\ Src("absent") \in RunType /\ RunMoves(i, Src("absent"))
            /\ run' = [run EXCEPT ![i] = Src("absent")]
        BY <1>0, <1>2, <3>1, Zenon DEF RunType, RunMoves, RunInv
      <4>2. QED BY <1>3, <4>1, Zenon
    <3>2. CASE run' = [run EXCEPT ![i].dst = "absent"]
      <4>1. /\ Dst("absent") \in RunType /\ RunMoves(i, Dst("absent"))
            /\ run' = [run EXCEPT ![i] = Dst("absent")]
        BY <1>0, <1>2, <3>2, Zenon DEF RunType, RunMoves, RunInv
      <4>2. QED BY <1>3, <4>1, Zenon
    <3>3. QED BY <2>5, <3>1, <3>2 DEF JobExpires
  <2>6. QED BY <2>1, <2>2, <2>3, <2>4, <2>5 DEF Cluster
<1>5. WorkInv' /\ RunInv' /\ PhaseInv'
  BY <1>1, <1>4, RunsMove
<1>6. TypeOK'
  BY <1>0, <1>1, <1>4, Zenon DEF TypeOK, RunType
<1>7. UserInv' /\ LoopInv' /\ MeetInv'
  BY <1>0, <1>1, WorkerKeepsUsers
<1>8. QED BY <1>5, <1>6, <1>7 DEF IInv

(* Apply takes an id that is new: no goroutine and no status holds it.     *)
LEMMA ApplySubmitsStep ==
  ASSUME IInv, NEW w \in Workers, ApplySubmits(w)
  PROVE  IInv'
<1>0. TypeOK /\ UserInv /\ LoopInv /\ MeetInv /\ WorkInv /\ RunInv /\ PhaseInv
  BY DEF IInv
<1>1. UNCHANGED <<cr, faults, created, shared, rpc, obj, tracked>>
  BY DEF ApplySubmits, workRest, loopVars
<1>2. wk \in [Workers -> WorkerType] /\ run \in [Ids -> RunType]
  BY <1>0, Zenon DEF TypeOK, WorkerType, RunType
<1>3. wk[w].pc = "dispatch" /\ wk[w].uid # 0 /\ wk[w].uid \in 0 .. MaxCRs /\ wk[w].last = ""
  BY <1>0, <1>2, Zenon DEF ApplySubmits, WorkInv, WorkerOK, WorkerType
<1>4. PICK i \in Ids :
        /\ run[i].uid = 0
        /\ run' = [run EXCEPT ![i].uid = wk[w].uid, ![i].src = "active",
                              ![i].dst = IF Replay THEN "absent" ELSE "active"]
        /\ wk' = [wk EXCEPT ![w].pc = "applied", ![w].id = i]
  BY Zenon DEF ApplySubmits
<1> DEFINE r == [run[i] EXCEPT !.uid = wk[w].uid, !.src = "active",
                               !.dst = IF Replay THEN "absent" ELSE "active"]
           g == [wk[w] EXCEPT !.pc = "applied", !.id = i]
<1>5. i \in 0 .. MaxRuns /\ i # 0
  BY ReconcilerAssumption DEF Ids
<1>6. /\ r \in RunType /\ r.uid = wk[w].uid /\ r.out = run[i].out
      /\ r.inflight = run[i].inflight /\ r.dst # "complete" /\ r.handover = run[i].handover
  BY <1>2, <1>3, ZenonT(60) DEF RunType
<1>7. /\ g \in WorkerType /\ g.uid = wk[w].uid /\ g.pc = "applied"
      /\ g.id = i /\ g.last = wk[w].last
  BY <1>2, <1>5, Zenon DEF WorkerType
<1>8. /\ run' \in [Ids -> RunType]
      /\ run'[i] = r /\ \A j \in Ids \ {i} : run'[j] = run[j]
  <2>1. run' = [run EXCEPT ![i] = r]
    BY <1>4, Zenon
  <2> HIDE DEF r
  <2>2. QED BY <1>2, <1>6, <2>1, Zenon
<1>9. /\ wk' \in [Workers -> WorkerType]
      /\ wk'[w] = g /\ \A x \in Workers \ {w} : wk'[x] = wk[x]
      /\ \A x \in Workers : wk'[x].uid = wk[x].uid
  BY <1>2, <1>4, <1>7 DEF WorkerType
<1>10. TypeOK'
  BY <1>0, <1>1, <1>8, <1>9, Zenon DEF TypeOK, WorkerType, RunType
<1>11. UserInv' /\ LoopInv' /\ MeetInv'
  BY <1>0, <1>1, <1>9, WorkerKeepsUsers
<1>12. run[i].out = "" /\ ~run[i].inflight
  BY <1>0, <1>4, Zenon DEF RunInv
<1>13. WorkInv'
  <2>1. ASSUME NEW x \in Workers \ {w}, wk[x].pc \in Busy
        PROVE  wk[x].id \in Ids \ {i}
    BY <1>0, <1>4, <2>1, Zenon DEF WorkInv, WorkerOK, Busy
  <2>2. ASSUME NEW x \in Workers \ {w}, wk[x].pc \in {"recover", "resume"},
               wk[x].uid \notin shared
        PROVE  wk[x].id \in Ids \ {i}
    BY <1>0, <1>4, <2>2, Zenon DEF WorkInv, WorkerOK
  <2>3. ASSUME NEW x \in Workers, NEW y \in Workers,
               wk'[x].pc \in Busy /\ wk'[y].pc \in Busy /\ wk'[x].id = wk'[y].id
        PROVE  x = y
    <3>1. CASE x # w /\ y # w
      BY <1>0, <1>9, <2>3, <3>1, Zenon DEF WorkInv, WorkerOK
    <3>2. ASSUME NEW z \in Workers \ {w}, wk'[z].pc \in Busy
          PROVE  wk'[z].id # wk'[w].id
      BY <1>7, <1>9, <2>1, <3>2
    <3>3. QED BY <2>3, <3>1, <3>2
  <2>4. ASSUME NEW x \in Workers \ {w}
        PROVE  WorkerOK(x)'
    <3>0. wk'[x] = wk[x] /\ shared' = shared
      BY <1>1, <1>9
    <3>5. WorkerOK(x)
      BY <1>0 DEF WorkInv
    <3>1. CASE wk[x].pc \in Busy
      <4>1. run'[wk[x].id] = run[wk[x].id]
        BY <1>8, <2>1, <3>1
      <4>2. QED BY <3>0, <3>5, <3>1, <4>1, Zenon DEF WorkerOK, Busy
    <3>2. CASE wk[x].pc \in {"recover", "resume"}
      <4>1. wk[x].uid \notin shared => run'[wk[x].id] = run[wk[x].id]
        BY <1>8, <2>2, <3>2
      <4>2. QED BY <3>0, <3>5, <3>2, <4>1, Zenon DEF WorkerOK, Busy
    <3>3. CASE wk[x].pc \notin Busy \cup {"recover", "resume"}
      BY <3>0, <3>5, <3>3, Zenon DEF WorkerOK, Busy
    <3>4. QED BY <3>1, <3>2, <3>3
  <2>5. /\ wk'[w].pc = "applied" /\ wk'[w].uid # 0 /\ wk'[w].last = "" /\ wk'[w].id = i
        /\ run'[i].uid = wk'[w].uid /\ run'[i].out = ""
    BY <1>3, <1>6, <1>7, <1>8, <1>9, <1>12, Zenon
  <2>6. WorkerOK(w)'
    BY <2>5, Zenon DEF WorkerOK, Busy
  <2>7. QED BY <2>3, <2>4, <2>6 DEF WorkInv
<1>14. RunInv'
  <2>1. ASSUME NEW j \in Ids, run'[j].inflight
        PROVE  \E x \in Workers : wk'[x].pc \in Watching /\ wk'[x].id = j
    <3>1. j # i /\ run[j].inflight
      BY <1>6, <1>8, <1>12, <2>1, Zenon
    <3>2. PICK x \in Workers : wk[x].pc \in Watching /\ wk[x].id = j
      BY <1>0, <3>1, Zenon DEF RunInv
    <3>3. QED BY <1>3, <1>9, <3>2, Zenon DEF Watching
  <2>2. /\ run'[i].uid # 0 /\ ~run'[i].inflight /\ run'[i].dst # "complete"
        /\ run'[i].out = ""
    BY <1>3, <1>6, <1>8, <1>12, Zenon
  <2>3. QED BY <1>0, <1>8, <2>1, <2>2, Zenon DEF RunInv
<1>15. PhaseInv'
  <2>1. cr.uid \notin shared => cr.mid # i
    BY <1>0, <1>4, <1>5, Zenon DEF PhaseInv, UserInv
  <2>2. obj.uid \notin shared => obj.mid # i
    BY <1>0, <1>4, <1>5 DEF PhaseInv, LoopInv
  <2>3. cr.mid \in 0 .. MaxRuns /\ obj.mid \in 0 .. MaxRuns
    BY <1>0, Zenon DEF TypeOK, CRs
  <2>4. (cr.mid # 0 => cr.mid \in Ids) /\ (obj.mid # 0 => obj.mid \in Ids)
    BY <2>3, ReconcilerAssumption DEF Ids
  <2>5. SucceededIsTrue'
    <3>1. SUFFICES ASSUME cr.phase = "succeeded", cr.uid \notin shared
                   PROVE  \E j \in Ids : run'[j].uid = cr.uid /\ run'[j].handover
      BY <1>1 DEF SucceededIsTrue
    <3>2. PICK j \in Ids : run[j].uid = cr.uid /\ run[j].handover
      BY <1>0, <3>1 DEF PhaseInv, SucceededIsTrue
    <3>3. j # i
      BY <1>0, <1>4, <3>1, <3>2 DEF UserInv
    <3>4. QED BY <1>8, <3>2, <3>3
  <2>6. QED BY <1>0, <1>1, <1>8, <2>1, <2>2, <2>4, <2>5 DEF PhaseInv
<1>16. QED BY <1>10, <1>11, <1>13, <1>14, <1>15 DEF IInv

(* One goroutine changes, and no run changes hands.                        *)
LEMMA SameOwners ==
  ASSUME TypeOK, WorkInv, PhaseInv, UNCHANGED <<cr, obj, shared>>,
         \A j \in Ids : /\ run'[j].uid = run[j].uid /\ run'[j].out = run[j].out
                        /\ run'[j].handover = run[j].handover,
         NEW w \in Workers, \A x \in Workers \ {w} : wk'[x] = wk[x],
         WorkerOK(w)',
         wk'[w].pc \in Busy => wk[w].pc \in Busy /\ wk'[w].id = wk[w].id
  PROVE  WorkInv' /\ PhaseInv'
<1>1. ASSUME NEW x \in Workers \ {w}
      PROVE  WorkerOK(x)'
  <2>1. wk'[x] = wk[x] /\ WorkerOK(x)
    BY DEF WorkInv
  <2>2. CASE wk[x].pc \in Busy
    BY <2>1, <2>2, ZenonT(60) DEF WorkerOK, Busy
  <2>3. CASE wk[x].pc \in {"recover", "resume"}
    BY <2>1, <2>3, Zenon DEF WorkerOK, Busy
  <2>4. CASE wk[x].pc \notin Busy \cup {"recover", "resume"}
    BY <2>1, <2>4, Zenon DEF WorkerOK, Busy
  <2>5. QED BY <2>2, <2>3, <2>4
<1>2. ASSUME NEW x \in Workers, wk'[x].pc \in Busy
      PROVE  wk[x].pc \in Busy /\ wk'[x].id = wk[x].id
  BY <1>2
<1>3. WorkInv'
  BY <1>1, <1>2 DEF WorkInv
<1>4. PhaseInv'
  <2>1. cr.mid \in 0 .. MaxRuns /\ obj.mid \in 0 .. MaxRuns
    BY Zenon DEF TypeOK, CRs
  <2>2. (cr.mid # 0 => cr.mid \in Ids) /\ (obj.mid # 0 => obj.mid \in Ids)
    BY <2>1, ReconcilerAssumption DEF Ids
  <2>3. SucceededIsTrue'
    BY DEF PhaseInv, SucceededIsTrue
  <2>4. QED BY <2>2, <2>3 DEF PhaseInv
<1>5. QED BY <1>3, <1>4

(* Apply returns: the run is in flight and its goroutine is about to watch. *)
LEMMA ApplyReturnsStep ==
  ASSUME IInv, NEW w \in Workers, ApplyReturns(w)
  PROVE  IInv'
<1>0. TypeOK /\ UserInv /\ LoopInv /\ MeetInv /\ WorkInv /\ RunInv /\ PhaseInv
  BY DEF IInv
<1>1. UNCHANGED <<cr, faults, created, shared, rpc, obj, tracked>>
  BY DEF ApplyReturns, workRest, loopVars
<1>2. wk \in [Workers -> WorkerType] /\ run \in [Ids -> RunType]
  BY <1>0, Zenon DEF TypeOK, WorkerType, RunType
<1>3. /\ wk[w].pc = "applied" /\ wk[w].id \in Ids /\ wk[w].last = ""
      /\ wk[w].uid # 0 /\ run[wk[w].id].uid = wk[w].uid /\ run[wk[w].id].out = ""
  BY <1>0, Zenon DEF ApplyReturns, WorkInv, WorkerOK, Busy
<1> DEFINE i == wk[w].id
           r == [run[i] EXCEPT !.inflight = TRUE]
           g == [wk[w] EXCEPT !.pc = "submitted"]
<1>4. /\ r \in RunType /\ r.uid = run[i].uid /\ r.out = run[i].out
      /\ r.dst = run[i].dst /\ r.handover = run[i].handover
  BY <1>2, <1>3, ZenonT(60) DEF RunType
<1>5. /\ g \in WorkerType /\ g.uid = wk[w].uid /\ g.pc = "submitted"
      /\ g.id = i /\ g.last = wk[w].last
  BY <1>2 DEF WorkerType
<1>6. /\ run' \in [Ids -> RunType]
      /\ run'[i] = r /\ \A j \in Ids \ {i} : run'[j] = run[j]
  BY <1>2, <1>3, <1>4, Zenon DEF RunType, ApplyReturns
<1>7. /\ wk' \in [Workers -> WorkerType]
      /\ wk'[w] = g /\ \A x \in Workers \ {w} : wk'[x] = wk[x]
      /\ \A x \in Workers : wk'[x].uid = wk[x].uid
  BY <1>2, <1>5 DEF WorkerType, ApplyReturns, Goto
<1>8. TypeOK'
  BY <1>0, <1>1, <1>6, <1>7, Zenon DEF TypeOK, WorkerType, RunType
<1>9. UserInv' /\ LoopInv' /\ MeetInv'
  BY <1>0, <1>1, <1>7, WorkerKeepsUsers
<1>10. \A j \in Ids : /\ run'[j].uid = run[j].uid /\ run'[j].out = run[j].out
                      /\ run'[j].handover = run[j].handover /\ run'[j].dst = run[j].dst
  BY <1>4, <1>6, Zenon
<1>11. WorkerOK(w)'
  <2>1. /\ wk'[w].pc = "submitted" /\ wk'[w].uid = wk[w].uid
        /\ wk'[w].id = wk[w].id /\ wk'[w].last = ""
    BY <1>3, <1>5, <1>7, Zenon
  <2>2. run'[wk[w].id].uid = wk[w].uid
    BY <1>3, <1>10, Zenon
  <2>3. QED BY <1>3, <2>1, <2>2, Zenon DEF WorkerOK, Busy
<1>12. WorkInv' /\ PhaseInv'
  BY <1>0, <1>1, <1>3, <1>5, <1>7, <1>10, <1>11, SameOwners, Zenon DEF Busy
<1>13. RunInv'
  <2>1. ASSUME NEW j \in Ids, run'[j].inflight
        PROVE  \E x \in Workers : wk'[x].pc \in Watching /\ wk'[x].id = j
    <3>1. CASE j = i
      BY <1>5, <1>7, <3>1, Zenon DEF Watching
    <3>2. CASE j # i
      <4>1. PICK x \in Workers : wk[x].pc \in Watching /\ wk[x].id = j
        BY <1>0, <1>6, <2>1, <3>2, Zenon DEF RunInv
      <4>2. QED BY <1>3, <1>7, <4>1, Zenon DEF Watching
    <3>3. QED BY <3>1, <3>2
  <2>2. ASSUME NEW j \in Ids, run'[j].inflight
        PROVE  run'[j].uid # 0 /\ run'[j].out = ""
    <3>1. CASE j = i
      BY <1>3, <1>10, <3>1, Zenon
    <3>2. CASE j # i
      BY <1>0, <1>6, <2>2, <3>2, Zenon DEF RunInv
    <3>3. QED BY <3>1, <3>2, Zenon
  <2>3. QED BY <1>0, <1>10, <2>1, <2>2, ZenonT(60) DEF RunInv
<1>14. QED BY <1>8, <1>9, <1>12, <1>13 DEF IInv

(* Resume creates at most the destination Job.                             *)
LEMMA ResumeStep ==
  ASSUME IInv, NEW w \in Workers, Resume(w)
  PROVE  IInv'
<1>0. TypeOK /\ UserInv /\ LoopInv /\ MeetInv /\ WorkInv /\ RunInv /\ PhaseInv
  BY DEF IInv
<1>1. UNCHANGED <<cr, faults, created, shared, rpc, obj, tracked>>
  BY DEF Resume, workRest, loopVars
<1>2. wk \in [Workers -> WorkerType] /\ run \in [Ids -> RunType]
  BY <1>0, Zenon DEF TypeOK, WorkerType, RunType
<1>3. wk[w].pc = "resume" /\ wk[w].id \in Ids
  BY <1>0, Zenon DEF Resume, WorkInv, WorkerOK
<1> DEFINE i == wk[w].id
           r == [run[i] EXCEPT !.dst = "active"]
           g == [wk[w] EXCEPT !.pc = "recover"]
<1>4. /\ r \in RunType /\ r.uid = run[i].uid /\ r.out = run[i].out /\ r.dst = "active"
      /\ r.inflight = run[i].inflight /\ r.handover = run[i].handover
  <2>1. run[i] \in RunType
    BY <1>2, <1>3
  <2>2. QED BY <2>1, Zenon DEF RunType
<1>5. g \in WorkerType /\ g.uid = wk[w].uid /\ g.pc = "recover" /\ g.id = i
  BY <1>2 DEF WorkerType
<1>6. run' = run \/ run' = [run EXCEPT ![i] = r]
  BY <1>2, <1>3, Zenon DEF Resume, RunType
<1>7. /\ wk' \in [Workers -> WorkerType]
      /\ wk'[w] = g /\ \A x \in Workers \ {w} : wk'[x] = wk[x]
      /\ \A x \in Workers : wk'[x].uid = wk[x].uid
  BY <1>2, <1>5 DEF WorkerType, Resume, Goto
<1>8. run' \in [Ids -> RunType]
  BY <1>2, <1>4, <1>6
<1>9. \A j \in Ids : /\ run'[j].uid = run[j].uid /\ run'[j].out = run[j].out
                     /\ run'[j].handover = run[j].handover
                     /\ run'[j].inflight = run[j].inflight
                     /\ run'[j].dst = run[j].dst \/ run'[j].dst = "active"
  BY <1>2, <1>4, <1>6, Zenon
<1>10. TypeOK'
  BY <1>0, <1>1, <1>8, <1>7, Zenon DEF TypeOK, WorkerType, RunType
<1>11. UserInv' /\ LoopInv' /\ MeetInv'
  BY <1>0, <1>1, <1>7, WorkerKeepsUsers
<1>12. WorkerOK(w) /\ wk[w].uid # 0
  BY <1>0, <1>3, Zenon DEF WorkInv, WorkerOK
<1>13. WorkerOK(w)'
  BY <1>1, <1>3, <1>5, <1>7, <1>9, <1>12 DEF WorkerOK, Busy
<1>14. WorkInv' /\ PhaseInv'
  BY <1>0, <1>1, <1>3, <1>5, <1>7, <1>9, <1>13, SameOwners, Zenon DEF Busy
<1>15. RunInv'
  <2>1. ASSUME NEW j \in Ids, run[j].inflight
        PROVE  \E x \in Workers : wk'[x].pc \in Watching /\ wk'[x].id = j
    <3>1. PICK x \in Workers : wk[x].pc \in Watching /\ wk[x].id = j
      BY <1>0, <2>1, Zenon DEF RunInv
    <3>2. QED BY <1>3, <1>7, <3>1 DEF Watching
  <2>2. QED BY <1>0, <1>9, <2>1, ZenonT(60) DEF RunInv
<1>16. QED BY <1>10, <1>11, <1>14, <1>15 DEF IInv

(* The deferred untrack drops the key, whoever holds it.                   *)
LEMMA UntrackStep ==
  ASSUME IInv, NEW w \in Workers, Untrack(w)
  PROVE  IInv'
<1>0. TypeOK /\ UserInv /\ LoopInv /\ MeetInv /\ WorkInv /\ RunInv /\ PhaseInv
  BY DEF IInv
<1>1. UNCHANGED <<cr, faults, created, shared, rpc, obj, run>> /\ ~tracked'
  BY DEF Untrack, userVars
<1>2. wk \in [Workers -> WorkerType]
  BY <1>0, Zenon DEF TypeOK, WorkerType
<1>3. Idle \in WorkerType /\ Idle.pc = "free" /\ Idle.uid = 0
  BY ReconcilerAssumption DEF Idle, WorkerType, Phases
<1>4. /\ wk' \in [Workers -> WorkerType]
      /\ wk'[w] = Idle /\ \A x \in Workers \ {w} : wk'[x] = wk[x]
  BY <1>2, <1>3 DEF Untrack
<1>5. wk[w].pc = "end" /\ wk[w].uid # 0
  BY <1>0, Zenon DEF Untrack, WorkInv, WorkerOK
<1>6. TypeOK'
  <2>1. tracked' \in BOOLEAN
    BY Zenon DEF Untrack
  <2>2. QED BY <1>0, <1>1, <1>4, <2>1, Zenon DEF TypeOK, WorkerType
<1>7. UserInv' /\ LoopInv'
  BY <1>0, <1>1, Zenon DEF UserInv, LoopInv
<1>8. MeetInv'
  <2>1. ASSUME NEW x \in Workers \ {w}, wk[x].uid # 0, Claimable(wk[x].uid)
        PROVE  wk[x].uid \in shared
    <3>1. CASE wk[w].uid = wk[x].uid
      BY <1>0, <2>1, <3>1 DEF MeetInv
    <3>2. CASE wk[w].uid # wk[x].uid
      BY <1>0, <1>5, <2>1, <3>2 DEF MeetInv, Claimable
    <3>3. QED BY <3>1, <3>2
  <2>2. 0 \in 0 .. created
    <3>1. created \in 0 .. MaxCRs
      BY <1>0, Zenon DEF TypeOK
    <3>2. QED BY <3>1, ReconcilerAssumption
  <2>3. \A x \in Workers : wk'[x].uid = 0 \/ (x # w /\ wk'[x].uid = wk[x].uid)
    BY <1>3, <1>4
  <2>4. ASSUME NEW x \in Workers
        PROVE  /\ wk'[x].uid \in 0 .. created
               /\ cr.uid # 0 /\ wk'[x].uid \notin {0, cr.uid} => cr.uid \in shared
               /\ rpc = "item" /\ wk'[x].uid \notin {0, obj.uid} => obj.uid \in shared
    BY <1>0, <2>2, <2>3 DEF MeetInv
  <2>5. ASSUME NEW x \in Workers, NEW y \in Workers,
               wk'[x].uid = wk'[y].uid /\ wk'[x].uid # 0
        PROVE  x = y \/ wk'[x].uid \in shared
    BY <1>0, <2>3, <2>5 DEF MeetInv
  <2>6. ASSUME NEW x \in Workers, wk'[x].uid # 0, Claimable(wk'[x].uid)
        PROVE  wk'[x].uid \in shared
    BY <2>1, <2>3, <2>6
  <2>7. QED BY <1>1, <2>4, <2>5, <2>6 DEF MeetInv, Claimable
<1>9. WorkerOK(w)'
  BY <1>3, <1>4, Zenon DEF WorkerOK, Busy
<1>10. WorkInv' /\ PhaseInv'
  BY <1>0, <1>1, <1>3, <1>4, <1>9, SameOwners DEF Busy
<1>11. RunInv'
  <2>1. ASSUME NEW j \in Ids, run[j].inflight
        PROVE  \E x \in Workers : wk'[x].pc \in Watching /\ wk'[x].id = j
    <3>1. PICK x \in Workers : wk[x].pc \in Watching /\ wk[x].id = j
      BY <1>0, <2>1, Zenon DEF RunInv
    <3>2. QED BY <1>4, <1>5, <3>1 DEF Watching
  <2>2. QED BY <1>0, <1>1, <2>1, Zenon DEF RunInv
<1>12. QED BY <1>6, <1>7, <1>8, <1>10, <1>11 DEF IInv

(* More Migrations in shared ask no more of the goroutines.                *)
LEMMA WorkersStay ==
  ASSUME WorkInv, RunInv, UNCHANGED <<wk, run>>, shared \subseteq shared'
  PROVE  WorkInv' /\ RunInv'
<1>1. WorkInv'
  BY Zenon DEF WorkInv, WorkerOK
<1>2. RunInv'
  BY Zenon DEF RunInv
<1>3. QED BY <1>1, <1>2

(* A Migration that can be claimed less often keeps MeetInv.               *)
LEMMA LessClaimable ==
  ASSUME MeetInv, UNCHANGED <<wk, tracked, shared, created>>, cr'.uid \in {0, cr.uid},
         rpc' = "item" => rpc = "item" /\ obj'.uid = obj.uid,
         \A u : Claimable(u)' => Claimable(u) \/ u = 0
  PROVE  MeetInv'
<1>1. ASSUME NEW w \in Workers
      PROVE  wk[w].uid # 0 /\ ~tracked /\ Claimable(wk[w].uid)' => wk[w].uid \in shared
  BY DEF MeetInv
<1>2. ASSUME NEW w \in Workers
      PROVE  /\ wk[w].uid \in 0 .. created
             /\ cr'.uid # 0 /\ wk[w].uid \notin {0, cr'.uid} => cr'.uid \in shared
             /\ rpc' = "item" /\ wk[w].uid \notin {0, obj'.uid} => obj'.uid \in shared
  BY DEF MeetInv
<1>3. QED BY <1>1, <1>2 DEF MeetInv, Claimable

(* The fields of no Migration                                              *)
LEMMA IdleItem ==
  /\ NoCR \in CRs /\ NoCR.uid = 0 /\ NoCR.mid = 0 /\ NoCR.phase = ""
  /\ ~NoCR.deleting /\ ~NoCR.finalizer
BY ReconcilerAssumption DEF NoCR, CRs, Phases

(* A Migration that is created has no goroutine yet.                       *)
LEMMA CreateStep ==
  ASSUME IInv, CreateMigration
  PROVE  IInv'
<1>0. TypeOK /\ UserInv /\ LoopInv /\ MeetInv /\ WorkInv /\ RunInv /\ PhaseInv
  BY DEF IInv
<1>1. UNCHANGED <<rpc, obj, tracked, wk, run, faults>>
  BY DEF CreateMigration, loopVars
<1>2. cr.uid = 0 /\ created' = created + 1
  BY DEF CreateMigration
<1>3. created \in 0 .. MaxCRs /\ created' \in 1 .. MaxCRs /\ created' # created
  <2>1. created \in 0 .. MaxCRs
    BY <1>0, Zenon DEF TypeOK
  <2>2. QED BY <2>1, ReconcilerAssumption DEF CreateMigration
<1>4. shared' = shared \cup {u \in {created'} : \E w \in Workers : wk[w].uid \notin {0, u}}
  BY DEF CreateMigration, Meets
<1>5. /\ cr'.uid = created' /\ ~cr'.deleting /\ ~cr'.finalizer /\ cr'.phase = ""
      /\ cr'.mid = 0
  BY Zenon DEF CreateMigration, NoCR
<1>6. TypeOK'
  <2>1. cr' \in CRs
    <3>1. NoCR \in CRs
      BY IdleItem, Zenon
    <3>2. cr' = [NoCR EXCEPT !.uid = created']
      BY DEF CreateMigration
    <3>3. created' \in 0 .. MaxCRs
      BY <1>3, ReconcilerAssumption
    <3>4. QED BY <3>1, <3>2, <3>3 DEF CRs
  <2>2. created' \in 0 .. MaxCRs
    BY <1>3, ReconcilerAssumption
  <2>3. shared' \subseteq 0 .. MaxCRs
    BY <1>0, <1>4, <2>2, Zenon DEF TypeOK
  <2>4. QED BY <1>0, <1>1, <1>5, <2>1, <2>2, <2>3, Zenon DEF TypeOK
<1>7. UserInv'
  BY <1>3, <1>5, Zenon DEF UserInv
<1>8. LoopInv'
  <2>1. rpc # "idle" => obj.uid \in 1 .. created' /\ ~obj.deleting
    <3>1. rpc # "idle" => obj.uid \in 1 .. created /\ obj.uid # 0
      BY <1>0, <1>3, ReconcilerAssumption DEF LoopInv
    <3>2. rpc # "idle" => obj.uid \in 1 .. created'
      BY <1>2, <1>3, <3>1, ReconcilerAssumption
    <3>3. QED BY <1>0, <1>2, <3>1, <3>2 DEF LoopInv
  <2>2. QED BY <1>0, <1>1, <2>1 DEF LoopInv
<1>9. MeetInv'
  <2>1. ASSUME NEW w \in Workers
        PROVE  wk[w].uid \in 0 .. created /\ wk[w].uid \in 0 .. created' /\ wk[w].uid # created'
    <3>1. wk[w].uid \in 0 .. created
      BY <1>0 DEF MeetInv
    <3>2. QED BY <1>2, <1>3, <3>1, ReconcilerAssumption
  <2>2. ASSUME NEW w \in Workers, wk[w].uid \notin {0, created'}
        PROVE  created' \in shared'
    BY <1>4, <2>2
  <2>3. ASSUME NEW w \in Workers, Claimable(wk[w].uid)'
        PROVE  Claimable(wk[w].uid)
    BY <1>1, <1>5, <2>1, <2>3, Zenon DEF Claimable
  <2>4. shared \subseteq shared'
    BY <1>4
  <2>5. ASSUME NEW w \in Workers
        PROVE  /\ rpc = "item" /\ wk[w].uid \notin {0, obj.uid} => obj.uid \in shared
               /\ wk[w].uid # 0 /\ ~tracked /\ Claimable(wk[w].uid)' => wk[w].uid \in shared
    BY <1>0, <2>3 DEF MeetInv
  <2>6. \A v, w \in Workers :
          wk[v].uid = wk[w].uid /\ wk[v].uid # 0 => v = w \/ wk[v].uid \in shared
    BY <1>0 DEF MeetInv
  <2>7. QED BY <1>1, <1>5, <2>1, <2>2, <2>4, <2>5, <2>6, Zenon DEF MeetInv, Claimable
<1>10. WorkInv' /\ RunInv'
  BY <1>0, <1>1, <1>4, WorkersStay
<1>11. PhaseInv'
  BY <1>0, <1>1, <1>4, <1>5, Zenon DEF PhaseInv, SucceededIsTrue
<1>12. QED BY <1>6, <1>7, <1>8, <1>9, <1>10, <1>11 DEF IInv

(* A Migration is deleted at once, or marked.                              *)
LEMMA DeleteStep ==
  ASSUME IInv, DeleteMigration
  PROVE  IInv'
<1>0. TypeOK /\ UserInv /\ LoopInv /\ MeetInv /\ WorkInv /\ RunInv /\ PhaseInv
  BY DEF IInv
<1>1. UNCHANGED <<created, shared, rpc, obj, tracked, wk, run, faults>>
  BY DEF DeleteMigration, loopVars
<1>2. cr.uid # 0 /\ ~cr.deleting
  BY DEF DeleteMigration
<1>3. /\ cr' \in CRs
      /\ \/ /\ cr'.uid = cr.uid /\ cr'.deleting /\ cr'.finalizer
            /\ cr'.phase = cr.phase /\ cr'.mid = cr.mid
         \/ /\ cr'.uid = 0 /\ ~cr'.deleting /\ cr'.phase = "" /\ cr'.mid = 0
  <2>1. cr \in CRs
    BY <1>0, Zenon DEF TypeOK
  <2>2. CASE cr.finalizer
    <3>1. cr' = [cr EXCEPT !.deleting = TRUE]
      BY <2>2 DEF DeleteMigration
    <3>2. cr' \in CRs
      BY <2>1, <3>1, Zenon DEF CRs
    <3>3. QED BY <2>1, <2>2, <3>1, <3>2 DEF CRs
  <2>3. CASE ~cr.finalizer
    BY <2>3, IdleItem, Zenon DEF DeleteMigration
  <2>4. QED BY <2>2, <2>3, Zenon
<1>4. TypeOK'
  BY <1>0, <1>1, <1>3, Zenon DEF TypeOK
<1>5. UserInv'
  BY <1>0, <1>1, <1>3, Zenon DEF UserInv
<1>6. LoopInv'
  BY <1>0, <1>1, <1>2 DEF LoopInv
<1>7. MeetInv'
  <2>1. \A u : Claimable(u)' => Claimable(u) \/ u = 0
    BY <1>1, <1>3, Zenon DEF Claimable
  <2>2. cr'.uid \in {0, cr.uid}
    BY <1>3, Zenon
  <2>3. QED BY <1>0, <1>1, <2>1, <2>2, LessClaimable
<1>8. WorkInv' /\ RunInv'
  BY <1>0, <1>1, WorkersStay
<1>9. PhaseInv'
  BY <1>0, <1>1, <1>3, Zenon DEF PhaseInv, SucceededIsTrue
<1>10. QED BY <1>4, <1>5, <1>6, <1>7, <1>8, <1>9 DEF IInv

(* The List takes a copy of the Migration.                                 *)
LEMMA ListStep ==
  ASSUME IInv, List
  PROVE  IInv'
<1>0. TypeOK /\ UserInv /\ LoopInv /\ MeetInv /\ WorkInv /\ RunInv /\ PhaseInv
  BY DEF IInv
<1>1. UNCHANGED <<cr, created, shared, tracked, wk, run, faults>>
  BY DEF List, userVars
<1>2. rpc = "idle" /\ cr.uid # 0 /\ rpc' = "item" /\ obj' = [cr EXCEPT !.phase = Looked(cr.phase)]
  BY DEF List
<1>a. /\ obj' \in CRs /\ obj'.uid = cr.uid /\ obj'.mid = cr.mid /\ obj'.deleting = cr.deleting
      /\ obj'.phase \in {"submitted", "transferring"} => cr.phase \in {"submitted", "transferring"}
  <2>1. cr \in CRs
    BY <1>0, Zenon DEF TypeOK
  <2>2. /\ Looked(cr.phase) \in Phases
        /\ Looked(cr.phase) \in {"submitted", "transferring"} =>
             cr.phase \in {"submitted", "transferring"}
    BY <2>1 DEF CRs, Looked, IsTerminal, Phases
  <2>3. QED BY <1>2, <2>1, <2>2 DEF CRs
<1>3. TypeOK'
  BY <1>0, <1>1, <1>2, <1>a, Zenon DEF TypeOK
<1>4. UserInv'
  BY <1>0, <1>1, Zenon DEF UserInv
<1>5. LoopInv'
  <2>1. created \in 0 .. MaxCRs
    BY <1>0, Zenon DEF TypeOK
  <2>2. cr.uid \in 1 .. created
    <3>1. cr.uid = created
      BY <1>0, <1>2, Zenon DEF UserInv
    <3>2. created # 0
      BY <1>2, <3>1
    <3>3. QED BY <2>1, <3>1, <3>2, ReconcilerAssumption
  <2>3. cr.phase \in {"submitted", "transferring"} => cr.mid # 0
    BY <1>0, Zenon DEF TypeOK
  <2>4. cr.uid # 0
    BY <1>2
  <2>5. QED BY <1>1, <1>2, <1>a, <2>2, <2>3, <2>4 DEF LoopInv
<1>6. MeetInv'
  <2>1. ASSUME NEW w \in Workers
        PROVE  wk[w].uid # 0 /\ ~tracked /\ Claimable(wk[w].uid)' => wk[w].uid \in shared
    <3>1. Claimable(wk[w].uid)' => Claimable(wk[w].uid)
      BY <1>1, <1>2, <1>a DEF Claimable
    <3>2. QED BY <1>0, <3>1 DEF MeetInv
  <2>2. ASSUME NEW w \in Workers
        PROVE  /\ wk[w].uid \in 0 .. created
               /\ wk[w].uid \notin {0, cr.uid} => cr.uid \in shared
    BY <1>0, <1>2 DEF MeetInv
  <2>3. \A v, w \in Workers :
          wk[v].uid = wk[w].uid /\ wk[v].uid # 0 => v = w \/ wk[v].uid \in shared
    BY <1>0 DEF MeetInv
  <2>4. QED BY <1>1, <1>2, <1>a, <2>1, <2>2, <2>3 DEF MeetInv, Claimable
<1>7. WorkInv' /\ RunInv'
  BY <1>0, <1>1, WorkersStay
<1>8. PhaseInv'
  BY <1>0, <1>1, <1>a DEF PhaseInv, SucceededIsTrue
<1>9. QED BY <1>3, <1>4, <1>5, <1>6, <1>7, <1>8 DEF IInv

(* The finalizer is put on whatever Migration has the name now.            *)
LEMMA AddFinalizerStep ==
  ASSUME IInv, AddFinalizer
  PROVE  IInv'
<1>0. TypeOK /\ UserInv /\ LoopInv /\ MeetInv /\ WorkInv /\ RunInv /\ PhaseInv
  BY DEF IInv
<1>1. UNCHANGED <<created, shared, tracked, wk, run>>
  BY DEF AddFinalizer
<1>2. rpc = "item" /\ ~obj.deleting /\ cr \in CRs /\ obj \in CRs
  BY <1>0, Zenon DEF AddFinalizer, TypeOK
<1>3. /\ cr' \in CRs /\ cr'.uid = cr.uid /\ cr'.phase = cr.phase /\ cr'.mid = cr.mid
      /\ cr'.deleting = cr.deleting /\ (cr'.deleting => cr'.finalizer)
      /\ faults' \in 0 .. MaxFaults
  <2>1. CASE ~cr.deleting /\ Patch([cr EXCEPT !.finalizer = TRUE])
    <3>1. cr' = [cr EXCEPT !.finalizer = TRUE] /\ faults' = faults
      BY <2>1 DEF Patch
    <3>2. faults' \in 0 .. MaxFaults
      BY <1>0, <3>1, Zenon DEF TypeOK
    <3>3. QED BY <1>2, <2>1, <3>1, <3>2, Zenon DEF CRs
  <2>2. CASE PatchFails
    <3>1. cr' = cr
      BY <2>2 DEF PatchFails
    <3>2. faults' \in 0 .. MaxFaults
      BY <1>0, <2>2, FailureCounted
    <3>3. QED BY <1>0, <1>2, <3>1, <3>2, Zenon DEF UserInv
  <2>3. CASE UNCHANGED <<cr, faults>>
    BY <1>0, <1>2, <2>3, Zenon DEF UserInv, TypeOK
  <2>4. QED BY <2>1, <2>2, <2>3 DEF AddFinalizer
<1>4. /\ obj' \in CRs
      /\ \/ /\ rpc' = "item" /\ ~obj'.deleting
            /\ obj'.uid = obj.uid /\ obj'.mid = obj.mid /\ obj'.phase = obj.phase
         \/ rpc' = "idle" /\ obj' = NoCR
  <2>1. CASE obj' = [obj EXCEPT !.finalizer = TRUE] /\ rpc' = rpc
    BY <1>2, <2>1, Zenon DEF CRs
  <2>2. CASE ItemDone
    BY <2>2, IdleItem, Zenon DEF ItemDone
  <2>3. QED BY <2>1, <2>2 DEF AddFinalizer
<1>5. TypeOK'
  BY <1>0, <1>1, <1>3, <1>4, Zenon DEF TypeOK
<1>6. UserInv'
  BY <1>0, <1>1, <1>3, Zenon DEF UserInv
<1>7. LoopInv'
  BY <1>0, <1>1, <1>2, <1>4, IdleItem, Zenon DEF LoopInv
<1>8. MeetInv'
  <2>1. \A u : Claimable(u)' => Claimable(u) \/ u = 0
    BY <1>2, <1>3, <1>4 DEF Claimable
  <2>2. QED BY <1>0, <1>1, <1>2, <1>3, <1>4, <2>1, LessClaimable
<1>9. WorkInv' /\ RunInv'
  BY <1>0, <1>1, WorkersStay
<1>10. PhaseInv'
  BY <1>0, <1>1, <1>3, <1>4, IdleItem, Zenon DEF PhaseInv, SucceededIsTrue
<1>11. QED BY <1>5, <1>6, <1>7, <1>8, <1>9, <1>10 DEF IInv

(* markTracking and the goroutine it admits                                *)
LEMMA ReconcileItemStep ==
  ASSUME IInv, ReconcileItem
  PROVE  IInv'
<1>0. TypeOK /\ UserInv /\ LoopInv /\ MeetInv /\ WorkInv /\ RunInv /\ PhaseInv
  BY DEF IInv
<1>1. UNCHANGED <<cr, created, run, faults>> /\ rpc' = "idle" /\ obj' = NoCR
  BY DEF ReconcileItem, ItemDone
<1>2. rpc = "item" /\ ~obj.deleting /\ obj \in CRs /\ wk \in [Workers -> WorkerType]
  BY <1>0, Zenon DEF ReconcileItem, TypeOK, WorkerType
<1>3. UserInv' /\ LoopInv'
  BY <1>0, <1>1, IdleItem, Zenon DEF UserInv, LoopInv
<1>4. \A u : Claimable(u)' => Claimable(u) \/ u = 0
  BY <1>1 DEF Claimable
<1>5. CASE UNCHANGED <<tracked, wk, shared>>
  <2>1. TypeOK'
    BY <1>0, <1>1, <1>5, IdleItem, Zenon DEF TypeOK
  <2>2. MeetInv'
    BY <1>0, <1>1, <1>4, <1>5, LessClaimable
  <2>3. WorkInv' /\ RunInv'
    BY <1>0, <1>1, <1>5, WorkersStay
  <2>4. PhaseInv'
    BY <1>0, <1>1, <1>5, IdleItem, Zenon DEF PhaseInv, SucceededIsTrue
  <2>5. QED BY <1>3, <2>1, <2>2, <2>3, <2>4 DEF IInv
<1>6. CASE ~IsTerminal(obj.phase) /\ (\E w \in Workers : Claim(w)) /\ Meets(cr.uid, wk')
  <2>1. PICK w \in Workers : Claim(w)
    BY <1>6
  <2> DEFINE g == IF obj.phase = ""
                  THEN [Idle EXCEPT !.pc = "dispatch", !.uid = obj.uid]
                  ELSE [Idle EXCEPT !.pc = "recover", !.uid = obj.uid, !.id = obj.mid]
  <2>2. wk[w].pc = "free" /\ ~tracked /\ tracked' = TRUE /\ wk' = [wk EXCEPT ![w] = g]
    BY <2>1, Zenon DEF Claim
  <2>3. /\ g \in WorkerType /\ g.uid = obj.uid /\ g.last = ""
        /\ \/ g.pc = "dispatch"
           \/ g.pc = "recover" /\ g.id = obj.mid /\ obj.phase # ""
    <3>1. obj.uid \in 0 .. MaxCRs /\ obj.mid \in 0 .. MaxRuns /\ 0 \in 0 .. MaxRuns
      BY <1>2, ReconcilerAssumption DEF CRs
    <3>2. CASE obj.phase = ""
      BY <3>1, <3>2, Zenon DEF Idle, WorkerType, Phases
    <3>3. CASE obj.phase # ""
      BY <3>1, <3>3, Zenon DEF Idle, WorkerType, Phases
    <3>4. QED BY <3>2, <3>3, Zenon
  <2>4. obj.uid \in 1 .. created /\ obj.uid # 0
    <3>1. created \in 0 .. MaxCRs
      BY <1>0, Zenon DEF TypeOK
    <3>2. obj.uid \in 1 .. created
      BY <1>0, <1>2 DEF LoopInv
    <3>3. QED BY <3>1, <3>2, ReconcilerAssumption
  <2>5. /\ wk' \in [Workers -> WorkerType]
        /\ wk'[w] = g /\ \A x \in Workers \ {w} : wk'[x] = wk[x]
    BY <1>2, <2>2, <2>3, Zenon
  <2>6. wk[w].uid = 0
    BY <1>0, <2>2, Zenon DEF WorkInv, WorkerOK
  <2>7. shared' = shared \cup {u \in {cr.uid} : \E x \in Workers : wk'[x].uid \notin {0, u}}
    BY <1>6 DEF Meets
  <2>8. TypeOK'
    <3>1. shared' \subseteq 0 .. MaxCRs
      BY <1>0, <2>7, Zenon DEF TypeOK, CRs
    <3>2. QED BY <1>0, <1>1, <2>2, <2>5, <3>1, IdleItem, Zenon DEF TypeOK, WorkerType
  <2>9. MeetInv'
    <3>1. ASSUME NEW x \in Workers
          PROVE  /\ wk'[x].uid \in 0 .. created
                 /\ cr.uid # 0 /\ wk'[x].uid \notin {0, cr.uid} => cr.uid \in shared'
      <4>1. wk'[x].uid \in 0 .. created
        <5>1. wk[x].uid \in 0 .. created
          BY <1>0 DEF MeetInv
        <5>2. obj.uid \in 0 .. created
          BY <2>4
        <5>3. QED BY <2>3, <2>5, <5>1, <5>2, Zenon
      <4>2. QED BY <2>7, <4>1
    <3>2. ASSUME NEW x \in Workers \ {w}, wk[x].uid = obj.uid
          PROVE  obj.uid \in shared
      BY <1>0, <1>2, <2>2, <2>4, <3>2, Zenon DEF MeetInv, Claimable
    <3>3. ASSUME NEW x \in Workers, NEW y \in Workers,
                 wk'[x].uid = wk'[y].uid /\ wk'[x].uid # 0
          PROVE  x = y \/ wk'[x].uid \in shared'
      <4>1. CASE x # w /\ y # w
        BY <1>0, <2>5, <2>7, <3>3, <4>1, ZenonT(60) DEF MeetInv
      <4>2. CASE (x = w /\ y # w) \/ (x # w /\ y = w)
        <5>0. wk'[w].uid = obj.uid
          BY <2>3, <2>5, Zenon
        <5>1. wk'[x].uid = obj.uid /\ wk'[y].uid = obj.uid
          BY <3>3, <4>2, <5>0
        <5>2. obj.uid \in shared
          BY <2>5, <3>2, <4>2, <5>1, Zenon
        <5>3. QED BY <2>7, <5>1, <5>2
      <4>3. QED BY <4>1, <4>2
    <3>4. QED BY <1>1, <2>2, <3>1, <3>3, Zenon DEF MeetInv
  <2>10. WorkerOK(w)'
    <3>1. CASE g.pc = "dispatch"
      BY <2>3, <2>4, <2>5, <3>1, Zenon DEF WorkerOK, Busy
    <3>2. CASE g.pc = "recover" /\ g.id = obj.mid /\ obj.phase # ""
      <4>1. obj.mid # 0
        <5>1. obj.phase \in Phases
          BY <1>2 DEF CRs
        <5>2. obj.phase \in {"submitted", "transferring"}
          BY <1>6, <3>2, <5>1, Zenon DEF Phases, IsTerminal
        <5>3. QED BY <1>0, <5>2 DEF LoopInv
      <4>2. obj.mid \in 0 .. MaxRuns
        BY <1>2 DEF CRs
      <4>3. obj.mid \in Ids
        BY <4>1, <4>2, ReconcilerAssumption DEF Ids
      <4>4. obj.uid \notin shared' => run[obj.mid].uid = obj.uid
        BY <1>0, <2>7, <4>1 DEF PhaseInv
      <4>5. QED BY <1>1, <2>3, <2>4, <2>5, <3>2, <4>3, <4>4, Zenon DEF WorkerOK, Busy
    <3>3. QED BY <2>3, <3>1, <3>2, Zenon
  <2>11. WorkInv'
    <3>1. ASSUME NEW x \in Workers \ {w}
          PROVE  WorkerOK(x)'
      <4>1. wk'[x] = wk[x] /\ WorkerOK(x)
        BY <1>0, <2>5, Zenon DEF WorkInv
      <4>2. QED BY <1>1, <2>7, <4>1, Zenon DEF WorkerOK
    <3>2. wk'[w].pc \notin Busy
      BY <2>3, <2>5, Zenon DEF Busy
    <3>3. QED BY <1>0, <2>5, <2>10, <3>1, <3>2, Zenon DEF WorkInv
  <2>12. RunInv'
    <3>1. ASSUME NEW j \in Ids, run[j].inflight
          PROVE  \E x \in Workers : wk'[x].pc \in Watching /\ wk'[x].id = j
      <4>1. PICK x \in Workers : wk[x].pc \in Watching /\ wk[x].id = j
        BY <1>0, <3>1, Zenon DEF RunInv
      <4>2. QED BY <2>2, <2>5, <4>1, Zenon DEF Watching
    <3>2. QED BY <1>0, <1>1, <3>1, Zenon DEF RunInv
  <2>13. PhaseInv'
    BY <1>0, <1>1, <2>7, IdleItem, Zenon DEF PhaseInv, SucceededIsTrue
  <2>14. QED BY <1>3, <2>8, <2>9, <2>11, <2>12, <2>13 DEF IInv
<1>7. QED BY <1>5, <1>6 DEF ReconcileItem

(* handleDeletion: Stop, the key, the finalizer                            *)
LEMMA HandleDeletionStep ==
  ASSUME IInv, StopRun \/ UntrackDeleted \/ RemoveFinalizer
  PROVE  IInv'
<1>0. TypeOK /\ UserInv /\ LoopInv /\ MeetInv /\ WorkInv /\ RunInv /\ PhaseInv
  BY DEF IInv
<1>1. CASE StopRun
  <2>1. /\ UNCHANGED <<cr, created, shared, obj, tracked, wk>>
        /\ rpc = "item" /\ rpc' = "untrack" /\ obj.deleting
    BY <1>1, Zenon DEF StopRun, userVars
  <2>2. run \in [Ids -> RunType] /\ faults \in 0 .. MaxFaults
    BY <1>0, Zenon DEF TypeOK, RunType
  <2>3. /\ run' \in [Ids -> RunType]
        /\ \A i \in Ids : run'[i] \in RunType /\ RunMoves(i, run'[i])
    <3>1. CASE UNCHANGED run
      BY <1>0, <2>2, <3>1, Zenon DEF RunMoves, RunInv
    <3>2. CASE /\ obj.mid \in Ids /\ run[obj.mid].inflight
               /\ \E left \in SUBSET {"src", "dst"} :
                    run' = [run EXCEPT ![obj.mid] = Stopped(@, left)]
      <4>1. PICK left \in SUBSET {"src", "dst"} : run' = [run EXCEPT ![obj.mid] = Stopped(@, left)]
        BY <3>2
      <4> DEFINE r == Stopped(run[obj.mid], left)
      <4>2. run[obj.mid] \in RunType
        BY <2>2, <3>2
      <4>3. r \in RunType
        BY <4>2, Zenon DEF RunType, Stopped
      <4>4. /\ r.uid = run[obj.mid].uid /\ ~r.inflight /\ r.handover = run[obj.mid].handover
            /\ r.out = "failed" /\ r.dst \in {run[obj.mid].dst, "absent"}
        BY <4>2, Zenon DEF RunType, Stopped
      <4>5. RunMoves(obj.mid, r)
        BY <1>0, <3>2, <4>4 DEF RunMoves, RunInv
      <4>6. run' = [run EXCEPT ![obj.mid] = r]
        BY <4>1, Zenon
      <4>7. run' \in [Ids -> RunType] /\ run'[obj.mid] = r
        BY <2>2, <3>2, <4>3, <4>6, Zenon
      <4>8. ASSUME NEW i \in Ids, i # obj.mid
            PROVE  RunMoves(i, run'[i])
        <5>1. run'[i] = run[i]
          BY <2>2, <4>6, <4>8, Zenon
        <5>2. QED BY <1>0, <5>1, Zenon DEF RunMoves, RunInv
      <4>9. QED BY <4>5, <4>7, <4>8, Zenon
    <3>3. QED BY <1>1, <3>1, <3>2, Zenon DEF StopRun
  <2>4. faults' \in 0 .. MaxFaults
    <3>1. Fault \/ faults' = faults
      BY <1>1, Zenon DEF StopRun
    <3>2. QED BY <2>2, <3>1, ReconcilerAssumption DEF Fault
  <2>5. TypeOK'
    BY <1>0, <2>1, <2>3, <2>4, Zenon DEF TypeOK, RunType
  <2>6. UserInv' /\ LoopInv'
    BY <1>0, <2>1, Zenon DEF UserInv, LoopInv
  <2>7. \A u : Claimable(u)' => Claimable(u) \/ u = 0
    BY <2>1 DEF Claimable
  <2>8. MeetInv'
    BY <1>0, <2>1, <2>7, LessClaimable
  <2>9. WorkInv' /\ RunInv' /\ PhaseInv'
    BY <2>1, <2>3, RunsMove
  <2>10. QED BY <2>5, <2>6, <2>8, <2>9 DEF IInv
<1>2. CASE UntrackDeleted
  <2>1. /\ UNCHANGED <<cr, created, shared, obj, wk, run, faults>>
        /\ rpc = "untrack" /\ rpc' = "unfinal"
    BY <1>2 DEF UntrackDeleted, userVars
  <2>2. tracked' \in BOOLEAN
    BY <1>2, Zenon DEF UntrackDeleted
  <2>3. TypeOK'
    BY <1>0, <2>1, <2>2, Zenon DEF TypeOK
  <2>4. UserInv' /\ LoopInv'
    BY <1>0, <2>1, Zenon DEF UserInv, LoopInv
  <2>5. cr.deleting
    BY <1>0, <2>1 DEF LoopInv
  <2>6. \A u : ~Claimable(u)'
    BY <2>1, <2>5 DEF Claimable
  <2>7. MeetInv'
    BY <1>0, <2>1, <2>6 DEF MeetInv
  <2>8. WorkInv' /\ RunInv'
    BY <1>0, <2>1, WorkersStay
  <2>9. PhaseInv'
    BY <1>0, <2>1 DEF PhaseInv, SucceededIsTrue
  <2>10. QED BY <2>3, <2>4, <2>7, <2>8, <2>9 DEF IInv
<1>3. CASE RemoveFinalizer
  <2>1. /\ UNCHANGED <<created, shared, tracked, wk, run>>
        /\ rpc = "unfinal" /\ rpc' = "idle" /\ obj' = NoCR
    BY <1>3 DEF RemoveFinalizer, ItemDone
  <2>2. cr.deleting /\ cr \in CRs
    BY <1>0, <2>1, Zenon DEF LoopInv, TypeOK
  <2>3. (cr' = NoCR \/ cr' = cr) /\ faults' \in 0 .. MaxFaults
    <3>1. CASE Patch(IF cr.deleting THEN NoCR ELSE [cr EXCEPT !.finalizer = FALSE])
      BY <1>0, <2>2, <3>1, Zenon DEF Patch, TypeOK
    <3>2. CASE PatchFails
      <4>1. cr' = cr
        BY <3>2 DEF PatchFails
      <4>2. faults' \in 0 .. MaxFaults
        BY <1>0, <3>2, FailureCounted
      <4>3. QED BY <4>1, <4>2
    <3>3. QED BY <1>3, <3>1, <3>2 DEF RemoveFinalizer
  <2>4. TypeOK'
    BY <1>0, <2>1, <2>2, <2>3, IdleItem, Zenon DEF TypeOK
  <2>5. UserInv' /\ LoopInv'
    BY <1>0, <2>1, <2>3, IdleItem, Zenon DEF UserInv, LoopInv
  <2>6. \A u : Claimable(u)' => Claimable(u) \/ u = 0
    BY <2>1, <2>3, IdleItem, Zenon DEF Claimable
  <2>7. MeetInv'
    BY <1>0, <2>1, <2>3, <2>6, IdleItem, LessClaimable, Zenon
  <2>8. WorkInv' /\ RunInv'
    BY <1>0, <2>1, WorkersStay
  <2>9. PhaseInv'
    BY <1>0, <2>1, <2>3, IdleItem, Zenon DEF PhaseInv, SucceededIsTrue
  <2>10. QED BY <2>4, <2>5, <2>7, <2>8, <2>9 DEF IInv
<1>4. QED BY <1>1, <1>2, <1>3

(* A restart leaves no goroutine and no run in flight.                     *)
LEMMA RestartStep ==
  ASSUME IInv, Restart
  PROVE  IInv'
<1>0. TypeOK /\ UserInv /\ RunInv /\ PhaseInv /\ MeetInv
  BY DEF IInv
<1>1. UNCHANGED <<cr, created, shared>> /\ rpc' = "idle" /\ obj' = NoCR
  BY DEF Restart, userVars
<1>2. run \in [Ids -> RunType] /\ created \in 0 .. MaxCRs /\ faults \in 0 .. MaxFaults
  BY <1>0, Zenon DEF TypeOK, RunType
<1>3. /\ Idle \in WorkerType /\ Idle.pc = "free" /\ Idle.uid = 0 /\ Idle.last = ""
      /\ 0 \in 0 .. created
  BY <1>2, ReconcilerAssumption DEF Idle, WorkerType, Phases
<1>4. wk' \in [Workers -> WorkerType] /\ \A w \in Workers : wk'[w] = Idle
  BY <1>3, Zenon DEF Restart
<1>5. faults' \in 0 .. MaxFaults
  BY <1>2, ReconcilerAssumption DEF Restart, Fault
<1>6. ASSUME NEW i \in Ids
      PROVE  /\ run'[i] \in RunType /\ ~run'[i].inflight
             /\ run'[i].uid = run[i].uid /\ run'[i].out = run[i].out
             /\ run'[i].dst = run[i].dst /\ run'[i].handover = run[i].handover
  <2>1. run[i] \in RunType
    BY <1>2
  <2>2. run'[i] = [run[i] EXCEPT !.inflight = FALSE]
    BY DEF Restart
  <2>3. QED BY <2>1, <2>2, Zenon DEF RunType
<1>7. run' \in [Ids -> RunType]
  <2>1. run' = [i \in Ids |-> run'[i]]
    BY DEF Restart
  <2>2. QED BY <1>6, <2>1
<1>8. TypeOK'
  <2>1. tracked' \in BOOLEAN
    BY Zenon DEF Restart
  <2>2. QED BY <1>0, <1>1, <1>4, <1>5, <1>7, <2>1, IdleItem, Zenon DEF TypeOK, WorkerType, RunType
<1>9. UserInv' /\ LoopInv'
  BY <1>0, <1>1, IdleItem, Zenon DEF UserInv, LoopInv
<1>10. MeetInv'
  BY <1>1, <1>3, <1>4, Zenon DEF MeetInv
<1>11. WorkInv'
  BY <1>3, <1>4, Zenon DEF WorkInv, WorkerOK, Busy
<1>12. RunInv'
  BY <1>0, <1>6, Zenon DEF RunInv
<1>13. PhaseInv'
  <2>1. cr.mid \in 0 .. MaxRuns
    BY <1>0, Zenon DEF TypeOK, CRs
  <2>2. cr.mid # 0 => cr.mid \in Ids
    BY <2>1, ReconcilerAssumption DEF Ids
  <2>3. SucceededIsTrue'
    BY <1>0, <1>1, <1>6 DEF PhaseInv, SucceededIsTrue
  <2>4. QED BY <1>0, <1>1, <1>6, <2>2, <2>3, IdleItem, Zenon DEF PhaseInv
<1>14. QED BY <1>8, <1>9, <1>10, <1>11, <1>12, <1>13 DEF IInv

(* The first state                                                         *)
LEMMA InitInductive == Init => IInv
<1> SUFFICES ASSUME Init PROVE IInv
  OBVIOUS
<1>1. /\ Idle \in WorkerType /\ Idle.pc = "free" /\ Idle.uid = 0 /\ Idle.last = ""
  BY ReconcilerAssumption DEF Idle, WorkerType, Phases
<1>2. /\ NoRun \in RunType /\ NoRun.uid = 0 /\ NoRun.out = "" /\ ~NoRun.inflight
      /\ NoRun.dst = "absent"
  BY ReconcilerAssumption DEF NoRun, RunType
<1>3. /\ cr = NoCR /\ created = 0 /\ shared = {} /\ rpc = "idle" /\ obj = NoCR
      /\ faults = 0
  BY DEF Init
<1>4. wk \in [Workers -> WorkerType] /\ \A w \in Workers : wk[w] = Idle
  BY <1>1, Zenon DEF Init
<1>5. run \in [Ids -> RunType] /\ \A i \in Ids : run[i] = NoRun
  BY <1>2, Zenon DEF Init
<1>6. tracked \in BOOLEAN
  BY Zenon DEF Init
<1>7. 0 \in 0 .. MaxCRs /\ 0 \in 0 .. MaxFaults
  BY ReconcilerAssumption
<1>8. TypeOK
  BY <1>3, <1>4, <1>5, <1>6, <1>7, IdleItem, Zenon DEF TypeOK, WorkerType, RunType
<1>9. UserInv /\ LoopInv
  BY <1>3, IdleItem, Zenon DEF UserInv, LoopInv
<1>10. MeetInv
  <2>1. 0 \in 0 .. created
    BY <1>3
  <2>2. QED BY <1>1, <1>4, <2>1, Zenon DEF MeetInv
<1>11. WorkInv
  BY <1>1, <1>4, Zenon DEF WorkInv, WorkerOK, Busy
<1>12. RunInv
  BY <1>2, <1>5, Zenon DEF RunInv
<1>13. PhaseInv
  BY <1>3, IdleItem, Zenon DEF PhaseInv, SucceededIsTrue
<1>14. QED BY <1>8, <1>9, <1>10, <1>11, <1>12, <1>13 DEF IInv

(* A step of something else                                                *)
LEMMA StutterInductive == IInv /\ UNCHANGED vars => IInv'
<1> SUFFICES ASSUME IInv, UNCHANGED vars PROVE IInv'
  OBVIOUS
<1>0. TypeOK /\ UserInv /\ LoopInv /\ MeetInv /\ WorkInv /\ RunInv /\ PhaseInv
  BY DEF IInv
<1>1. UNCHANGED <<cr, created, shared, rpc, obj, tracked, wk, run, faults>>
  BY DEF vars, userVars, loopVars
<1>2. TypeOK'
  BY <1>0, <1>1, Zenon DEF TypeOK
<1>3. UserInv' /\ LoopInv' /\ MeetInv'
  BY <1>0, <1>1, WorkerKeepsUsers
<1>4. WorkInv' /\ RunInv'
  BY <1>0, <1>1, WorkersStay, Zenon
<1>5. PhaseInv'
  BY <1>0, <1>1 DEF PhaseInv, SucceededIsTrue
<1>6. QED BY <1>2, <1>3, <1>4, <1>5 DEF IInv

(* The inductive invariant holds.                                          *)
THEOREM Inductive == Spec => []IInv
<1>1. IInv /\ [Next]_vars => IInv'
  <2> SUFFICES ASSUME IInv, [Next]_vars PROVE IInv'
    OBVIOUS
  <2>1. CASE CreateMigration BY <2>1, CreateStep
  <2>2. CASE DeleteMigration BY <2>2, DeleteStep
  <2>3. CASE Loop
    BY <2>3, ListStep, AddFinalizerStep, ReconcileItemStep, HandleDeletionStep DEF Loop
  <2>4. ASSUME NEW w \in Workers, Work(w) PROVE IInv'
    BY <2>4, ReportsStep, ApplySubmitsStep, ApplyReturnsStep, ResumeStep, UntrackStep DEF Work
  <2>5. ASSUME NEW i \in Ids, Cluster(i) PROVE IInv'
    BY <2>5, ClusterStep
  <2>6. CASE Restart BY <2>6, RestartStep
  <2>7. CASE UNCHANGED vars BY <2>7, StutterInductive
  <2>8. QED BY <2>1, <2>2, <2>3, <2>4, <2>5, <2>6, <2>7 DEF Next
<1>2. QED BY <1>1, InitInductive, PTL DEF Spec

(* TypeOK of the controller: a phase that is not terminal always comes with *)
(* the id that recover needs, whichever patches failed (reconciler.go:740). *)
THEOREM ControllerTyping == Spec => []TypeOK
<1>1. IInv => TypeOK
  BY DEF IInv
<1>2. QED BY <1>1, Inductive, PTL

(* markTracking (reconciler.go:252) keeps every Migration to one run in    *)
(* flight, for any number of goroutines, Migrations and restarts, unless it *)
(* met a goroutine of another Migration of its name.                       *)
THEOREM OneRunPerMigration == Spec => []OneRunInFlight
<1>1. IInv => OneRunInFlight
  <2> SUFFICES ASSUME IInv, NEW i \in Ids, NEW j \in Ids,
                      run[i].inflight, run[j].inflight, run[i].uid = run[j].uid,
                      run[i].uid \notin shared
               PROVE  i = j
    BY DEF OneRunInFlight
  <2>1. WorkInv /\ RunInv /\ MeetInv
    BY DEF IInv
  <2>2. PICK v \in Workers : wk[v].pc \in Watching /\ wk[v].id = i
    BY <2>1, Zenon DEF RunInv
  <2>3. PICK w \in Workers : wk[w].pc \in Watching /\ wk[w].id = j
    BY <2>1, Zenon DEF RunInv
  <2>4. wk[v].uid = run[i].uid /\ wk[w].uid = run[i].uid /\ wk[v].uid # 0
    BY <2>1, <2>2, <2>3, Zenon DEF WorkInv, WorkerOK, Busy, Watching
  <2>5. v = w
    BY <2>1, <2>4 DEF MeetInv
  <2>6. QED BY <2>2, <2>3, <2>5
<1>2. QED BY <1>1, Inductive, PTL

(* A Migration that shows succeeded, through dispatch or recover           *)
(* (reconciler.go:286, :494), had a destination Job that completed, unless a *)
(* goroutine of another of its name patched it (:802).                     *)
THEOREM SuccessIsOwn == Spec => []SucceededIsTrue
<1>1. IInv => SucceededIsTrue
  BY DEF IInv, PhaseInv
<1>2. QED BY <1>1, Inductive, PTL
=============================================================================
