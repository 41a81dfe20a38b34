----------------------------- MODULE Reconciler -----------------------------
(***************************************************************************)
(* The Migration controller (internal/controller/reconciler.go): the       *)
(* reconcile loop, its dispatch and recover goroutines and handleDeletion, *)
(* for one namespaced name.  The user creates, deletes and recreates the   *)
(* Migration; the controller may restart at any time and then has only     *)
(* what the Migration's status and the Jobs say.                           *)
(*                                                                         *)
(* The orchestrator is external here: what it does between Apply and the   *)
(* closing of the watch channel is the business of NativeRun.              *)
(***************************************************************************)
EXTENDS Naturals, FiniteSets

CONSTANTS
  Workers,       \* goroutines that can be alive together
  MaxCRs,        \* bound: Migrations created under the name
  MaxRuns,       \* bound: calls of Apply that submit Jobs
  MaxFaults,     \* bound: restarts of the controller and API calls that fail
  Replay         \* spec.replayCmdline

ASSUME ReconcilerAssumption ==
  /\ MaxCRs \in Nat /\ MaxRuns \in Nat /\ MaxFaults \in Nat
  /\ Replay \in BOOLEAN

VARIABLES
  cr,       \* the Migration of this name; uid 0: there is none
  created,  \* Migrations created so far
  shared,   \* history: Migrations that met a goroutine of another of their name
  rpc, obj, \* reconcileAll, and the item of the List it works on
  tracked,  \* r.tracking holds the key
  wk,       \* the dispatch and recover goroutines
  run,      \* migrations of the orchestrator and their Jobs
  faults    \* restarts and failed API calls so far

userVars == <<cr, created, shared>>
loopVars == <<rpc, obj, tracked>>
vars == <<userVars, loopVars, wk, run, faults>>

Ids   == 1 .. MaxRuns
NoCR  == [uid |-> 0, deleting |-> FALSE, finalizer |-> FALSE, phase |-> "", mid |-> 0]
Idle  == [pc |-> "free", uid |-> 0, id |-> 0, last |-> ""]
NoRun == [uid |-> 0, src |-> "absent", dst |-> "absent", inflight |-> FALSE,
          out |-> "", handover |-> FALSE]

IsTerminal(p) == p \in {"succeeded", "failed"}

Init ==
  /\ cr = NoCR /\ created = 0 /\ shared = {}
  /\ rpc = "idle" /\ obj = NoCR /\ tracked = FALSE
  /\ wk = [w \in Workers |-> Idle]
  /\ run = [i \in Ids |-> NoRun]
  /\ faults = 0

-----------------------------------------------------------------------------
(* The user: external *)

Meets(uid, ws) ==
  shared' = shared \cup {u \in {uid} : \E w \in Workers : ws[w].uid \notin {0, u}}

CreateMigration ==
  /\ cr.uid = 0 /\ created < MaxCRs
  /\ created' = created + 1
  /\ cr' = [NoCR EXCEPT !.uid = created + 1]
  /\ Meets(created + 1, wk)
  /\ UNCHANGED <<loopVars, wk, run, faults>>

DeleteMigration ==
  /\ cr.uid # 0 /\ ~cr.deleting
  /\ cr' = IF cr.finalizer THEN [cr EXCEPT !.deleting = TRUE] ELSE NoCR
  /\ UNCHANGED <<created, shared, loopVars, wk, run, faults>>

-----------------------------------------------------------------------------
(* An API patch of the Migration: it goes by name, and fails if there is   *)
(* none, or for any other reason.                                          *)
Patch(new) == cr.uid # 0 /\ cr' = new /\ faults' = faults

(* A restart, or an API call that fails *)
Fault == faults < MaxFaults /\ faults' = faults + 1

PatchFails ==
  /\ cr' = cr
  /\ \/ cr.uid = 0 /\ faults' = faults
     \/ Fault

(* patchStatus: the error is logged and swallowed. *)
PatchStatus(id, phase) ==
  \/ Patch([cr EXCEPT !.phase = phase, !.mid = IF id = 0 THEN @ ELSE id])
  \/ PatchFails

-----------------------------------------------------------------------------
(* reconcileAll: the List, then its item *)

(* Of the phase the loop looks at no more than whether it is set and final. *)
Looked(p) == IF IsTerminal(p) THEN "failed" ELSE IF p = "" THEN "" ELSE "submitted"

List ==
  /\ rpc = "idle" /\ cr.uid # 0
  /\ rpc' = "item" /\ obj' = [cr EXCEPT !.phase = Looked(cr.phase)]
  /\ UNCHANGED <<userVars, tracked, wk, run, faults>>

(* Locals that are read no more are put back to their first value. *)
ItemDone == rpc' = "idle" /\ obj' = NoCR

AddFinalizer ==
  /\ rpc = "item" /\ ~obj.deleting /\ ~obj.finalizer
  /\ \/ /\ ~cr.deleting /\ Patch([cr EXCEPT !.finalizer = TRUE])
        /\ obj' = [obj EXCEPT !.finalizer = TRUE] /\ rpc' = rpc
     \/ /\ PatchFails \/ (cr.deleting /\ UNCHANGED <<cr, faults>>)
        /\ ItemDone
  /\ UNCHANGED <<created, shared, tracked, wk, run>>

(* Mutant: the key is claimed although it is tracked. *)
ClaimUnchecked(w) ==
  /\ wk[w].pc = "free"
  /\ tracked' = TRUE
  /\ wk' = [wk EXCEPT ![w] =
              IF obj.phase = ""
              THEN [Idle EXCEPT !.pc = "dispatch", !.uid = obj.uid]
              ELSE [Idle EXCEPT !.pc = "recover", !.uid = obj.uid, !.id = obj.mid]]

(* markTracking, and the goroutine it admits, which is any that is free *)
Claim(w) ==
  /\ wk[w].pc = "free" /\ ~tracked
  /\ w = CHOOSE v \in Workers : wk[v].pc = "free"
  /\ tracked' = TRUE
  /\ wk' = [wk EXCEPT ![w] =
              IF obj.phase = ""
              THEN [Idle EXCEPT !.pc = "dispatch", !.uid = obj.uid]
              ELSE [Idle EXCEPT !.pc = "recover", !.uid = obj.uid, !.id = obj.mid]]

ReconcileItem ==
  /\ rpc = "item" /\ ~obj.deleting /\ obj.finalizer
  /\ \/ /\ ~IsTerminal(obj.phase)
        /\ \E w \in Workers : Claim(w)
        /\ Meets(cr.uid, wk')
     \/ (tracked \/ IsTerminal(obj.phase)) /\ UNCHANGED <<tracked, wk, shared>>
  /\ ItemDone
  /\ UNCHANGED <<cr, created, run, faults>>

(* handleDeletion *)

(* Mutant: handleDeletion returns when Stop does not know the id. *)
StopRunStrict ==
  /\ rpc = "item" /\ obj.deleting /\ obj.finalizer
  /\ IF obj.mid \in Ids /\ run[obj.mid].inflight
     THEN /\ run' = [run EXCEPT ![obj.mid].src = "absent", ![obj.mid].dst = "absent",
                                ![obj.mid].inflight = FALSE, ![obj.mid].out = "failed"]
          /\ rpc' = "untrack"
     ELSE run' = run /\ rpc' = IF obj.mid = 0 THEN "untrack" ELSE "idle"
  /\ UNCHANGED <<userVars, obj, tracked, wk, faults>>

(* Both Jobs are deleted but those whose delete failed; the run is cancelled. *)
Stopped(r, left) ==
  [r EXCEPT !.src = IF "src" \in left THEN @ ELSE "absent",
            !.dst = IF "dst" \in left THEN @ ELSE "absent",
            !.inflight = FALSE, !.out = "failed"]

(* Stop: an id that is not in flight is unknown, which is only logged. *)
StopRun ==
  /\ rpc = "item" /\ obj.deleting /\ obj.finalizer
  /\ \/ /\ obj.mid \in Ids /\ run[obj.mid].inflight
        /\ \E left \in SUBSET {"src", "dst"} :
             /\ IF left = {} THEN faults' = faults ELSE Fault
             /\ run' = [run EXCEPT ![obj.mid] = Stopped(@, left)]
     \/ /\ ~(obj.mid \in Ids /\ run[obj.mid].inflight)
        /\ UNCHANGED <<run, faults>>
  /\ rpc' = "untrack"
  /\ UNCHANGED <<userVars, obj, tracked, wk>>

(* The context cancelled with it is that of Apply and Watch, both returned. *)
UntrackDeleted ==
  /\ rpc = "untrack"
  /\ tracked' = FALSE /\ rpc' = "unfinal"
  /\ UNCHANGED <<userVars, obj, wk, run, faults>>

RemoveFinalizer ==
  /\ rpc = "unfinal"
  /\ \/ Patch(IF cr.deleting THEN NoCR ELSE [cr EXCEPT !.finalizer = FALSE])
     \/ PatchFails
  /\ ItemDone
  /\ UNCHANGED <<created, shared, tracked, wk, run>>

-----------------------------------------------------------------------------
(* dispatch *)

workRest == <<created, shared, loopVars>>

Goto(w, pc) == wk' = [wk EXCEPT ![w].pc = pc]
Ends(w)     == wk' = [wk EXCEPT ![w].pc = "end", ![w].id = 0, ![w].last = ""]

(* The spec is invalid, a lookup fails, or Apply does. *)
DispatchFails(w) ==
  /\ wk[w].pc = "dispatch"
  /\ PatchStatus(0, "failed") /\ Ends(w)
  /\ UNCHANGED <<run, workRest>>

ApplySubmits(w) ==
  /\ wk[w].pc = "dispatch"
  /\ \E i \in Ids :
       /\ run[i].uid = 0 /\ \A j \in 1 .. i - 1 : run[j].uid # 0
       /\ run' = [run EXCEPT ![i].uid = wk[w].uid, ![i].src = "active",
                             ![i].dst = IF Replay THEN "absent" ELSE "active"]
       /\ wk' = [wk EXCEPT ![w].pc = "applied", ![w].id = i]
  /\ UNCHANGED <<cr, faults, workRest>>

ApplyReturns(w) ==
  /\ wk[w].pc = "applied"
  /\ run' = [run EXCEPT ![wk[w].id].inflight = TRUE]
  /\ Goto(w, "submitted")
  /\ UNCHANGED <<cr, faults, workRest>>

(* Mutant: the id is left out of the first patch. *)
PatchSubmittedNoID(w) ==
  /\ wk[w].pc = "submitted"
  /\ PatchStatus(0, "submitted") /\ Goto(w, "watch")
  /\ UNCHANGED <<run, workRest>>

PatchSubmitted(w) ==
  /\ wk[w].pc = "submitted"
  /\ PatchStatus(wk[w].id, "submitted") /\ Goto(w, "watch")
  /\ UNCHANGED <<run, workRest>>

Watch(w) ==
  /\ wk[w].pc = "watch"
  /\ \/ run[wk[w].id].inflight /\ Goto(w, "range") /\ UNCHANGED <<cr, faults>>
     \/ ~run[wk[w].id].inflight /\ Ends(w) /\ PatchStatus(wk[w].id, "failed")
  /\ UNCHANGED <<run, workRest>>

(* One update received; progress can still follow the verdict. *)
Update(w) ==
  /\ wk[w].pc = "range"
  /\ LET r == run[wk[w].id] IN
     \E p \in {"transferring"} \cup {q \in {r.out} : q # ""} :
       /\ IsTerminal(p) => ~IsTerminal(wk[w].last)
       /\ PatchStatus(wk[w].id, p)
       /\ wk' = [wk EXCEPT ![w].last = p,
                           ![w].pc = IF IsTerminal(wk[w].last) THEN "ended" ELSE @]
  /\ UNCHANGED <<run, workRest>>

RangeEnds(w) ==
  /\ wk[w].pc = "range" /\ IsTerminal(wk[w].last)
  /\ Goto(w, "ended")
  /\ UNCHANGED <<cr, faults, run, workRest>>

(* The switch on lastPhase *)
WatchEnded(w) ==
  /\ wk[w].pc = "ended"
  /\ IF IsTerminal(wk[w].last) THEN UNCHANGED <<cr, faults>>
                               ELSE PatchStatus(wk[w].id, "failed")
  /\ Ends(w)
  /\ UNCHANGED <<run, workRest>>

(* The deferred untrack *)
Untrack(w) ==
  /\ wk[w].pc = "end"
  /\ wk' = [wk EXCEPT ![w] = Idle]
  /\ tracked' = FALSE
  /\ UNCHANGED <<userVars, rpc, obj, run, faults>>

-----------------------------------------------------------------------------
(* recover: one List of the Jobs labelled with the id, and what follows *)

Recovered(w, phase) == PatchStatus(wk[w].id, phase) /\ Ends(w)

(* Mutant: recover takes the end of the source Job for the outcome. *)
RecoverTickOnSource(w) ==
  /\ wk[w].pc = "recover"
  /\ \/ run[wk[w].id].src = "complete" /\ Recovered(w, "succeeded")
     \/ run[wk[w].id].src = "failed" /\ Recovered(w, "failed")
  /\ UNCHANGED <<run, workRest>>

RecoverTick(w) ==
  /\ wk[w].pc = "recover"
  /\ LET r == run[wk[w].id] IN
     \/ r.dst = "complete" /\ Recovered(w, "succeeded")
     \/ r.dst = "failed" /\ Recovered(w, "failed")
     \/ r.dst = "absent" /\ r.src \in {"failed", "absent"} /\ Recovered(w, "failed")
     \/ /\ r.dst = "absent" /\ r.src = "active"
        /\ Goto(w, "resume") /\ UNCHANGED <<cr, faults>>
  /\ UNCHANGED <<run, workRest>>

(* Resume looks for both Jobs again before it creates the destination's. *)
Resume(w) ==
  /\ wk[w].pc = "resume"
  /\ run' = LET i == wk[w].id IN
            IF Replay /\ run[i].dst = "absent" /\ run[i].src # "absent"
            THEN [run EXCEPT ![i].dst = "active"] ELSE run
  /\ Goto(w, "recover")
  /\ UNCHANGED <<cr, faults, workRest>>

(* StatusTimeout, which is longer than the Jobs may run *)
RecoverTimesOut(w) ==
  /\ wk[w].pc = "recover"
  /\ "active" \notin {run[wk[w].id].src, run[wk[w].id].dst}
  /\ Recovered(w, "failed")
  /\ UNCHANGED <<run, workRest>>

-----------------------------------------------------------------------------
(* The orchestrator and the cluster: external *)

clusterRest == <<userVars, loopVars, wk, faults>>

SourceEnds(i) ==
  /\ run[i].src = "active"
  /\ \E s \in {"complete", "failed"} : run' = [run EXCEPT ![i].src = s]
  /\ UNCHANGED clusterRest

DestEnds(i) ==
  /\ run[i].dst = "active"
  /\ \/ run' = [run EXCEPT ![i].dst = "complete", ![i].handover = TRUE]
     \/ run' = [run EXCEPT ![i].dst = "failed"]
  /\ UNCHANGED clusterRest

(* stageThenStartDest of a run in flight *)
StageDest(i) ==
  /\ Replay /\ run[i].inflight /\ run[i].dst = "absent"
  /\ run' = [run EXCEPT ![i].dst = "active"]
  /\ UNCHANGED clusterRest

(* poll's verdict: on the destination Job, on a source Job that failed     *)
(* longer than the grace ago, or on a staging that failed.                 *)
RunEnds(i) ==
  /\ run[i].inflight
  /\ \/ /\ run[i].dst = "complete"
        /\ run' = [run EXCEPT ![i].inflight = FALSE, ![i].out = "succeeded"]
     \/ /\ run[i].dst # "complete"
        /\ "failed" \in {run[i].src, run[i].dst} \/ run[i].dst = "absent"
        /\ run' = [run EXCEPT ![i].inflight = FALSE, ![i].out = "failed"]
  /\ UNCHANGED clusterRest

(* ttlSecondsAfterFinished: minutes, while poll and recover look every few *)
(* seconds                                                                 *)
JobExpires(i) ==
  /\ ~run[i].inflight
  /\ \A w \in Workers : wk[w].id = i => wk[w].pc \notin {"recover", "resume"}
  /\ \/ /\ run[i].src \in {"complete", "failed"}
        /\ run' = [run EXCEPT ![i].src = "absent"]
     \/ /\ run[i].dst \in {"complete", "failed"}
        /\ run' = [run EXCEPT ![i].dst = "absent"]
  /\ UNCHANGED clusterRest

(* The controller stops and starts again, or another becomes the leader. *)
Restart ==
  /\ Fault
  /\ rpc' = "idle" /\ obj' = NoCR /\ tracked' = FALSE
  /\ wk' = [w \in Workers |-> Idle]
  /\ run' = [i \in Ids |-> [run[i] EXCEPT !.inflight = FALSE]]
  /\ UNCHANGED userVars

-----------------------------------------------------------------------------
Loop == \/ List \/ AddFinalizer \/ ReconcileItem
        \/ StopRun \/ UntrackDeleted \/ RemoveFinalizer
Work(w) == \/ DispatchFails(w) \/ ApplySubmits(w) \/ ApplyReturns(w)
           \/ PatchSubmitted(w) \/ Watch(w) \/ Update(w) \/ RangeEnds(w)
           \/ WatchEnded(w) \/ Untrack(w)
           \/ RecoverTick(w) \/ Resume(w) \/ RecoverTimesOut(w)
Cluster(i) == \/ SourceEnds(i) \/ DestEnds(i)
              \/ StageDest(i) \/ RunEnds(i) \/ JobExpires(i)

Next == \/ CreateMigration \/ DeleteMigration \/ Loop
        \/ \E w \in Workers : Work(w)
        \/ \E i \in Ids : Cluster(i)
        \/ Restart

Spec == Init /\ [][Next]_vars

(* The loop ticks, the goroutines run, the Jobs end (activeDeadlineSeconds) *)
(* and poll reports on them.                                                *)
FairSpec ==
  /\ Spec /\ WF_vars(Loop)
  /\ WF_vars(\E w \in Workers : Work(w))
  /\ WF_vars(\E i \in Ids : SourceEnds(i) \/ DestEnds(i) \/ RunEnds(i))

-----------------------------------------------------------------------------
Phases == {"", "submitted", "transferring", "succeeded", "failed"}
CRs == [uid : 0 .. MaxCRs, deleting : BOOLEAN, finalizer : BOOLEAN,
        phase : Phases, mid : 0 .. MaxRuns]

(* Every variable has its type, and a phase that is not terminal comes     *)
(* with the id that recover needs.                                         *)
TypeOK ==
  /\ cr \in CRs /\ obj \in CRs /\ created \in 0 .. MaxCRs /\ shared \subseteq 0 .. MaxCRs
  /\ cr.phase \in {"submitted", "transferring"} => cr.mid # 0
  /\ rpc \in {"idle", "item", "untrack", "unfinal"}
  /\ tracked \in BOOLEAN
  /\ wk \in [Workers -> [pc : {"free", "dispatch", "applied", "submitted", "watch",
                               "range", "ended", "end", "recover", "resume"},
                         uid : 0 .. MaxCRs, id : 0 .. MaxRuns, last : Phases]]
  /\ run \in [Ids -> [uid : 0 .. MaxCRs, inflight : BOOLEAN, handover : BOOLEAN,
                      src : {"absent", "active", "complete", "failed"},
                      dst : {"absent", "active", "complete", "failed"},
                      out : {"", "succeeded", "failed"}]]
  /\ faults \in 0 .. MaxFaults

(* markTracking keeps a Migration to one run in flight, whatever the age   *)
(* of the List the loop works on and whichever patches failed; unless a    *)
(* goroutine of another Migration of its name drops its entry (:289).      *)
OneRunInFlight ==
  \A i, j \in Ids :
    run[i].inflight /\ run[j].inflight /\ run[i].uid = run[j].uid =>
      i = j \/ run[i].uid \in shared

(* A Migration shows succeeded only if the destination Job of one of its   *)
(* own runs completed, through dispatch or through recover; unless a       *)
(* goroutine of another of its name reports on it (:802).                  *)
SucceededIsTrue ==
  cr.phase = "succeeded" =>
    \/ cr.uid \in shared
    \/ \E i \in Ids : run[i].uid = cr.uid /\ run[i].handover

(* Every Migration settles, across a restart of the controller or a patch  *)
(* that failed: it gets a terminal phase or, once deleted, it goes, even   *)
(* when Stop does not know the id.                                         *)
MigrationSettles ==
  []<>(cr.uid = 0 \/ (IsTerminal(cr.phase) /\ ~cr.deleting))

Jobs(i) == {run[i].src, run[i].dst}

(* "a race between submit and delete cannot orphan jobs": once a Migration *)
(* is gone, none of its Jobs runs.                                         *)
NoOrphanJobs ==
  \A i \in Ids : run[i].uid \notin {0, cr.uid} => "active" \notin Jobs(i)

(* "returns true if the caller is the first to claim key ... until the     *)
(* goroutine clears tracking": a Migration has one goroutine at a time.    *)
OneGoroutine ==
  \A v, w \in Workers : wk[v].uid = wk[w].uid /\ wk[v].uid # 0 => v = w
=============================================================================
