------------------------------ MODULE NativeRun ------------------------------
(***************************************************************************)
(* One migration in the orchestrator (internal/orchestrator/native.go):    *)
(* Apply submits the source and the destination Job, then the goroutines   *)
(* poll, tailProgress and, with ReplayCmdline, stageThenStartDest report   *)
(* on one channel that the caller of Watch ranges over.  Stop may be       *)
(* called at any time.  The Jobs are the cluster's: external.              *)
(***************************************************************************)
EXTENDS Naturals, Sequences

CONSTANTS
  Modes,        \* the forms of Apply that are explored
  ChanCap,      \* capacity of the updates channel: 8 in the code
  MaxLines,     \* bound: progress lines that reach tailProgress
  MaxApiErrors, \* bound: API calls that fail although the context is live
  JobsDeleted   \* may somebody else delete the Jobs?

ASSUME NativeRunAssumption ==
  /\ Modes \subseteq {"replay", "auto", "static"}
  /\ ChanCap \in Nat \ {0}
  /\ MaxLines \in Nat
  /\ MaxApiErrors \in Nat
  /\ JobsDeleted \in BOOLEAN

VARIABLES
  mode,     \* ReplayCmdline, DestNode = "", or neither
  apc,      \* Apply
  src, dst, \* the Jobs
  srcPod,   \* the API lists a pod of the source Job
  inflight, \* n.inflight holds the run
  ctxDone,  \* run.cancel was called
  chan,     \* run.updates
  finished, closed, \* run.finished and run.updates are closed
  ppc,      \* poll
  psrc,     \* what poll read of the source Job in this tick
  pend,     \* the update poll is about to send
  announced, grace, \* announcedTransferring, sourceFailedAt
  gpc,      \* stageThenStartDest
  tpc,      \* tailProgress
  lines,    \* progress lines read, while tailProgress runs
  spc,      \* Stop
  rpc,      \* the caller of Watch
  verdicts, \* terminal phases the caller has received
  handover, \* the destination Job completed
  lost,     \* an API call failed and may have left a Job behind
  apiErrs   \* API calls that failed

clusterVars == <<src, dst, srcPod, handover>>
chanVars    == <<chan, finished, closed>>
apiVars     == <<lost, apiErrs>>
pollVars    == <<ppc, psrc, pend, announced, grace>>
tailVars    == <<tpc, lines>>
readVars    == <<rpc, verdicts>>
vars == <<mode, apc, clusterVars, inflight, ctxDone, chanVars, pollVars,
          gpc, tailVars, spc, readVars, apiVars>>

Running   == {"pending", "active"}
Ended     == {"complete", "failed"}
JobStates == {"absent"} \cup Running \cup Ended
Phases    == {"submitted", "transferring", "succeeded", "failed"}

IsTerminal(p) == p \in {"succeeded", "failed"}

Init ==
  /\ mode \in Modes
  /\ apc = "create"
  /\ src = "absent" /\ dst = "absent" /\ srcPod = FALSE
  /\ inflight = FALSE /\ ctxDone = FALSE
  /\ chan = <<>> /\ finished = FALSE /\ closed = FALSE
  /\ ppc = "off" /\ psrc = "absent" /\ pend = "submitted"
  /\ announced = FALSE /\ grace = "off"
  /\ gpc = "off" /\ tpc = "off" /\ lines = 0
  /\ spc = "off" /\ rpc = "off" /\ verdicts = {}
  /\ handover = FALSE /\ lost = FALSE /\ apiErrs = 0

(* An API call that fails while its context is live. *)
ApiError == apiErrs < MaxApiErrors /\ apiErrs' = apiErrs + 1

-----------------------------------------------------------------------------
(* Apply *)

applyRest == <<mode, inflight, ctxDone, chanVars, pollVars, gpc, tailVars,
               spc, readVars>>

(* A Create that fails may still have reached the API server. *)
CreateLost(job) ==
  \/ job' = job /\ lost' = lost
  \/ job' = "pending" /\ lost' = TRUE

CreateFails(job) == ApiError /\ CreateLost(job)

CreateDest ==
  /\ apc = "create" /\ mode # "replay"
  /\ \/ /\ dst' = "pending"
        /\ apc' = IF mode = "auto" THEN "node" ELSE "source"
        /\ UNCHANGED apiVars
     \/ CreateFails(dst) /\ apc' = "err"
  /\ UNCHANGED <<src, srcPod, handover, applyRest>>

(* Auto-select: the pod is scheduled, on another node, whose address is    *)
(* known; or the wait times out, the node is the source's, the lookup fails. *)
(* An error of rendering the source Job again returns without a clean-up.  *)
WaitForDestNodeName ==
  /\ apc = "node"
  /\ \/ dst \notin {"absent", "pending"} /\ apc' \in {"source", "unrendered"}
     \/ apc' = "cleanup"
  /\ UNCHANGED <<clusterVars, apiVars, applyRest>>

(* Mutant: the destination Job is not cleaned up. *)
CreateSourceNoCleanup ==
  /\ apc = IF mode = "replay" THEN "create" ELSE "source"
  /\ \/ src' = "pending" /\ apc' = "register" /\ UNCHANGED apiVars
     \/ CreateFails(src) /\ apc' = "err"
  /\ UNCHANGED <<dst, srcPod, handover, applyRest>>

CreateSource ==
  /\ apc = IF mode = "replay" THEN "create" ELSE "source"
  /\ \/ src' = "pending" /\ apc' = "register" /\ UNCHANGED apiVars
     \/ CreateFails(src) /\ apc' = IF mode = "replay" THEN "err" ELSE "cleanup"
  /\ UNCHANGED <<dst, srcPod, handover, applyRest>>

CleanupDestJob ==
  /\ apc = "cleanup"
  /\ \/ dst' = "absent" /\ UNCHANGED apiVars
     \/ ApiError /\ lost' = TRUE /\ dst' = dst
  /\ apc' = "err"
  /\ UNCHANGED <<src, srcPod, handover, applyRest>>

(* The run enters n.inflight, Submitted is sent, the goroutines start. *)
Register ==
  /\ apc = "register"
  /\ inflight' = TRUE
  /\ chan' = <<"submitted">>
  /\ gpc' = IF mode = "replay" THEN "wait" ELSE "off"
  /\ ppc' = "tick"
  /\ tpc' = "wait"
  /\ apc' = "ok"
  /\ UNCHANGED <<mode, clusterVars, ctxDone, finished, closed, psrc, pend,
                 announced, grace, lines, spc, readVars, apiVars>>

-----------------------------------------------------------------------------
(* The cluster: external *)

clusterRest == <<mode, apc, inflight, ctxDone, chanVars, pollVars, gpc,
                 tailVars, spc, readVars, apiVars>>

SourceJob ==
  /\ \/ src = "pending" /\ src' = "active" /\ srcPod' = TRUE
     \/ src \in Running /\ src' = "failed" /\ srcPod' = srcPod
     \/ src = "active" /\ src' = "complete" /\ srcPod' = srcPod
  /\ UNCHANGED <<dst, handover, clusterRest>>

DestJob ==
  /\ \/ dst = "pending" /\ dst' = "active" /\ handover' = handover
     \/ dst \in Running /\ dst' = "failed" /\ handover' = handover
     \/ dst = "active" /\ dst' = "complete" /\ handover' = TRUE
  /\ UNCHANGED <<src, srcPod, clusterRest>>

(* The TTL controller: 5 minutes for the destination and an hour for the   *)
(* source, which is later than any tick of poll that finds something.      *)
JobExpires ==
  /\ \/ dst \in Ended /\ ppc = "done" /\ dst' = "absent" /\ src' = src
     \/ /\ src \in Ended /\ gpc \in {"off", "done"}
        /\ dst = "absent" \/ ppc = "done"
        /\ src' = "absent" /\ dst' = dst
  /\ UNCHANGED <<srcPod, handover, clusterRest>>

JobDeleted ==
  /\ JobsDeleted
  /\ \/ src # "absent" /\ src' = "absent" /\ dst' = dst
     \/ dst # "absent" /\ dst' = "absent" /\ src' = src
  /\ UNCHANGED <<srcPod, handover, clusterRest>>

PodCollected ==
  /\ src = "absent" /\ srcPod
  /\ srcPod' = FALSE
  /\ UNCHANGED <<src, dst, handover, clusterRest>>

-----------------------------------------------------------------------------
(* poll *)

pollRest == <<mode, apc, clusterVars, ctxDone, gpc, tailVars, spc, readVars>>

(* What a Get of a Job in state j can return. *)
Reads(j) == IF ctxDone THEN {"error"} ELSE {j, "error"}

Get(j, o) ==
  /\ o \in Reads(j)
  /\ IF o = "error" /\ ~ctxDone THEN ApiError ELSE apiErrs' = apiErrs
  /\ lost' = lost

PollGetSource ==
  /\ ppc = "tick"
  /\ \E o \in JobStates \cup {"error"} : Get(src, o) /\ psrc' = o
  /\ ppc' = "dest"
  /\ UNCHANGED <<inflight, chanVars, pend, announced, grace, pollRest>>

Report(p) == pend' = p /\ ppc' = "send"

(* Locals that are read no more are put back to their first value. *)

(* The decision, given what was read of the destination Job and when it is  *)
(* a success.                                                              *)
Decide(o, success) ==
  \/ success /\ Report("succeeded") /\ UNCHANGED <<announced, grace>>
  \/ ~success /\ o = "failed" /\ Report("failed") /\ UNCHANGED <<announced, grace>>
  \/ /\ ~success /\ o # "failed"
     /\ \/ /\ psrc = "absent" \/ (psrc = "failed" /\ grace = "over")
           /\ Report("failed") /\ UNCHANGED <<announced, grace>>
        \/ /\ psrc = "failed" /\ grace # "over"
           /\ grace' = "running" /\ ppc' = "tick"
           /\ UNCHANGED <<pend, announced>>
        \/ /\ psrc = "active" /\ ~announced
           /\ Report("transferring") /\ announced' = TRUE
           /\ grace' = grace
        \/ /\ \/ psrc \in {"error", "pending", "complete"}
              \/ psrc = "active" /\ announced
           /\ ppc' = "tick"
           /\ UNCHANGED <<pend, announced, grace>>

decideRest == <<inflight, chanVars, pollRest>>

(* Mutant: a source Job that ended well is a success. *)
PollDecideOnSource ==
  /\ ppc = "dest"
  /\ \E o \in JobStates \cup {"error"} :
       /\ Get(dst, o)
       /\ Decide(o, "complete" \in {o, psrc})
  /\ psrc' = "absent"
  /\ UNCHANGED decideRest

(* The Get of the destination Job and the decision that follows it. *)
PollDecide ==
  /\ ppc = "dest"
  /\ \E o \in JobStates \cup {"error"} :
       Get(dst, o) /\ Decide(o, o = "complete")
  /\ psrc' = "absent"
  /\ UNCHANGED decideRest

GraceEnds ==
  /\ grace = "running" /\ grace' = "over"
  /\ UNCHANGED <<inflight, chanVars, ppc, psrc, pend, announced, apiVars,
                 pollRest>>

(* Mutant: the cancelled run ends without an update. *)
PollCtxDoneSilent ==
  /\ ppc = "tick" /\ ctxDone
  /\ ppc' = "finish" /\ pend' = pend
  /\ UNCHANGED <<inflight, chanVars, psrc, announced, grace, apiVars, pollRest>>

PollCtxDone ==
  /\ ppc = "tick" /\ ctxDone
  /\ Report("failed")
  /\ UNCHANGED <<inflight, chanVars, psrc, announced, grace, apiVars, pollRest>>

(* The plain send: it blocks while the channel is full. *)
PollSend ==
  /\ ppc = "send" /\ Len(chan) < ChanCap
  /\ chan' = Append(chan, pend)
  /\ ppc' = IF IsTerminal(pend) THEN "finish" ELSE "tick"
  /\ pend' = "submitted"
  /\ announced' = (announced /\ ~IsTerminal(pend))
  /\ grace' = IF IsTerminal(pend) THEN "off" ELSE grace
  /\ UNCHANGED <<inflight, finished, closed, psrc, apiVars, pollRest>>

(* Mutant: updates is closed before finished. *)
PollReturnSwapped ==
  /\ \/ /\ ppc = "finish" /\ closed' = TRUE /\ ppc' = "close"
        /\ UNCHANGED <<finished, inflight>>
     \/ /\ ppc = "close" /\ finished' = TRUE /\ ppc' = "delete"
        /\ UNCHANGED <<closed, inflight>>
     \/ /\ ppc = "delete" /\ inflight' = FALSE /\ ppc' = "done"
        /\ UNCHANGED <<finished, closed>>
  /\ UNCHANGED <<chan, psrc, pend, announced, grace, apiVars, pollRest>>

(* The deferred close(finished), close(updates), delete(n.inflight, id). *)
PollReturn ==
  /\ \/ /\ ppc = "finish" /\ finished' = TRUE /\ ppc' = "close"
        /\ UNCHANGED <<closed, inflight>>
     \/ /\ ppc = "close" /\ closed' = TRUE /\ ppc' = "delete"
        /\ UNCHANGED <<finished, inflight>>
     \/ /\ ppc = "delete" /\ inflight' = FALSE /\ ppc' = "done"
        /\ UNCHANGED <<finished, closed>>
  /\ UNCHANGED <<chan, psrc, pend, announced, grace, apiVars, pollRest>>

-----------------------------------------------------------------------------
(* Mutant: a plain send, without the select on finished. *)
SendPlain(u) == ~closed /\ Len(chan) < ChanCap /\ chan' = Append(chan, u)

(* run.send: the select on finished and updates; the panic of a send on the *)
(* closed channel is absorbed.                                              *)
Send(u) ==
  \/ finished /\ chan' = chan
  \/ ~closed /\ Len(chan) < ChanCap /\ chan' = Append(chan, u)

(* stageThenStartDest *)

stageRest == <<mode, apc, src, srcPod, handover, inflight, finished, closed,
               pollVars, tailVars, spc, readVars>>

StageWait ==
  /\ gpc = "wait"
  /\ \/ srcPod /\ ~ctxDone /\ gpc' = "create"
     \/ gpc' = "send"
  /\ UNCHANGED <<dst, ctxDone, chan, apiVars, stageRest>>

StageCreate ==
  /\ gpc = "create"
  /\ \/ ~ctxDone /\ dst' = "pending" /\ gpc' = "done" /\ UNCHANGED apiVars
     \/ CreateFails(dst) /\ gpc' = "send"
     \/ ctxDone /\ CreateLost(dst) /\ gpc' = "send" /\ apiErrs' = apiErrs
  /\ UNCHANGED <<ctxDone, chan, stageRest>>

StageFails ==
  /\ \/ gpc = "send" /\ Send("failed") /\ gpc' = "cancel" /\ ctxDone' = ctxDone
     \/ gpc = "cancel" /\ ctxDone' = TRUE /\ gpc' = "done" /\ chan' = chan
  /\ UNCHANGED <<dst, apiVars, stageRest>>

-----------------------------------------------------------------------------
(* tailProgress *)

tailRest == <<mode, apc, clusterVars, inflight, ctxDone, finished, closed,
              pollVars, gpc, spc, readVars, apiVars>>

TailWait ==
  /\ tpc = "wait"
  /\ \/ srcPod /\ ~ctxDone /\ tpc' = "tick"
     \/ tpc' = "done"
  /\ UNCHANGED <<lines, chan, tailRest>>

(* A tick: the run is over, a RESULT line, or a line to send on. *)
TailTick ==
  /\ tpc = "tick"
  /\ \/ /\ ctxDone \/ finished \/ srcPod
        /\ tpc' = "done" /\ lines' = 0
     \/ srcPod /\ lines < MaxLines /\ tpc' = "check" /\ lines' = lines + 1
  /\ UNCHANGED <<chan, tailRest>>

(* The closure send: the check, then run.send. *)
TailCheck ==
  /\ tpc = "check"
  /\ \/ (ctxDone \/ finished) /\ tpc' = "done" /\ lines' = 0
     \/ ~(ctxDone \/ finished) /\ tpc' = "send" /\ lines' = lines
  /\ UNCHANGED <<chan, tailRest>>

TailSend ==
  /\ tpc = "send" /\ Send("transferring")
  /\ \/ tpc' = "tick" /\ lines' = lines
     \/ tpc' = "done" /\ lines' = 0
  /\ UNCHANGED tailRest

-----------------------------------------------------------------------------
(* Stop, and the caller of Watch *)

stopRest == <<mode, apc, srcPod, handover, inflight, chanVars, pollVars, gpc,
              tailVars, readVars>>

StopLookup ==
  /\ spc = "off" /\ apc = "ok"
  /\ spc' = IF inflight THEN "source" ELSE "unknown"
  /\ UNCHANGED <<src, dst, ctxDone, apiVars, stopRest>>

DeleteOrWarn(job) ==
  \/ job' = "absent" /\ UNCHANGED apiVars
  \/ job # "absent" /\ ApiError /\ lost' = TRUE /\ job' = job

(* Mutant: the Jobs are deleted and the goroutines left to run out. *)
StopDeletesOnly ==
  /\ \/ spc = "source" /\ DeleteOrWarn(src) /\ spc' = "dest"
        /\ UNCHANGED <<dst, ctxDone>>
     \/ spc = "dest" /\ DeleteOrWarn(dst) /\ spc' = "done"
        /\ UNCHANGED <<src, ctxDone>>
  /\ UNCHANGED stopRest

Stop ==
  /\ \/ spc = "source" /\ DeleteOrWarn(src) /\ spc' = "dest"
        /\ UNCHANGED <<dst, ctxDone>>
     \/ spc = "dest" /\ DeleteOrWarn(dst) /\ spc' = "cancel"
        /\ UNCHANGED <<src, ctxDone>>
     \/ spc = "cancel" /\ ctxDone' = TRUE /\ spc' = "done"
        /\ UNCHANGED <<src, dst, apiVars>>
  /\ UNCHANGED stopRest

readRest == <<mode, apc, clusterVars, inflight, ctxDone, finished, closed,
              pollVars, gpc, tailVars, spc, apiVars>>

Watch ==
  /\ rpc = "off" /\ apc = "ok"
  /\ rpc' = IF inflight THEN "range" ELSE "unknown"
  /\ UNCHANGED <<chan, verdicts, readRest>>

Range ==
  /\ rpc = "range"
  /\ \/ /\ chan # <<>>
        /\ chan' = Tail(chan) /\ rpc' = rpc
        /\ verdicts' = verdicts \cup {p \in {Head(chan)} : IsTerminal(p)}
     \/ chan = <<>> /\ closed /\ rpc' = "ended" /\ UNCHANGED <<chan, verdicts>>
  /\ UNCHANGED readRest

-----------------------------------------------------------------------------
Apply == \/ CreateDest \/ WaitForDestNodeName \/ CreateSource
         \/ CleanupDestJob \/ Register
Cluster == \/ SourceJob \/ DestJob \/ JobExpires \/ JobDeleted \/ PodCollected
Poll == \/ PollGetSource \/ PollDecide \/ GraceEnds \/ PollCtxDone
        \/ PollSend \/ PollReturn
StageThenStartDest == StageWait \/ StageCreate \/ StageFails
TailProgress == TailWait \/ TailTick \/ TailCheck \/ TailSend

Next == \/ Apply \/ Cluster \/ Poll \/ StageThenStartDest \/ TailProgress
        \/ StopLookup \/ Stop \/ Watch \/ Range

Spec == Init /\ [][Next]_vars

(* The goroutines run; select is fair between ctx.Done and the ticker; the *)
(* caller ranges over the channel; activeDeadlineSeconds and               *)
(* ttlSecondsAfterFinished end and remove the Jobs.  All but poll take a   *)
(* bounded number of steps: fairness of several is fairness of each.       *)
FairSpec ==
  /\ Spec
  /\ WF_vars(PollGetSource \/ PollDecide \/ PollSend \/ PollReturn)
  /\ SF_vars(PollCtxDone)
  /\ WF_vars(StageThenStartDest \/ TailProgress \/ Watch \/ Range)
  /\ WF_vars(GraceEnds \/ SourceJob \/ DestJob \/ JobExpires)

-----------------------------------------------------------------------------
(* Every variable has its type; the channel is never fuller than its       *)
(* capacity, and finished is closed before updates, which is what          *)
(* run.send's select relies on.                                            *)
TypeOK ==
  /\ mode \in Modes
  /\ apc \in {"create", "node", "source", "cleanup", "unrendered", "register",
             "ok", "err"}
  /\ src \in JobStates /\ dst \in JobStates
  /\ chan \in Seq(Phases) /\ Len(chan) <= ChanCap
  /\ {srcPod, inflight, ctxDone, finished, closed, announced, handover, lost}
       \subseteq BOOLEAN
  /\ closed => finished
  /\ ppc \in {"off", "tick", "dest", "send", "finish", "close", "delete", "done"}
  /\ psrc \in JobStates \cup {"error"}
  /\ pend \in Phases
  /\ grace \in {"off", "running", "over"}
  /\ gpc \in {"off", "wait", "create", "send", "cancel", "done"}
  /\ tpc \in {"off", "wait", "tick", "check", "send", "done"}
  /\ spc \in {"off", "unknown", "source", "dest", "cancel", "done"}
  /\ rpc \in {"off", "unknown", "range", "ended"}
  /\ verdicts \subseteq {"succeeded", "failed"}
  /\ lines \in 0 .. MaxLines /\ apiErrs \in 0 .. MaxApiErrors

Reported ==
  {chan[i] : i \in 1 .. Len(chan)} \cup verdicts
     \cup {p \in {pend} : ppc = "send"}

(* Succeeded is reported only if the destination Job has completed, so     *)
(* that a source Job that ended well is never taken for a handover         *)
(* (poll's outcome matrix).                                                *)
SucceededIsTrue == "succeeded" \in Reported => handover

(* Whoever ranges over the channel to its end has received a verdict, and  *)
(* not two that contradict each other, whichever of poll and               *)
(* stageThenStartDest reported first; unless a Create that was reported as *)
(* failed went through.                                                    *)
OneVerdict ==
  /\ rpc = "ended" => verdicts # {}
  /\ ~lost => verdicts # {"succeeded", "failed"}

(* When Apply returns an error neither Job is left, unless the API call    *)
(* itself left it or cleanupDestJob failed; and unless the source Job      *)
(* could not be rendered again, after which the destination Job, already   *)
(* scheduled, is not cleaned up (native.go:241).                           *)
ApplyErrorLeavesNoJob ==
  apc \in {"err", "unrendered"} /\ ~lost =>
    src = "absent" /\ (dst = "absent" \/ apc = "unrendered")

(* Once Stop has returned no Job of the run is created any more: the       *)
(* staging goroutine, which may be about to create the destination Job, is *)
(* cancelled before Stop returns.  Only a Create that was on its way, and  *)
(* that staging takes for failed, may still come through.                  *)
NoJobAfterStop ==
  [][spc = "done" =>
       /\ src = "absent" => src' = "absent"
       /\ dst = "absent" => dst' = "absent" \/ gpc' = "send"]_vars

(* Every run that Apply started is wound up: its channel is closed,        *)
(* n.inflight no longer holds it, and tailProgress and stageThenStartDest  *)
(* end too, whatever they were sending.                                    *)
RunWindsUp ==
  []<>(apc = "ok" => /\ closed /\ ~inflight
                     /\ gpc \in {"off", "done"} /\ tpc \in {"off", "done"})
=============================================================================
