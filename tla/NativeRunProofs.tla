-------------------------- MODULE NativeRunProofs --------------------------
(***************************************************************************)
(* Proofs about NativeRun for every mode of Apply, every capacity of the   *)
(* updates channel and any number of progress lines and failed API calls:  *)
(* the verdicts that reach the caller of Watch, the Jobs that a failed     *)
(* Apply leaves behind, the Jobs that a Stop keeps from being created, and *)
(* the bound of the updates channel.                                       *)
(***************************************************************************)
EXTENDS NativeRun, TLAPS

Terminal == {"succeeded", "failed"}

\* What was sent on the channel, received or not.
Told == {chan[i] : i \in 1 .. Len(chan)} \cup verdicts

Pending == {p \in {pend} : ppc = "send"}

Undecided == ppc \in {"off", "tick", "dest"} \/ (ppc = "send" /\ pend \notin Terminal)

-----------------------------------------------------------------------------
(* The inductive invariant *)

ChanInv == chan \in Seq(Phases) /\ verdicts \subseteq Terminal

\* Nothing is told, staged, decided or stopped before Apply is done.
StartInv ==
  apc # "ok" => ppc = "off" /\ gpc = "off" /\ tpc = "off" /\ spc = "off" /\ Told = {}

\* The destination Job of a run that is still to be staged, or whose staging failed,
\* does not exist.
StageInv ==
  /\ dst = "complete" => handover
  /\ ~lost /\ mode = "replay" /\ apc # "ok" => dst = "absent" /\ ~handover
  /\ ~lost /\ gpc \in {"wait", "create", "send", "cancel"} => dst = "absent" /\ ~handover

\* Before poll has decided, a verdict can only be the failure of the staging.
UndecidedInv ==
  Undecided =>
    /\ "succeeded" \notin Told
    /\ ~lost /\ "failed" \in Told => gpc \in {"cancel", "done"} /\ dst = "absent" /\ ~handover

VerdictInv ==
  /\ pend \in Phases
  /\ "succeeded" \in Told \cup Pending => handover
  /\ ~lost => ~(Terminal \subseteq Told \cup Pending)

\* poll closes the channel after its verdict.
CloseInv ==
  /\ ppc \in {"finish", "close", "delete", "done"} => Told \cap Terminal # {}
  /\ closed => ppc \in {"delete", "done"}
  /\ rpc = "ended" => verdicts # {}

JobsInv ==
  /\ ~lost /\ apc \notin {"register", "ok"} => src = "absent"
  /\ ~lost /\ apc \in {"create", "err"} => dst = "absent"

IInv ==
  /\ ChanInv /\ StartInv /\ StageInv /\ UndecidedInv /\ VerdictInv /\ CloseInv /\ JobsInv

-----------------------------------------------------------------------------
(* The channel *)

Sent(c) == {c[i] : i \in 1 .. Len(c)}

\* What a send adds to the phases in the channel (run.send, poll).
LEMMA AppendSends ==
  ASSUME NEW c \in Seq(Phases), NEW u \in Phases
  PROVE  Append(c, u) \in Seq(Phases) /\ Sent(Append(c, u)) = Sent(c) \cup {u}
BY DEF Sent

\* What a receive takes from them (the range over Watch's channel).
LEMMA TailReceives ==
  ASSUME NEW c \in Seq(Phases), c # <<>>
  PROVE  /\ Tail(c) \in Seq(Phases) /\ Head(c) \in Phases
         /\ Sent(c) = Sent(Tail(c)) \cup {Head(c)}
<1>1. Tail(c) \in Seq(Phases) /\ Head(c) \in Phases /\ Head(c) = c[1] /\ Len(c) \in Nat \ {0}
  BY DEF Phases
<1>2. Len(Tail(c)) = Len(c) - 1 /\ \A i \in 1 .. Len(c) - 1 : Tail(c)[i] = c[i + 1]
  OBVIOUS
<1>3. ASSUME NEW x \in Sent(c) PROVE x \in Sent(Tail(c)) \cup {Head(c)}
  <2>1. PICK i \in 1 .. Len(c) : x = c[i]
    BY DEF Sent
  <2>2. CASE i = 1
    BY <1>1, <2>1, <2>2
  <2>3. CASE i # 1
    <3>1. i - 1 \in 1 .. Len(Tail(c)) /\ Tail(c)[i - 1] = c[i]
      BY <1>1, <1>2, <2>3
    <3> QED
      BY <2>1, <3>1 DEF Sent
  <2> QED
    BY <2>2, <2>3
<1>4. ASSUME NEW x \in Sent(Tail(c)) PROVE x \in Sent(c)
  <2>1. PICK i \in 1 .. Len(Tail(c)) : x = Tail(c)[i]
    BY Zenon DEF Sent
  <2>2. i + 1 \in 1 .. Len(c) /\ x = c[i + 1]
    BY <1>1, <1>2, <2>1
  <2> QED
    BY <2>2 DEF Sent
<1>5. Head(c) \in Sent(c)
  BY <1>1 DEF Sent
<1> QED
  BY <1>1, <1>3, <1>4, <1>5

\* run.send drops the update or appends it.
LEMMA SendTells ==
  ASSUME ChanInv, NEW u \in Phases, Send(u), verdicts' = verdicts
  PROVE  ChanInv' /\ Told' \in {Told, Told \cup {u}}
<1>1. CASE chan' = chan
  BY <1>1 DEF ChanInv, Told
<1>2. CASE chan' = Append(chan, u)
  BY <1>2, AppendSends DEF ChanInv, Told, Sent
<1> QED
  BY <1>1, <1>2 DEF Send

\* The caller's receive takes a verdict from the channel and keeps it.
LEMMA RangeKeepsTold ==
  ASSUME ChanInv, Range
  PROVE  ChanInv' /\ Told' \cap Terminal = Told \cap Terminal /\ Told' \subseteq Told
<1>1. CASE chan = <<>>
  BY <1>1 DEF Range, ChanInv, Told
<1>2. CASE chan # <<>>
  <2>1. /\ chan' = Tail(chan)
        /\ verdicts' = verdicts \cup {p \in {Head(chan)} : IsTerminal(p)}
    BY <1>2 DEF Range
  <2>2. verdicts' = verdicts \cup ({Head(chan)} \cap Terminal)
    BY <2>1, Zenon DEF IsTerminal, Terminal
  <2>3. /\ Tail(chan) \in Seq(Phases)
        /\ Sent(chan) = Sent(Tail(chan)) \cup {Head(chan)}
    BY <1>2, TailReceives DEF ChanInv
  <2>4. Told = Sent(chan) \cup verdicts /\ Told' = Sent(Tail(chan)) \cup verdicts'
    BY <2>1 DEF Told, Sent
  <2> QED
    BY <2>1, <2>2, <2>3, <2>4 DEF ChanInv
<1> QED
  BY <1>1, <1>2

-----------------------------------------------------------------------------
(* The steps *)

\* Steps that tell nothing new leave what was told as it was.
LEMMA NothingTold ==
  ASSUME ChanInv, UNCHANGED <<chan, verdicts>>
  PROVE  ChanInv' /\ Told' = Told
BY DEF ChanInv, Told

\* Apply creates the destination Job first, or leaves it to the staging; what it created
\* is gone when it fails.
LEMMA ApplyStep == ASSUME IInv, Apply PROVE IInv'
<1> USE DEF tailVars, Phases, IInv, StartInv, StageInv, UndecidedInv, VerdictInv, CloseInv, JobsInv, Undecided, Pending, Terminal
<1>1. CASE CreateDest \/ WaitForDestNodeName \/ CreateSource \/ CleanupDestJob
  <2>1. ChanInv' /\ Told' = Told
    BY <1>1, NothingTold DEF CreateDest, WaitForDestNodeName, CreateSource, CleanupDestJob,
                             applyRest, chanVars, readVars
  <2>2. CASE CreateDest
    BY <2>1, <2>2 DEF CreateDest, CreateFails, CreateLost, applyRest, apiVars, chanVars, pollVars, readVars
  <2>3. CASE WaitForDestNodeName
    BY <2>1, <2>3 DEF WaitForDestNodeName, applyRest, apiVars, chanVars, pollVars, readVars, clusterVars
  <2>4. CASE CreateSource
    BY <2>1, <2>4 DEF CreateSource, CreateFails, CreateLost, applyRest, apiVars, chanVars, pollVars, readVars
  <2>5. CASE CleanupDestJob
    BY <2>1, <2>5 DEF CleanupDestJob, applyRest, apiVars, chanVars, pollVars, readVars
  <2> QED
    BY <1>1, <2>2, <2>3, <2>4, <2>5
<1>2. CASE Register
  <2>1. ChanInv' /\ Told' = {"submitted"}
    <3>1. verdicts = {} /\ verdicts' = {}
      BY <1>2 DEF Register, Told, readVars
    <3>2. chan' \in Seq(Phases) /\ Sent(chan') = {"submitted"}
      BY <1>2 DEF Register, Sent, Phases
    <3> QED
      BY <3>1, <3>2 DEF ChanInv, Told, Sent
  <2> QED
    BY <1>2, <2>1 DEF Register, apiVars, readVars, clusterVars
<1> QED
  BY <1>1, <1>2, Zenon DEF Apply

\* A Job that is not there stays away, and one that completes hands over.
LEMMA ClusterStep == ASSUME IInv, Cluster PROVE IInv'
<1> USE DEF tailVars, Phases, IInv, StartInv, StageInv, UndecidedInv, VerdictInv, CloseInv, JobsInv, Undecided, Pending, Terminal
<1>1. ChanInv' /\ Told' = Told
  BY NothingTold DEF Cluster, SourceJob, DestJob, JobExpires, JobDeleted, PodCollected,
                     clusterRest, chanVars, readVars
<1>2. /\ UNCHANGED <<mode, apc, closed, ppc, pend, gpc, tpc, spc, rpc, verdicts, lost>>
      /\ src = "absent" => src' = "absent"
      /\ dst = "absent" => dst' = "absent" /\ handover' = handover
      /\ dst' = "complete" => handover' \/ dst = "complete"
      /\ handover => handover'
      /\ handover' => handover \/ dst # "absent"
  BY DEF Cluster, SourceJob, DestJob, JobExpires, JobDeleted, PodCollected, Running, Ended,
         clusterRest, chanVars, pollVars, readVars, apiVars
<1>3. StageInv'
  BY <1>1, <1>2, Zenon DEF Cluster, SourceJob, DestJob, JobExpires, JobDeleted, PodCollected, Running
<1> QED
  BY <1>1, <1>2, <1>3

\* poll decides once: on Succeeded when it has read a completed destination Job.
LEMMA PollStep == ASSUME IInv, Poll PROVE IInv'
<1> USE DEF tailVars, Phases, IInv, StartInv, StageInv, UndecidedInv, VerdictInv, CloseInv, JobsInv, Undecided, Pending, Terminal
<1>1. CASE PollGetSource \/ GraceEnds
  <2>1. ChanInv' /\ Told' = Told
    BY <1>1, NothingTold DEF PollGetSource, GraceEnds, chanVars, pollRest, readVars
  <2> QED
    BY <1>1, <2>1 DEF PollGetSource, GraceEnds, Get, chanVars, pollRest, clusterVars, readVars, apiVars
<1>2. CASE PollDecide
  <2>1. ChanInv' /\ Told' = Told
    BY <1>2, NothingTold DEF PollDecide, decideRest, chanVars, pollRest, readVars
  <2>2. PICK o \in JobStates \cup {"error"} : Get(dst, o) /\ Decide(o, o = "complete")
    BY <1>2 DEF PollDecide
  <2>3. o = "complete" => dst = "complete"
    BY <2>2 DEF Get, Reads
  <2>4. \/ ppc' = "tick" /\ pend' = pend
        \/ ppc' = "send" /\ pend' \in {"failed", "transferring"}
        \/ ppc' = "send" /\ pend' = "succeeded" /\ handover
    BY <2>2, <2>3 DEF Decide, Report
  <2>5. /\ UNCHANGED <<mode, apc, src, dst, handover, closed, gpc, tpc, spc, rpc, verdicts, lost>>
        /\ ppc = "dest"
    BY <1>2 DEF PollDecide, Get, decideRest, chanVars, pollRest, clusterVars, readVars
  <2> QED
    BY <2>1, <2>4, <2>5
<1>3. CASE PollCtxDone
  <2>1. ChanInv' /\ Told' = Told
    BY <1>3, NothingTold DEF PollCtxDone, chanVars, pollRest, readVars
  <2> QED
    BY <1>3, <2>1 DEF PollCtxDone, Report, chanVars, pollRest, clusterVars, readVars, apiVars
<1>4. CASE PollSend
  <2>1. chan' = Append(chan, pend) /\ verdicts' = verdicts /\ ppc = "send"
    BY <1>4 DEF PollSend, pollRest, readVars
  <2>2. ChanInv' /\ Told' = Told \cup {pend}
    BY <2>1, AppendSends DEF ChanInv, Told, Sent
  <2>3. /\ UNCHANGED <<mode, apc, src, dst, handover, closed, gpc, tpc, spc, rpc, verdicts, lost>>
        /\ ppc' = (IF pend \in Terminal THEN "finish" ELSE "tick") /\ pend' = "submitted"
    BY <1>4, Zenon DEF PollSend, IsTerminal, pollRest, clusterVars, readVars, apiVars
  <2> QED
    BY <2>1, <2>2, <2>3
<1>5. CASE PollReturn
  <2>1. ChanInv' /\ Told' = Told
    BY <1>5, NothingTold, Zenon DEF PollReturn, pollRest, readVars
  <2> QED
    BY <1>5, <2>1 DEF PollReturn, pollRest, clusterVars, readVars, apiVars
<1> QED
  BY <1>1, <1>2, <1>3, <1>4, <1>5, Zenon DEF Poll

\* The staging fails only without a destination Job.
LEMMA StageStep == ASSUME IInv, StageThenStartDest PROVE IInv'
<1> USE DEF tailVars, Phases, IInv, StartInv, StageInv, UndecidedInv, VerdictInv, CloseInv, JobsInv, Undecided, Pending, Terminal
<1>1. CASE StageWait \/ StageCreate
  <2>1. ChanInv' /\ Told' = Told
    BY <1>1, NothingTold, Zenon DEF StageWait, StageCreate, stageRest, readVars
  <2> QED
    BY <1>1, <2>1 DEF StageWait, StageCreate, CreateFails, CreateLost, stageRest, pollVars, readVars, apiVars
<1>2. CASE StageFails
  <2>1. UNCHANGED <<mode, apc, src, dst, handover, closed, ppc, pend, tpc, spc, rpc, verdicts, lost>>
    BY <1>2 DEF StageFails, stageRest, pollVars, readVars, apiVars
  <2>2. CASE gpc = "send" /\ Send("failed") /\ gpc' = "cancel"
    <3>1. ChanInv' /\ Told' \in {Told, Told \cup {"failed"}}
      BY <2>1, <2>2, SendTells, Zenon DEF Phases
    <3> QED
      BY <2>1, <2>2, <3>1
  <2>3. CASE gpc = "cancel" /\ gpc' = "done" /\ chan' = chan
    <3>1. ChanInv' /\ Told' = Told
      BY <2>1, <2>3, NothingTold
    <3> QED
      BY <2>1, <2>3, <3>1
  <2> QED
    BY <1>2, <2>2, <2>3 DEF StageFails
<1> QED
  BY <1>1, <1>2 DEF StageThenStartDest

\* tailProgress sends no verdict.
LEMMA TailStep == ASSUME IInv, TailProgress PROVE IInv'
<1> USE DEF tailVars, Phases, IInv, StartInv, StageInv, UndecidedInv, VerdictInv, CloseInv, JobsInv, Undecided, Pending, Terminal
<1>1. UNCHANGED <<mode, apc, src, dst, handover, closed, ppc, pend, gpc, spc, rpc, verdicts, lost>>
  BY DEF TailProgress, TailWait, TailTick, TailCheck, TailSend, tailRest, clusterVars, pollVars,
         readVars, apiVars
<1>2. apc = "ok" \/ UNCHANGED chan
  BY DEF TailProgress, TailWait, TailTick, TailCheck, TailSend
<1>3. ChanInv' /\ Told' \in {Told, Told \cup {"transferring"}}
  <2>1. CASE UNCHANGED chan
    BY <1>1, <2>1, NothingTold
  <2>2. CASE Send("transferring")
    BY <1>1, <2>2, SendTells DEF Phases
  <2> QED
    BY <2>1, <2>2 DEF TailProgress, TailWait, TailTick, TailCheck, TailSend
<1>4. apc = "ok" \/ (UNCHANGED tpc /\ Told' = Told)
  BY <1>1, <1>2, NothingTold, Zenon DEF TailProgress, TailWait, TailTick, TailCheck, TailSend
<1> QED
  BY <1>1, <1>2, <1>3, <1>4

\* Stop deletes and cancels; the caller receives.
LEMMA CallerStep == ASSUME IInv, StopLookup \/ Stop \/ Watch \/ Range PROVE IInv'
<1> USE DEF tailVars, Phases, IInv, StartInv, StageInv, UndecidedInv, VerdictInv, CloseInv, JobsInv, Undecided, Pending, Terminal
<1>1. CASE StopLookup \/ Stop
  <2>1. ChanInv' /\ Told' = Told
    BY <1>1, NothingTold, Zenon DEF StopLookup, Stop, stopRest, chanVars, readVars
  <2> QED
    BY <1>1, <2>1 DEF StopLookup, Stop, DeleteOrWarn, stopRest, chanVars, pollVars, readVars, apiVars
<1>2. CASE Watch
  <2>1. ChanInv' /\ Told' = Told
    BY <1>2, NothingTold DEF Watch
  <2> QED
    BY <1>2, <2>1 DEF Watch, readRest, clusterVars, pollVars, apiVars
<1>3. CASE Range
  <2>1. ChanInv' /\ Told' \cap Terminal = Told \cap Terminal /\ Told' \subseteq Told
    BY <1>3, RangeKeepsTold, Zenon
  <2>2. UNCHANGED <<mode, apc, src, dst, handover, closed, ppc, pend, gpc, tpc, spc, lost>>
    BY <1>3 DEF Range, readRest, clusterVars, pollVars, apiVars
  <2>3. rpc' = "ended" => verdicts' # {}
    <3>1. CASE rpc' = rpc
      BY <1>3, <3>1 DEF Range
    <3>2. CASE chan = <<>> /\ closed /\ verdicts' = verdicts
      BY <3>2 DEF Told
    <3> QED
      BY <1>3, <3>1, <3>2 DEF Range
  <2> QED
    BY <2>1, <2>2, <2>3
<1> QED
  BY <1>1, <1>2, <1>3, Zenon

\* The invariant holds in every state of a run.
LEMMA RunInductive == Spec => []IInv
<1>1. Init => IInv
  BY DEF Init, IInv, ChanInv, StartInv, StageInv, UndecidedInv, VerdictInv, CloseInv, JobsInv,
         Undecided, Pending, Terminal, Told, Phases
<1>2. IInv /\ [Next]_vars => IInv'
  <2> SUFFICES ASSUME IInv, UNCHANGED vars PROVE IInv'
    BY ApplyStep, ClusterStep, PollStep, StageStep, TailStep, CallerStep DEF Next
  <2>1. ChanInv' /\ Told' = Told
    BY NothingTold DEF vars, IInv, chanVars, readVars
  <2> QED
    BY <2>1 DEF vars, clusterVars, chanVars, apiVars, pollVars, readVars, tailVars, Phases, IInv, StartInv, StageInv, UndecidedInv, VerdictInv, CloseInv, JobsInv, Undecided, Pending, Terminal
<1> QED
  BY <1>1, <1>2, PTL DEF Spec

-----------------------------------------------------------------------------
\* No run is reported as Succeeded without a destination Job that completed (poll's
\* outcome matrix, native.go:843-946).
THEOREM SuccessIsHandover == Spec => []SucceededIsTrue
<1>1. IInv => SucceededIsTrue
  BY DEF IInv, VerdictInv, SucceededIsTrue, Reported, Told, Pending
<1> QED
  BY <1>1, RunInductive, PTL

\* poll and stageThenStartDest, which both report on the channel, never contradict each
\* other, and the channel is not closed without a verdict.
THEOREM VerdictsAgree == Spec => []OneVerdict
<1>1. IInv => OneVerdict
  BY DEF IInv, VerdictInv, CloseInv, OneVerdict, Told, Terminal
<1> QED
  BY <1>1, RunInductive, PTL

\* An Apply that fails has removed what it created, whichever of its API calls and waits
\* failed (cleanupDestJob, native.go:218-263); after an error of rendering the source Job
\* again, which has no clean-up, it is the destination Job alone that may be left.
THEOREM FailedApplyCleansUp == Spec => []ApplyErrorLeavesNoJob
<1>1. IInv => ApplyErrorLeavesNoJob
  BY DEF IInv, JobsInv, ApplyErrorLeavesNoJob
<1> QED
  BY <1>1, RunInductive, PTL

-----------------------------------------------------------------------------
(* Stop *)

\* Stop is called on a run that Apply has started, and returns after the cancel.
StopInv ==
  /\ spc # "off" => apc = "ok"
  /\ spc = "done" => ctxDone

\* Only Apply, before it is done, and the staging create a Job; the staging creates one
\* for good only while the run is not cancelled.
LEMMA JobsCreated ==
  ASSUME [Next]_vars, apc = "ok", ctxDone
  PROVE  /\ src = "absent" => src' = "absent"
         /\ dst = "absent" => dst' = "absent" \/ gpc' = "send"
<1>1. CASE Apply
  BY <1>1 DEF Apply, CreateDest, WaitForDestNodeName, CreateSource, CleanupDestJob, Register
<1>2. CASE Cluster
  BY <1>2 DEF Cluster, SourceJob, DestJob, JobExpires, JobDeleted, PodCollected, Running, Ended
<1>3. CASE Poll \/ TailProgress \/ StopLookup \/ Watch \/ Range \/ UNCHANGED vars
  <2>1. UNCHANGED <<src, dst>>
    BY <1>3 DEF Poll, PollGetSource, PollDecide, decideRest, GraceEnds, PollCtxDone, PollSend, PollReturn,
                pollRest, TailProgress, TailWait, TailTick, TailCheck, TailSend, tailRest, StopLookup,
                Watch, Range, readRest, clusterVars, vars
  <2> QED BY <2>1
<1>4. CASE StageThenStartDest
  BY <1>4 DEF StageThenStartDest, StageWait, StageCreate, StageFails, stageRest
<1>5. CASE Stop
  BY <1>5 DEF Stop, DeleteOrWarn
<1> QED BY <1>1, <1>2, <1>3, <1>4, <1>5 DEF Next

LEMMA StopStep == ASSUME StopInv, [Next]_vars PROVE StopInv'
<1>1. CASE StopLookup \/ Stop
  BY <1>1 DEF StopInv, StopLookup, Stop, stopRest
<1>2. CASE Apply
  BY <1>2 DEF StopInv, Apply, CreateDest, WaitForDestNodeName, CreateSource, CleanupDestJob, Register,
              applyRest
<1>3. CASE StageThenStartDest
  BY <1>3 DEF StopInv, StageThenStartDest, StageWait, StageCreate, StageFails, stageRest
<1>4. CASE Cluster \/ Poll \/ TailProgress \/ Watch \/ Range \/ UNCHANGED vars
  <2>1. UNCHANGED <<apc, spc, ctxDone>>
    BY <1>4, Zenon DEF Cluster, SourceJob, DestJob, JobExpires, JobDeleted, PodCollected, clusterRest, Poll,
         PollGetSource, PollDecide, decideRest, GraceEnds, PollCtxDone, PollSend, PollReturn, pollRest,
         TailProgress, TailWait, TailTick, TailCheck, TailSend, tailRest, Watch, Range, readRest, vars
  <2> QED BY <2>1 DEF StopInv
<1> QED BY <1>1, <1>2, <1>3, <1>4 DEF Next

\* No Job of a run is created once its Stop has returned, although the staging may have
\* been about to: the cancel comes before the return (Stop, native.go:814-838).
THEOREM StopEndsCreation == Spec => NoJobAfterStop
<1>1. Init => StopInv
  BY DEF Init, StopInv
<1>2. StopInv /\ [Next]_vars => StopInv'
  BY StopStep
<1>3. StopInv /\ [Next]_vars =>
        [spc = "done" =>
           /\ src = "absent" => src' = "absent"
           /\ dst = "absent" => dst' = "absent" \/ gpc' = "send"]_vars
  BY JobsCreated DEF StopInv
<1> QED
  BY <1>1, <1>2, <1>3, PTL DEF Spec, NoJobAfterStop

-----------------------------------------------------------------------------
(* Types, and the two channels *)

\* poll closes finished before updates, and no send is made on a full channel.
ChannelTypes ==
  /\ chan \in Seq(Phases) /\ Len(chan) <= ChanCap
  /\ finished \in BOOLEAN /\ closed \in BOOLEAN
  /\ closed => finished
  /\ ppc = "close" => finished

ClusterTypes ==
  /\ src \in JobStates /\ dst \in JobStates /\ srcPod \in BOOLEAN /\ handover \in BOOLEAN
  /\ lost \in BOOLEAN /\ apiErrs \in 0 .. MaxApiErrors

PollTypes ==
  /\ ppc \in {"off", "tick", "dest", "send", "finish", "close", "delete", "done"}
  /\ psrc \in JobStates \cup {"error"}
  /\ pend \in Phases
  /\ announced \in BOOLEAN /\ grace \in {"off", "running", "over"}

CallerTypes ==
  /\ mode \in Modes
  /\ apc \in {"create", "node", "source", "cleanup", "unrendered", "register", "ok", "err"}
  /\ inflight \in BOOLEAN /\ ctxDone \in BOOLEAN
  /\ gpc \in {"off", "wait", "create", "send", "cancel", "done"}
  /\ tpc \in {"off", "wait", "tick", "check", "send", "done"} /\ lines \in 0 .. MaxLines
  /\ spc \in {"off", "unknown", "source", "dest", "cancel", "done"}
  /\ rpc \in {"off", "unknown", "range", "ended"}
  /\ verdicts \subseteq {"succeeded", "failed"}

TypeInv == ChannelTypes /\ ClusterTypes /\ PollTypes /\ CallerTypes

\* A channel that is not full takes one more.
LEMMA SendFits ==
  ASSUME NEW c \in Seq(Phases), NEW u \in Phases, NEW cap \in Nat, Len(c) < cap
  PROVE  Append(c, u) \in Seq(Phases) /\ Len(Append(c, u)) <= cap
OBVIOUS

LEMMA ReceiveFits ==
  ASSUME NEW c \in Seq(Phases), c # <<>>, NEW cap \in Nat, Len(c) <= cap
  PROVE  Tail(c) \in Seq(Phases) /\ Len(Tail(c)) <= cap /\ Head(c) \in Phases
OBVIOUS

LEMMA ChannelStep == ASSUME TypeInv, [Next]_vars PROVE ChannelTypes'
<1>1. /\ chan \in Seq(Phases) /\ Len(chan) <= ChanCap /\ ChanCap \in Nat \ {0} /\ ChanCap \in Nat
      /\ pend \in Phases
  BY NativeRunAssumption DEF TypeInv, ChannelTypes, PollTypes
<1>2. finished \in BOOLEAN /\ closed \in BOOLEAN /\ (closed => finished) /\ (ppc = "close" => finished)
  BY DEF TypeInv, ChannelTypes
<1>3. ASSUME NEW u \in Phases, Send(u) PROVE chan' \in Seq(Phases) /\ Len(chan') <= ChanCap
  BY <1>1, <1>3, SendFits DEF Send
<1>4. chan' \in Seq(Phases) /\ Len(chan') <= ChanCap
  <2>1. CASE Register
    <3>1. "submitted" \in Phases
      BY DEF Phases
    <3>2. chan' = <<"submitted">>
      BY <2>1 DEF Register
    <3> QED BY <1>1, <3>1, <3>2
  <2>2. CASE PollSend
    <3>1. Len(chan) < ChanCap /\ chan' = Append(chan, pend)
      BY <2>2 DEF PollSend
    <3> QED BY <1>1, <3>1, SendFits
  <2>3. CASE StageFails
    <3>1. "failed" \in Phases
      BY DEF Phases
    <3>2. Send("failed") \/ chan' = chan
      BY <2>3 DEF StageFails
    <3> QED BY <1>1, <1>3, <3>1, <3>2
  <2>4. CASE TailSend
    <3>1. "transferring" \in Phases
      BY DEF Phases
    <3>2. Send("transferring")
      BY <2>4 DEF TailSend
    <3> QED BY <1>3, <3>1, <3>2
  <2>5. CASE Range
    <3>1. (chan # <<>> /\ chan' = Tail(chan)) \/ chan' = chan
      BY <2>5 DEF Range
    <3> QED BY <1>1, <3>1, ReceiveFits, Zenon
  <2>6. CASE \/ CreateDest \/ WaitForDestNodeName \/ CreateSource \/ CleanupDestJob \/ Cluster
             \/ PollGetSource \/ PollDecide \/ GraceEnds \/ PollCtxDone \/ PollReturn
             \/ StageWait \/ StageCreate \/ TailWait \/ TailTick \/ TailCheck
             \/ StopLookup \/ Stop \/ Watch \/ UNCHANGED vars
    <3>1. chan' = chan
      BY <2>6, Zenon DEF CreateDest, WaitForDestNodeName, CreateSource, CleanupDestJob, applyRest, Cluster, SourceJob,
           DestJob, JobExpires, JobDeleted, PodCollected, clusterRest, PollGetSource, PollDecide, decideRest,
           GraceEnds, PollCtxDone, PollReturn, StageWait, StageCreate, TailWait, TailTick, TailCheck,
           StopLookup, Stop, stopRest, Watch, vars, chanVars
    <3> QED BY <1>1, <3>1
  <2> QED BY <2>1, <2>2, <2>3, <2>4, <2>5, <2>6 DEF Next, Apply, Poll, StageThenStartDest, TailProgress
<1>5. /\ finished' \in BOOLEAN /\ closed' \in BOOLEAN
      /\ closed' => finished'
      /\ ppc' = "close" => finished'
  <2>1. CASE PollReturn
    <3>1. CASE ppc = "finish" /\ finished' = TRUE /\ closed' = closed
      BY <1>2, <3>1
    <3>2. CASE ppc = "close" /\ closed' = TRUE /\ ppc' = "delete" /\ finished' = finished
      BY <1>2, <3>2
    <3>3. CASE ppc' = "done" /\ finished' = finished /\ closed' = closed
      BY <1>2, <3>3
    <3> QED BY <2>1, <3>1, <3>2, <3>3, Zenon DEF PollReturn
  <2>2. CASE Register \/ PollGetSource \/ PollDecide \/ GraceEnds \/ PollCtxDone \/ PollSend
    <3>1. UNCHANGED <<finished, closed>> /\ (ppc' # "close" \/ ppc' = ppc)
      BY <2>2 DEF Register, PollGetSource, PollDecide, Decide, Report, decideRest, GraceEnds, PollCtxDone,
                  PollSend, chanVars
    <3> QED BY <1>2, <3>1
  <2>3. CASE \/ CreateDest \/ WaitForDestNodeName \/ CreateSource \/ CleanupDestJob \/ Cluster
             \/ StageThenStartDest \/ TailProgress \/ StopLookup \/ Stop \/ Watch \/ Range \/ UNCHANGED vars
    <3>1. UNCHANGED <<finished, closed, ppc>>
      BY <2>3, Zenon DEF CreateDest, WaitForDestNodeName, CreateSource, CleanupDestJob, applyRest, Cluster, SourceJob,
           DestJob, JobExpires, JobDeleted, PodCollected, clusterRest, StageThenStartDest, StageWait,
           StageCreate, StageFails, stageRest, TailProgress, TailWait, TailTick, TailCheck, TailSend,
           tailRest, StopLookup, Stop, stopRest, Watch, Range, readRest, vars, chanVars, pollVars
    <3> QED BY <1>2, <3>1
  <2> QED BY <2>1, <2>2, <2>3 DEF Next, Apply, Poll
<1> QED BY <1>4, <1>5 DEF ChannelTypes

LEMMA ClusterTypesStep == ASSUME TypeInv, [Next]_vars PROVE ClusterTypes'
<1>1. /\ src \in JobStates /\ dst \in JobStates /\ srcPod \in BOOLEAN /\ handover \in BOOLEAN
      /\ lost \in BOOLEAN /\ apiErrs \in 0 .. MaxApiErrors
  BY DEF TypeInv, ClusterTypes
<1>2. {"absent", "pending", "active", "complete", "failed"} \subseteq JobStates
  BY DEF JobStates, Running, Ended
<1>3. ApiError => apiErrs' \in 0 .. MaxApiErrors
  BY <1>1, NativeRunAssumption DEF ApiError
<1>4. CASE Apply
  BY <1>1, <1>2, <1>3, <1>4, Zenon
  DEF Apply, CreateDest, CreateFails, CreateLost, WaitForDestNodeName, CreateSource, CleanupDestJob, Register, clusterVars,
      apiVars, ClusterTypes
<1>5. CASE Cluster
  BY <1>1, <1>2, <1>5, Zenon
  DEF Cluster, SourceJob, DestJob, JobExpires, JobDeleted, PodCollected, clusterRest, apiVars, ClusterTypes
<1>6. CASE Poll
  <2>1. UNCHANGED <<src, dst, srcPod, handover, lost>> /\ (ApiError \/ apiErrs' = apiErrs)
    BY <1>6 DEF Poll, PollGetSource, PollDecide, Get, decideRest, GraceEnds, PollCtxDone, PollSend, PollReturn,
                pollRest, clusterVars, apiVars
  <2> QED BY <1>1, <1>3, <2>1, Zenon DEF ClusterTypes
<1>7. CASE StageThenStartDest
  BY <1>1, <1>2, <1>3, <1>7, Zenon
  DEF StageThenStartDest, StageWait, StageCreate, CreateFails, CreateLost, StageFails, stageRest, apiVars, ClusterTypes
<1>8. CASE StopLookup \/ Stop
  BY <1>1, <1>2, <1>3, <1>8, Zenon DEF StopLookup, Stop, DeleteOrWarn, stopRest, apiVars, ClusterTypes
<1>9. CASE TailProgress \/ Watch \/ Range \/ UNCHANGED vars
  <2>1. UNCHANGED <<src, dst, srcPod, handover, lost, apiErrs>>
    BY <1>9 DEF TailProgress, TailWait, TailTick, TailCheck, TailSend, tailRest, Watch, Range, readRest, vars,
                clusterVars, apiVars
  <2> QED BY <1>1, <2>1, Zenon DEF ClusterTypes
<1> QED BY <1>4, <1>5, <1>6, <1>7, <1>8, <1>9 DEF Next

LEMMA PollTypesStep == ASSUME TypeInv, [Next]_vars PROVE PollTypes'
<1>1. /\ ppc \in {"off", "tick", "dest", "send", "finish", "close", "delete", "done"}
      /\ psrc \in JobStates \cup {"error"} /\ pend \in Phases
      /\ announced \in BOOLEAN /\ grace \in {"off", "running", "over"}
  BY DEF TypeInv, PollTypes
<1>2. {"submitted", "transferring", "succeeded", "failed"} \subseteq Phases /\ "absent" \in JobStates
  BY DEF Phases, JobStates
<1>3. CASE Poll
  <2>1. CASE PollGetSource
    BY <1>1, <2>1 DEF PollGetSource, PollTypes
  <2>2. CASE PollDecide
    <3>1. PICK o \in JobStates \cup {"error"} : Decide(o, o = "complete")
      BY <2>2 DEF PollDecide
    <3>2. /\ ppc' \in {"tick", "send"} /\ pend' \in Phases /\ announced' \in BOOLEAN
          /\ grace' \in {"off", "running", "over"}
      BY <1>1, <1>2, <3>1, Zenon DEF Decide, Report
    <3>3. psrc' \in JobStates
      BY <1>2, <2>2 DEF PollDecide
    <3> QED BY <3>2, <3>3 DEF PollTypes
  <2>3. CASE GraceEnds \/ PollCtxDone
    BY <1>1, <1>2, <2>3 DEF GraceEnds, PollCtxDone, Report, PollTypes
  <2>4. CASE PollSend
    BY <1>1, <1>2, <2>4 DEF PollSend, PollTypes
  <2>5. CASE PollReturn
    BY <1>1, <2>5 DEF PollReturn, PollTypes
  <2> QED BY <1>3, <2>1, <2>2, <2>3, <2>4, <2>5 DEF Poll
<1>4. CASE Register
  BY <1>1, <1>4 DEF Register, PollTypes
<1>5. CASE \/ CreateDest \/ WaitForDestNodeName \/ CreateSource \/ CleanupDestJob \/ Cluster
           \/ StageThenStartDest \/ TailProgress \/ StopLookup \/ Stop \/ Watch \/ Range \/ UNCHANGED vars
  <2>1. UNCHANGED pollVars
    BY <1>5, Zenon DEF CreateDest, WaitForDestNodeName, CreateSource, CleanupDestJob, applyRest, Cluster, SourceJob,
         DestJob, JobExpires, JobDeleted, PodCollected, clusterRest, StageThenStartDest, StageWait,
         StageCreate, StageFails, stageRest, TailProgress, TailWait, TailTick, TailCheck, TailSend,
         tailRest, StopLookup, Stop, stopRest, Watch, Range, readRest, vars
  <2> QED BY <1>1, <2>1 DEF pollVars, PollTypes
<1> QED BY <1>3, <1>4, <1>5 DEF Next, Apply

LEMMA CallerTypesStep == ASSUME TypeInv, [Next]_vars PROVE CallerTypes'
<1>1. /\ mode \in Modes
      /\ apc \in {"create", "node", "source", "cleanup", "unrendered", "register", "ok", "err"}
      /\ inflight \in BOOLEAN /\ ctxDone \in BOOLEAN
      /\ gpc \in {"off", "wait", "create", "send", "cancel", "done"}
      /\ tpc \in {"off", "wait", "tick", "check", "send", "done"} /\ lines \in 0 .. MaxLines
      /\ spc \in {"off", "unknown", "source", "dest", "cancel", "done"}
      /\ rpc \in {"off", "unknown", "range", "ended"}
      /\ verdicts \subseteq {"succeeded", "failed"}
  BY DEF TypeInv, CallerTypes
<1>2. CASE Apply
  <2>1. CASE Register
    <3>1. inflight' \in BOOLEAN /\ ctxDone' \in BOOLEAN
      BY <1>1, <2>1 DEF Register
    <3> QED BY <1>1, <2>1, <3>1 DEF Register, readVars, CallerTypes
  <2>2. CASE CreateDest \/ WaitForDestNodeName \/ CreateSource \/ CleanupDestJob
    <3>1. UNCHANGED applyRest /\ apc' \in {"node", "source", "cleanup", "unrendered", "register", "err"}
      BY <2>2 DEF CreateDest, WaitForDestNodeName, CreateSource, CleanupDestJob
    <3> QED BY <1>1, <3>1 DEF applyRest, tailVars, readVars, CallerTypes
  <2> QED BY <1>2, <2>1, <2>2 DEF Apply
<1>3. CASE Cluster
  <2>1. UNCHANGED clusterRest
    BY <1>3 DEF Cluster, SourceJob, DestJob, JobExpires, JobDeleted, PodCollected
  <2> QED BY <1>1, <2>1 DEF clusterRest, tailVars, readVars, CallerTypes
<1>4. CASE Poll
  <2>1. UNCHANGED pollRest /\ (inflight' = inflight \/ inflight' = FALSE)
    BY <1>4 DEF Poll, PollGetSource, PollDecide, decideRest, GraceEnds, PollCtxDone, PollSend, PollReturn
  <2>2. inflight' \in BOOLEAN
    BY <1>1, <2>1, Zenon
  <2> QED BY <1>1, <2>1, <2>2 DEF pollRest, tailVars, readVars, CallerTypes
<1>5. CASE StageThenStartDest
  <2>1. UNCHANGED stageRest
    BY <1>5 DEF StageThenStartDest, StageWait, StageCreate, StageFails
  <2>2. gpc' \in {"create", "send", "cancel", "done"} /\ (ctxDone' = ctxDone \/ ctxDone' = TRUE)
    BY <1>5 DEF StageThenStartDest, StageWait, StageCreate, StageFails
  <2>3. ctxDone' \in BOOLEAN
    BY <1>1, <2>2, Zenon
  <2> QED BY <1>1, <2>1, <2>2, <2>3 DEF stageRest, tailVars, readVars, CallerTypes
<1>6. CASE TailProgress
  <2>1. UNCHANGED tailRest
    BY <1>6 DEF TailProgress, TailWait, TailTick, TailCheck, TailSend
  <2>2. tpc' \in {"tick", "check", "send", "done"}
    BY <1>6 DEF TailProgress, TailWait, TailTick, TailCheck, TailSend
  <2>3. lines' \in 0 .. MaxLines
    BY <1>1, <1>6, NativeRunAssumption DEF TailProgress, TailWait, TailTick, TailCheck, TailSend
  <2> QED BY <1>1, <2>1, <2>2, <2>3 DEF tailRest, readVars, CallerTypes
<1>7. CASE StopLookup \/ Stop
  <2>1. /\ UNCHANGED stopRest /\ (ctxDone' = ctxDone \/ ctxDone' = TRUE)
        /\ spc' \in {"unknown", "source", "dest", "cancel", "done"}
    BY <1>7 DEF StopLookup, Stop
  <2>2. ctxDone' \in BOOLEAN
    BY <1>1, <2>1, Zenon
  <2> QED BY <1>1, <2>1, <2>2 DEF stopRest, tailVars, readVars, CallerTypes
<1>8. CASE Watch \/ Range
  <2>1. UNCHANGED readRest /\ rpc' \in {"unknown", "range", "ended"}
    BY <1>8 DEF Watch, Range
  <2>2. verdicts' \subseteq {"succeeded", "failed"}
    BY <1>1, <1>8, Zenon DEF Watch, Range, IsTerminal
  <2> QED BY <1>1, <2>1, <2>2 DEF readRest, tailVars, CallerTypes
<1>9. CASE UNCHANGED vars
  BY <1>1, <1>9 DEF vars, tailVars, readVars, CallerTypes
<1> QED BY <1>2, <1>3, <1>4, <1>5, <1>6, <1>7, <1>8, <1>9 DEF Next

\* Every variable of a run has its type: no send overfills the updates channel, and poll
\* closes finished before updates, so that a late run.send finds its select ready and is
\* not left with the panic of a send on a closed channel alone.
THEOREM RunTypes == Spec => []TypeOK
<1>1. Init => TypeInv
  <2> SUFFICES ASSUME Init PROVE TypeInv
    OBVIOUS
  <2>1. ChannelTypes
    <3>1. chan \in Seq(Phases) /\ Len(chan) <= ChanCap
      BY NativeRunAssumption DEF Init
    <3>2. finished \in BOOLEAN /\ closed \in BOOLEAN /\ (closed => finished) /\ ppc # "close"
      BY Zenon DEF Init
    <3> QED BY <3>1, <3>2 DEF ChannelTypes
  <2>2. ClusterTypes
    <3>1. apiErrs \in 0 .. MaxApiErrors
      BY NativeRunAssumption DEF Init
    <3>2. src \in JobStates /\ dst \in JobStates /\ srcPod \in BOOLEAN /\ handover \in BOOLEAN /\ lost \in BOOLEAN
      BY Zenon DEF Init, JobStates
    <3> QED BY <3>1, <3>2 DEF ClusterTypes
  <2>3. PollTypes
    BY Zenon DEF Init, PollTypes, JobStates, Phases
  <2>4. CallerTypes
    <3>1. lines \in 0 .. MaxLines
      BY NativeRunAssumption DEF Init
    <3>2. inflight \in BOOLEAN /\ ctxDone \in BOOLEAN
      BY Zenon DEF Init
    <3> QED BY <3>1, <3>2 DEF Init, CallerTypes
  <2> QED BY <2>1, <2>2, <2>3, <2>4 DEF TypeInv
<1>2. TypeInv /\ [Next]_vars => TypeInv'
  BY ChannelStep, ClusterTypesStep, PollTypesStep, CallerTypesStep, Zenon DEF TypeInv
<1>3. TypeInv => TypeOK
  BY DEF TypeInv, ChannelTypes, ClusterTypes, PollTypes, CallerTypes, TypeOK
<1> QED BY <1>1, <1>2, <1>3, PTL DEF Spec
=============================================================================
