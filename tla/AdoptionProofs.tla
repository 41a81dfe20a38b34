--------------------------- MODULE AdoptionProofs ---------------------------
(***************************************************************************)
(* Proofs about Adoption for any number of QEMUs, Wait calls and watchExit *)
(* goroutines: no cold twin as long as the pending entry is in force, and  *)
(* no channel closed twice.                                                *)
(***************************************************************************)
EXTENDS Adoption, TLAPS

-----------------------------------------------------------------------------
(* The webhook *)

\* Until the entry is made the source pod holds the ReplicaSet's one slot; from then
\* on the entry is there.
PendingInv ==
  /\ dpc = "verdict" => src = "running" /\ srcOwned /\ adopted = "none" /\ ~cold
  /\ dpc # "verdict" /\ ~lapsed => mark /\ ~cold

\* The pods and the registry are left alone by the node and the shim.
LEMMA OthersKeepPending == PendingInv /\ UNCHANGED clusterVars => PendingInv'
BY DEF PendingInv, clusterVars

\* Dispatch makes the entry before it deletes the source pod, and never takes it back.
LEMMA DispatchKeepsPending == PendingInv /\ Dispatch => PendingInv'
<1> SUFFICES ASSUME PendingInv, Dispatch PROVE PendingInv'
  OBVIOUS
<1>1. CASE MarkPending
  BY <1>1, Zenon DEF MarkPending, PendingInv
<1>2. CASE DeleteSource
  BY <1>2 DEF DeleteSource, PendingInv
<1>3. CASE OrphanSource
  BY <1>3 DEF OrphanSource, PendingInv
<1>4. CASE DeleteOrphan
  BY <1>4 DEF DeleteOrphan, PendingInv
<1>5. CASE ReadSource
  BY <1>5 DEF ReadSource, PendingInv
<1>6. CASE CreateAdoptionPod
  BY <1>6 DEF CreateAdoptionPod, PendingInv
<1> QED
  BY <1>1, <1>2, <1>3, <1>4, <1>5, <1>6 DEF Dispatch

\* The ReplicaSet does not get past the webhook while the entry is there, and does
\* not touch its only pod before.
LEMMA ReplicaSetKeepsPending == PendingInv /\ ReplicaSet => PendingInv'
<1> SUFFICES ASSUME PendingInv, ReplicaSet PROVE PendingInv'
  OBVIOUS
<1>0. dpc = "verdict" => Active = 1 /\ Count(srcOwned /\ src = "terminating") = 0
  <2> SUFFICES ASSUME dpc = "verdict"
               PROVE  Active = 1 /\ Count(srcOwned /\ src = "terminating") = 0
    OBVIOUS
  <2>1. Count(srcOwned /\ src = "running") = 1 /\ Count(srcOwned /\ src = "terminating") = 0
    BY DEF PendingInv, Count
  <2>2. Count(adopted = "owned") = 0 /\ Count(cold) = 0
    BY DEF PendingInv, Count
  <2> QED
    BY <2>1, <2>2 DEF Active
<1>1. CASE RSCreates(TRUE)
  <2>1. dpc # "verdict" /\ dpc' = dpc
    BY <1>0, <1>1 DEF RSCreates
  <2>2. ~mark
    BY <1>1 DEF RSCreates, ShouldDenyPodCreate
  <2>3. lapsed' = (lapsed \/ ~TRUE)
    BY <1>1 DEF RSCreates
  <2> QED
    BY <2>1, <2>2, <2>3, Zenon DEF PendingInv
<1>2. CASE RSCreates(FALSE)
  <2>1. dpc # "verdict" /\ dpc' = dpc
    BY <1>0, <1>2 DEF RSCreates
  <2>2. lapsed' = (lapsed \/ ~FALSE)
    BY <1>2 DEF RSCreates
  <2> QED
    BY <2>1, <2>2, Zenon DEF PendingInv
<1>3. CASE RSScalesDown
  <2>1. dpc # "verdict"
    BY <1>0, <1>3 DEF RSScalesDown
  <2> QED
    BY <2>1, <1>3 DEF RSScalesDown, PendingInv
<1>4. CASE RSAdopts
  BY <1>4 DEF RSAdopts, PendingInv
<1> QED
  BY <1>1, <1>2, <1>3, <1>4, Zenon DEF ReplicaSet

\* The pending entry keeps the cold twin out for every cleanup policy and every order
\* of the steps of dispatch, ReplicaSet and kubelet (reconciler.go:427, 437, 469).
THEOREM EntryKeepsTwinOut == Spec => []NoColdTwin
<1>1. Init => PendingInv
  BY DEF Init, PendingInv
<1>2. PendingInv /\ [Next]_vars => PendingInv'
  <2> SUFFICES ASSUME PendingInv, [Next]_vars PROVE PendingInv'
    OBVIOUS
  <2>1. CASE Expire \/ LoseLeader
    BY <2>1 DEF Expire, LoseLeader, PendingInv
  <2>2. CASE SourceGone \/ PodDeleted \/ UserDeletesPod
    BY <2>2 DEF SourceGone, PodDeleted, UserDeletesPod, PendingInv, LivePods
  <2>3. CASE PodStarts \/ PodWaits \/ PodKilled \/ PodShutdown \/ ShimRuns
    BY <2>3, OthersKeepPending DEF PodStarts, PodWaits, PodKilled, PodShutdown, ShimRuns
  <2>4. ASSUME NEW v \in Vms, GuestPowersOff(v) \/ (DestTail(v) /\ UNCHANGED <<shimVars, clusterVars>>)
        PROVE  PendingInv'
    BY <2>4, OthersKeepPending DEF GuestPowersOff
  <2>5. CASE UNCHANGED vars
    BY <2>5, OthersKeepPending DEF vars
  <2> QED
    BY <2>1, <2>2, <2>3, <2>4, <2>5, DispatchKeepsPending, ReplicaSetKeepsPending DEF Next, Kubelet
<1>3. PendingInv => NoColdTwin
  BY DEF PendingInv, NoColdTwin
<1> QED
  BY <1>1, <1>2, <1>3, PTL DEF Spec

-----------------------------------------------------------------------------
(* The shim's waiters *)

WatchTypes ==
  /\ watch \in [Watches -> [pc : {"off", "poll", "close", "done"}, list : SUBSET Callers]]
  /\ waiting \in [Callers -> {"idle", "blocked", "returned"}]
  /\ waiters \subseteq Callers

\* A channel is at one place: not made yet, in s.waiters, in the copy of one watch, or
\* closed.
ChannelInv ==
  /\ WatchTypes
  /\ \A c \in Callers : waiting[c] = "idle" => c \notin waiters \cup closed
  /\ \A c \in Callers, w \in Watches : waiting[c] = "idle" => c \notin watch[w].list
  /\ waiters \cap closed = {}
  /\ \A w \in Watches : watch[w].list \cap (waiters \cup closed) = {}
  /\ \A w, x \in Watches : w # x => watch[w].list \cap watch[x].list = {}

channelVars == <<waiters, watch, waiting, closed>>

\* Wait makes its own channel; the others keep theirs.
LEMMA WaitMovesChannels ==
  ASSUME ChannelInv, NEW c \in Callers,
         Wait(c) \/ WaitReturns(c) \/ WaitCancelled(c)
  PROVE  ChannelInv' /\ panicked' = panicked
<1>1. CASE Wait(c)
  <2>1. WatchTypes'
    BY <1>1 DEF Wait, WaitRegisters, ChannelInv, WatchTypes
  <2>2. /\ watch' = watch /\ closed' = closed /\ panicked' = panicked
        /\ waiters' \subseteq waiters \cup {c} /\ waiting[c] = "idle"
        /\ \A d \in Callers : waiting'[d] = "idle" => waiting[d] = "idle" /\ d # c
    BY <1>1 DEF Wait, WaitRegisters, ChannelInv, WatchTypes
  <2> QED
    BY <2>1, <2>2 DEF ChannelInv
<1>2. CASE WaitReturns(c) \/ WaitCancelled(c)
  BY <1>2 DEF WaitReturns, WaitCancelled, ChannelInv, WatchTypes
<1> QED
  BY <1>1, <1>2

\* A watch takes all of s.waiters and leaves none; what it closes leaves its copy.
LEMMA WatchMovesChannels ==
  ASSUME ChannelInv, NEW w \in Watches,
         Start(w) \/ WatchSeesExit(w) \/ WatchCloses(w)
  PROVE  ChannelInv' /\ (panicked' => panicked)
<1>1. CASE Start(w)
  <2>1. /\ UNCHANGED <<waiters, waiting, closed, panicked>> /\ WatchTypes'
        /\ \A x \in Watches : watch'[x].list = watch[x].list
    BY <1>1 DEF Start, ChannelInv, WatchTypes
  <2> QED
    BY <2>1 DEF ChannelInv
<1>2. CASE WatchSeesExit(w)
  <2>1. /\ UNCHANGED <<waiting, closed, panicked>> /\ waiters' = {} /\ WatchTypes'
        /\ watch'[w].list = waiters
        /\ \A x \in Watches \ {w} : watch'[x] = watch[x]
    BY <1>2 DEF WatchSeesExit, WatchTakes, ChannelInv, WatchTypes
  <2> QED
    BY <2>1 DEF ChannelInv
<1>3. CASE WatchCloses(w)
  <2>1. CASE watch[w].list = {}
    <3>1. /\ UNCHANGED <<waiters, waiting, closed, panicked>> /\ WatchTypes'
          /\ \A x \in Watches : watch'[x].list = watch[x].list
      BY <1>3, <2>1 DEF WatchCloses, ChannelInv, WatchTypes
    <3> QED
      BY <3>1 DEF ChannelInv
  <2>2. CASE watch[w].list # {}
    <3>1. PICK c \in watch[w].list :
               /\ watch' = [watch EXCEPT ![w].list = @ \ {c}]
               /\ closed' = closed \cup {c}
               /\ panicked' = (c \in closed)
      BY <1>3, <2>2 DEF WatchCloses
    <3>2. /\ UNCHANGED <<waiters, waiting>> /\ WatchTypes'
          /\ watch'[w].list = watch[w].list \ {c}
          /\ \A x \in Watches \ {w} : watch'[x] = watch[x]
      BY <1>3, <3>1 DEF WatchCloses, ChannelInv, WatchTypes
    <3>3. ~panicked'
      BY <3>1, Zenon DEF ChannelInv
    <3> QED
      BY <3>1, <3>2, <3>3 DEF ChannelInv
  <2> QED
    BY <2>1, <2>2
<1> QED
  BY <1>1, <1>2, <1>3

\* What does not touch a channel.
LEMMA OthersKeepChannels ==
  ASSUME ChannelInv, UNCHANGED channelVars, panicked' = panicked
  PROVE  ChannelInv' /\ (panicked' => panicked)
BY DEF ChannelInv, WatchTypes, channelVars

\* watchExit closes no channel twice, for any number of Start and Wait calls in any
\* order with the QEMU's exit (main.go:340-350, 446-456).
THEOREM NoChannelClosedTwice == Spec => []ClosedOnce
<1>1. Init => ChannelInv /\ ~panicked
  BY DEF Init, ShimInit, ChannelInv, WatchTypes, WatchOff
<1>2. ChannelInv /\ ~panicked /\ [Next]_vars => (ChannelInv /\ ~panicked)'
  <2> SUFFICES ASSUME ChannelInv, ~panicked, [Next]_vars PROVE ChannelInv' /\ ~panicked'
    OBVIOUS
  <2>1. CASE PodStarts
    <3>1. CASE Create
      BY <3>1, OthersKeepChannels DEF Create, channelVars
    <3> QED
      BY <2>1, <3>1, WatchMovesChannels DEF PodStarts
  <2>2. CASE PodWaits
    BY <2>2, WaitMovesChannels DEF PodWaits
  <2>3. CASE ShimRuns
    BY <2>3, WaitMovesChannels, WatchMovesChannels DEF ShimRuns, ShimGoes
  <2>4. CASE PodKilled \/ PodDeleted \/ PodShutdown
    BY <2>4, OthersKeepChannels
       DEF PodKilled, PodDeleted, PodShutdown, Kill, Delete, Shutdown, shimVars, channelVars
  <2>5. CASE Dispatch
    BY <2>5, OthersKeepChannels, Zenon
       DEF Dispatch, MarkPending, DeleteSource, OrphanSource, DeleteOrphan, ReadSource,
           CreateAdoptionPod, otherVars, shimVars, channelVars
  <2>6. CASE ReplicaSet
    BY <2>6, OthersKeepChannels, Zenon
       DEF ReplicaSet, RSCreates, RSScalesDown, RSAdopts, otherVars, shimVars, channelVars
  <2>7. CASE Expire \/ LoseLeader \/ SourceGone \/ UserDeletesPod
    BY <2>7, OthersKeepChannels
       DEF Expire, LoseLeader, SourceGone, UserDeletesPod, otherVars, shimVars, channelVars
  <2>8. ASSUME NEW v \in Vms, GuestPowersOff(v) \/ (DestTail(v) /\ UNCHANGED <<shimVars, clusterVars>>)
        PROVE  ChannelInv' /\ ~panicked'
    BY <2>8, OthersKeepChannels DEF GuestPowersOff, shimVars, channelVars
  <2>9. CASE UNCHANGED vars
    BY <2>9, OthersKeepChannels DEF vars, shimVars, channelVars
  <2> QED
    BY <2>1, <2>2, <2>3, <2>4, <2>5, <2>6, <2>7, <2>8, <2>9 DEF Next, Kubelet
<1>3. ChannelInv /\ ~panicked => ClosedOnce
  BY DEF ClosedOnce
<1> QED
  BY <1>1, <1>2, <1>3, PTL DEF Spec
=============================================================================
