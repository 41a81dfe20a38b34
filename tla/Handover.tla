------------------------------ MODULE Handover ------------------------------
(***************************************************************************)
(* What a migration promises, whatever fails on the way: there is one      *)
(* guest, it runs in at most one place, it goes from the source to the     *)
(* destination through a pause, and never back once it runs there; and the *)
(* verdict "nil" of the destination, on which the controller deletes the   *)
(* source pod, is given only after the guest has arrived.                  *)
(***************************************************************************)
VARIABLES
  guest,   \* "source", "paused", "destination", or "lost" with its QEMU
  verdict  \* what RunDestination has returned or is bound to return

vars == <<guest, verdict>>

Init == guest = "source" /\ verdict = "none"

Pause  == guest = "source" /\ guest' = "paused" /\ UNCHANGED verdict
Return == guest = "paused" /\ guest' = "source" /\ UNCHANGED verdict
Arrive == guest = "paused" /\ guest' = "destination" /\ UNCHANGED verdict
Lose   == guest \in {"source", "paused"} /\ guest' = "lost" /\ UNCHANGED verdict

Succeed == /\ guest = "destination" /\ verdict = "none"
           /\ verdict' = "nil" /\ UNCHANGED guest
Fail    == verdict = "none" /\ verdict' = "err" /\ UNCHANGED guest

Next == Pause \/ Return \/ Arrive \/ Lose \/ Succeed \/ Fail

Spec == Init /\ [][Next]_vars
=============================================================================
