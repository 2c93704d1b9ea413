---------------------------- MODULE SampleStream ----------------------------
(***************************************************************************)
(* What the fully asynchronous pipeline promises the trainer: every sample *)
(* is delivered at most once, a sample that was pushed out of the queue is *)
(* never delivered, and the end of the stream comes last, when no sample   *)
(* is outstanding any more -- or when a generation task has failed, which  *)
(* ends the rollout early.                                                 *)
(***************************************************************************)
CONSTANT Data   \* the samples of the run

VARIABLES
    delivered,   \* samples the trainer has received
    lost,        \* samples pushed out of the queue
    failed,      \* a generation task has failed
    ended        \* the trainer has received the end of the stream

Outstanding == Data \ (delivered \cup lost)

Deliver(s) ==
    /\ ~ended
    /\ s \in Outstanding
    /\ delivered' = delivered \cup {s}
    /\ UNCHANGED <<lost, failed, ended>>

Lose(s) ==
    /\ s \in Outstanding
    /\ lost' = lost \cup {s}
    /\ UNCHANGED <<delivered, failed, ended>>

Fail ==
    /\ ~failed
    /\ failed' = TRUE
    /\ UNCHANGED <<delivered, lost, ended>>

End ==
    /\ ~ended
    /\ failed \/ Outstanding = {}
    /\ ended' = TRUE
    /\ UNCHANGED <<delivered, lost, failed>>

Init ==
    /\ delivered = {}
    /\ lost = {}
    /\ failed = FALSE
    /\ ended = FALSE

Next ==
    \/ \E s \in Data : Deliver(s) \/ Lose(s)
    \/ Fail
    \/ End

Spec == Init /\ [][Next]_<<delivered, lost, failed, ended>>
=============================================================================
