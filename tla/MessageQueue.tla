---------------------------- MODULE MessageQueue ----------------------------
(***************************************************************************)
(* The Ray actor between the rollouter and the trainer                     *)
(* (verl/experimental/fully_async_policy/message_queue.py).  Every method  *)
(* runs under the lock of the actor, so a method is one step.  get_sample  *)
(* waits on a condition while the queue is empty.                          *)
(*                                                                         *)
(* shutdown() is called nowhere in the repository: running stays True.     *)
(***************************************************************************)
EXTENDS Integers, Sequences

CONSTANTS
    Samples,        \* what may be put, the end marker None included
    MaxQueueSize    \* max_queue_size

ASSUME MaxQueueSizeAssumption == MaxQueueSize \in Nat \ {0}

VARIABLES
    queue,            \* the deque, oldest sample first
    totalProduced,    \* total_produced
    totalConsumed,    \* total_consumed
    droppedSamples,   \* dropped_samples
    cleared           \* history: samples removed by clear_queue

mqVars == <<queue, totalProduced, totalConsumed, droppedSamples, cleared>>

MutFullLate == Len(queue) > MaxQueueSize
Full == Len(queue) >= MaxQueueSize

(* put_sample: a full queue loses its oldest sample to make room.          *)
PutSample(sample) ==
    /\ queue' = Append(IF Full THEN Tail(queue) ELSE queue, sample)
    /\ totalProduced' = totalProduced + 1
    /\ droppedSamples' = IF Full THEN droppedSamples + 1 ELSE droppedSamples
    /\ UNCHANGED <<totalConsumed, cleared>>

(* get_sample, once its wait is over: the sample is Head(queue).           *)
GetSample ==
    /\ queue # <<>>
    /\ queue' = Tail(queue)
    /\ totalConsumed' = totalConsumed + 1
    /\ UNCHANGED <<totalProduced, droppedSamples, cleared>>

ClearQueue ==
    /\ queue' = <<>>
    /\ cleared' = cleared + Len(queue)
    /\ UNCHANGED <<totalProduced, totalConsumed, droppedSamples>>

MQInit ==
    /\ queue = <<>>
    /\ totalProduced = 0
    /\ totalConsumed = 0
    /\ droppedSamples = 0
    /\ cleared = 0

MQNext ==
    \/ \E sample \in Samples : PutSample(sample)
    \/ GetSample
    \/ ClearQueue

MQSpec == MQInit /\ [][MQNext]_mqVars

(* The statistics add up: a sample that was put is in the queue, or was    *)
(* consumed, dropped or cleared, and the queue is never over its limit.    *)
StatisticsAddUp ==
    /\ Len(queue) <= MaxQueueSize
    /\ totalProduced = totalConsumed + droppedSamples + cleared + Len(queue)
=============================================================================
