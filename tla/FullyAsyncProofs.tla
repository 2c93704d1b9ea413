-------------------------- MODULE FullyAsyncProofs --------------------------
(***************************************************************************)
(* Proofs about FullyAsync for any amount of data, batch size, staleness   *)
(* threshold, number of slots and any failures: the statistics of the      *)
(* queue add up, the rollouter keeps its limits, and what the trainer      *)
(* receives is the stream that SampleStream promises.                      *)
(***************************************************************************)
EXTENDS FullyAsync, FiniteSetTheorems, SequenceTheorems, TLAPS

TaskStates == {"none", "generating", "replying", "done", "failed"}
ProcPlaces == {"check", "asked", "pausing", "draining", "take", "limit", "limit_wait",
               "end", "end_wait", "failed", "marked", "stopped"}
TrainerPlaces == {"collect", "train", "sync", "reset", "sizing", "stopping", "finished"}

(* The queue and its statistics.                                           *)
QueueInv ==
    /\ queue \in Seq(Samples)
    /\ totalProduced \in Nat /\ totalConsumed \in Nat
    /\ droppedSamples \in Nat /\ cleared \in Nat
    /\ StatisticsAddUp

(* The numbers that the rollouter and the trainer count with.              *)
CountInv ==
    /\ fed \in Nat /\ taken \in Nat
    /\ taken <= fed /\ fed <= Total + 1 /\ fed - taken <= PendingSize
    /\ staleness \in Nat /\ resetActive \in Nat

(* The trainer collects nothing once it has received the end marker, and   *)
(* starts every batch from nothing.                                        *)
TrainerInv ==
    /\ trainer \in TrainerPlaces /\ ended \in BOOLEAN
    /\ got \in 0..RequiredSamples /\ localStep \in 1..SyncSteps
    /\ trainer = "collect" => got < RequiredSamples /\ ~ended
    /\ trainer = "train" => ~ended
    /\ trainer \in {"sync", "reset", "sizing"} => ended \/ got = 0
    /\ trainer \in {"stopping", "finished"} => ended

Holding == proc \in {"limit", "limit_wait"}
Marked == proc \in {"marked", "stopped"}
Failure == \E s \in Data : task[s] = "failed"

(* Samples are started in order; a task that has not finished is active.   *)
TaskInv ==
    /\ proc \in ProcPlaces
    /\ task \in [Data -> TaskStates]
    /\ active \subseteq {s \in Data : task[s] # "none"}
    /\ \A s \in Data : task[s] \in {"generating", "replying"} => s \in active
    /\ \A s \in Data : task[s] # "none" => s <= taken
    /\ \A s \in Data : s < taken => task[s] # "none"
    /\ Holding => taken \in Data /\ task[taken] = "none"
    /\ proc \in {"check", "asked", "pausing", "draining", "take"} =>
        (taken \in Data => task[taken] # "none")
    /\ proc \in {"end", "end_wait"} => taken = Total + 1
    /\ proc = "failed" => Failure
    /\ Marked => Failure \/ \A s \in Data : task[s] = "done"

(* No more tasks than the servers take.                                    *)
SlotsInv == Cardinality(active) <= MaxConcurrentSamples

InQueue == {queue[i] : i \in 1..Len(queue)}

(* A sample is at one place: not put yet, in the queue, delivered or lost; *)
(* the end marker is put by the processor and stands behind every sample,  *)
(* unless a task has failed.                                               *)
StreamInv ==
    /\ delivered \subseteq Data /\ lost \subseteq Data
    /\ delivered \cap lost = {}
    /\ InQueue \cap (delivered \cup lost) = {}
    /\ \A i, j \in 1..Len(queue) : queue[i] = queue[j] /\ queue[i] # None => i = j
    /\ \A s \in Data : task[s] \in {"none", "generating", "failed"} =>
                        s \notin InQueue \cup delivered \cup lost
    /\ trainer # "finished" =>
        \A s \in Data : task[s] \in {"replying", "done"} =>
                        s \in InQueue \cup delivered \cup lost
    /\ \A i \in 1..Len(queue) : queue[i] = None => Marked /\ (i = Len(queue) \/ Failure)

(* The active tasks whose sample is not in the queue and will not be       *)
(* before the processor has taken note of them.                            *)
Ahead == {s \in active : task[s] \in {"generating", "failed"}}
Work == Cardinality(Ahead) + Len(queue) + InHand

(* staleness_samples misses at most the sample that the processor holds    *)
(* while reset_staleness counts.                                           *)
AheadInv ==
    /\ Work <= MaxRequiredSamples + 1
    /\ proc \notin {"failed", "marked", "stopped"} => Work <= staleness + 1
    /\ proc \in {"take", "failed"} => Work <= MaxRequiredSamples
    /\ trainer = "sizing" => Cardinality(Ahead) <= resetActive
    /\ trainer = "sizing" => proc \notin {"limit_wait", "end_wait"}

IInv ==
    QueueInv /\ CountInv /\ TrainerInv /\ TaskInv /\ SlotsInv /\ StreamInv /\ AheadInv
-----------------------------------------------------------------------------
(* The numbers of set_max_required_samples.                                *)
LEMMA Constants ==
    /\ MaxRequiredSamples \in Nat \ {0} /\ MaxQueueSize = MaxRequiredSamples
    /\ MaxConcurrentSamples \in Nat
    /\ Total \in Nat \ {0} /\ PendingSize \in Nat \ {0}
    /\ RequiredSamples \in Nat \ {0} /\ SyncSteps \in Nat \ {0}
    /\ Samples = 0..Total /\ None \in Samples /\ Data \subseteq Samples
    /\ None \notin Data
<1>1. Total \in Nat \ {0} /\ PendingSize \in Nat \ {0} /\ RequiredSamples \in Nat \ {0}
      /\ SyncSteps \in Nat \ {0} /\ Slots \in Nat
  BY CountsAssumption
<1>2. MaxRequiredSamples \in Nat \ {0} /\ MaxQueueSize = MaxRequiredSamples
  BY MaxQueueSizeAssumption, QueueAssumption
<1>3. MaxConcurrentSamples \in Nat
  BY <1>1, <1>2 DEF MaxConcurrentSamples
<1>4. Samples = 0..Total /\ None \in Samples /\ Data \subseteq Samples /\ None \notin Data
  BY <1>1, QueueAssumption DEF Data, None
<1> QED
  BY <1>1, <1>2, <1>3, <1>4

(* What put_sample makes of the queue.                                     *)
LEMMA PutEffect ==
    ASSUME QueueInv, NEW sample \in Samples, PutSample(sample)
    PROVE  /\ queue' \in Seq(Samples) /\ Len(queue) \in Nat /\ Len(queue') \in Nat
           /\ Len(queue') = IF Full THEN Len(queue) ELSE Len(queue) + 1
           /\ Full => Len(queue) = MaxQueueSize /\ Len(queue) >= 1 /\ Head(queue) = queue[1]
           /\ Full => \A i \in 1..(Len(queue) - 1) : queue'[i] = queue[i + 1]
           /\ ~Full => \A i \in 1..Len(queue) : queue'[i] = queue[i]
           /\ queue'[Len(queue')] = sample
<1>1. queue \in Seq(Samples) /\ Len(queue) \in Nat /\ Len(queue) <= MaxQueueSize
      /\ MaxQueueSize \in Nat \ {0}
  BY LenProperties, MaxQueueSizeAssumption DEF QueueInv, StatisticsAddUp
<1>2. CASE Full
  <2>1. Len(queue) = MaxQueueSize /\ Len(queue) >= 1 /\ queue # <<>>
    BY <1>1, <1>2, EmptySeq DEF Full
  <2>2. /\ Tail(queue) \in Seq(Samples) /\ Len(Tail(queue)) = Len(queue) - 1
        /\ \A i \in 1..Len(Tail(queue)) : Tail(queue)[i] = queue[i + 1]
        /\ Head(queue) = queue[1]
    BY <1>1, <2>1, HeadTailProperties
  <2>3. queue' = Append(Tail(queue), sample)
    BY <1>2 DEF PutSample
  <2>4. /\ queue' \in Seq(Samples) /\ Len(queue') = Len(Tail(queue)) + 1
        /\ \A i \in 1..Len(Tail(queue)) : queue'[i] = Tail(queue)[i]
        /\ queue'[Len(Tail(queue)) + 1] = sample
    BY <2>2, <2>3, AppendProperties
  <2> QED
    BY <1>1, <1>2, <2>1, <2>2, <2>4
<1>3. CASE ~Full
  <2>1. queue' = Append(queue, sample)
    BY <1>3 DEF PutSample
  <2> QED
    BY <1>1, <1>3, <2>1, AppendProperties
<1> QED
  BY <1>2, <1>3

(* What get_sample makes of it.                                            *)
LEMMA GetEffect ==
    ASSUME QueueInv, GetSample
    PROVE  /\ queue' \in Seq(Samples) /\ Len(queue) \in Nat /\ Len(queue) >= 1
           /\ Len(queue') = Len(queue) - 1
           /\ Head(queue) = queue[1] /\ queue[1] \in Samples
           /\ \A i \in 1..(Len(queue) - 1) : queue'[i] = queue[i + 1]
<1>1. queue \in Seq(Samples) /\ queue # <<>> /\ queue' = Tail(queue)
  BY DEF QueueInv, GetSample
<1>2. Len(queue) \in Nat /\ Len(queue) >= 1
  BY <1>1, LenProperties, EmptySeq
<1>3. queue[1] \in Samples
  BY <1>1, <1>2, ElementOfSeq
<1> QED
  BY <1>1, <1>2, <1>3, HeadTailProperties

(* Every method of the message queue keeps its statistics.                 *)
LEMMA MQStep ==
    ASSUME QueueInv, MQNext \/ UNCHANGED mqVars
    PROVE  QueueInv'
<1>1. queue \in Seq(Samples) /\ Len(queue) \in Nat /\ MaxQueueSize \in Nat \ {0}
  BY LenProperties, MaxQueueSizeAssumption DEF QueueInv
<1>2. ASSUME NEW sample \in Samples, PutSample(sample) PROVE QueueInv'
  <2>1. /\ queue' \in Seq(Samples) /\ Len(queue') \in Nat
        /\ Len(queue') = IF Full THEN Len(queue) ELSE Len(queue) + 1
        /\ Full => Len(queue) = MaxQueueSize
    BY <1>2, PutEffect
  <2>2. CASE Full
    BY <1>1, <1>2, <2>1, <2>2 DEF PutSample, QueueInv, StatisticsAddUp
  <2>3. CASE ~Full
    BY <1>1, <1>2, <2>1, <2>3 DEF PutSample, QueueInv, StatisticsAddUp, Full
  <2> QED
    BY <2>2, <2>3
<1>3. CASE GetSample
  BY <1>1, <1>3, GetEffect DEF GetSample, QueueInv, StatisticsAddUp
<1>4. CASE ClearQueue
  <2>1. queue' = <<>> /\ Len(queue') = 0 /\ queue' \in Seq(Samples)
    BY <1>4, EmptySeq DEF ClearQueue
  <2> QED
    BY <1>1, <1>4, <2>1 DEF ClearQueue, QueueInv, StatisticsAddUp
<1>5. CASE UNCHANGED mqVars
  BY <1>5 DEF mqVars, QueueInv, StatisticsAddUp
<1> QED
  BY <1>2, <1>3, <1>4, <1>5 DEF MQNext

(* The queue starts empty.                                                 *)
LEMMA MQStart == MQInit => QueueInv
<1> SUFFICES ASSUME MQInit PROVE QueueInv
  OBVIOUS
<1>1. queue \in Seq(Samples) /\ Len(queue) = 0
  BY EmptySeq DEF MQInit
<1> QED
  BY <1>1, MaxQueueSizeAssumption DEF MQInit, QueueInv, StatisticsAddUp

(* The actor by itself: whatever calls reach message_queue.py in whatever  *)
(* order, total_produced, total_consumed and dropped_samples account for   *)
(* every sample, and the deque stays within max_queue_size.                *)
THEOREM QueueAddsUp == MQSpec => []StatisticsAddUp
<1>1. QueueInv /\ [MQNext]_mqVars => QueueInv'
  BY MQStep
<1>2. QueueInv => StatisticsAddUp
  BY DEF QueueInv
<1> QED
  BY <1>1, <1>2, MQStart, PTL DEF MQSpec

(* A step of the pipeline is a method of the queue or leaves it alone.     *)
LEMMA QueueStep ==
    ASSUME QueueInv, [Next]_vars, TaskInv
    PROVE  QueueInv'
<1>1. CASE PutEndMarker
  BY <1>1, MQStep, Constants DEF PutEndMarker, Put, MQNext
<1>2. ASSUME NEW s \in Data, PutGenerated(s) PROVE QueueInv'
  BY <1>2, MQStep, Constants DEF PutGenerated, Put, MQNext
<1>3. CASE GetFromQueue
  BY <1>3, MQStep DEF GetFromQueue, MQNext
<1>4. CASE ClearAtEnd
  BY <1>4, MQStep DEF ClearAtEnd, MQNext
<1>5. CASE UNCHANGED mqVars
  BY <1>5, MQStep
<1>6. UNCHANGED vars => UNCHANGED mqVars
  BY DEF vars, mqVars
<1> QED
  BY <1>1, <1>2, <1>3, <1>4, <1>5, <1>6
  DEF Next, Processor, SampleTask, Monitor, Trainer, Feed, AskStatistics, Decide, Pause,
      Drain, Resumed, Take, WaitForTask, TaskFinished, Start, StopRunning, PutReplied,
      GenerationFails, MonitorWakes, MonitorDecides, MonitorResumes, MonitorEnds,
      TrainStep, StopTraining, UpdateWeights, ResetBegins, ResetEnds, Terminated

-----------------------------------------------------------------------------
(* Sets of samples are finite.                                             *)
LEMMA FiniteData ==
    ASSUME NEW S, S \subseteq Data
    PROVE  IsFiniteSet(S) /\ Cardinality(S) \in Nat
<1>1. IsFiniteSet(Data)
  BY Constants, FS_Interval DEF Data
<1> QED
  BY <1>1, FS_Subset, FS_CardinalityType

(* Every step keeps the counters in range.                                 *)
LEMMA CountStep ==
    ASSUME QueueInv, CountInv, TaskInv, [Next]_vars
    PROVE  CountInv'
<1> USE Constants
<1>1. CASE Feed
  BY <1>1 DEF Feed, CountInv, processor, training
<1>2. CASE Take
  BY <1>2 DEF Take, CountInv, feeder, training
<1>3. CASE ResetBegins
  <2>1. Cardinality(active) \in Nat
    BY FiniteData DEF TaskInv
  <2> QED
    BY <1>3, <2>1 DEF ResetBegins, CountInv, feeder, processor
<1>4. CASE ResetEnds
  <2>1. Len(queue) \in Nat
    BY LenProperties DEF QueueInv
  <2> QED
    BY <1>4, <2>1 DEF ResetEnds, ResetValue, CountInv, feeder, processor
<1>5. CASE UNCHANGED <<fed, taken, staleness, resetActive>>
  BY <1>5 DEF CountInv
<1>6. UNCHANGED vars => UNCHANGED <<fed, taken, staleness, resetActive>>
  BY DEF vars
<1> QED
  BY <1>1, <1>2, <1>3, <1>4, <1>5, <1>6
  DEF Next, Processor, SampleTask, Monitor, Trainer, AskStatistics, Decide, Pause,
      Drain, Resumed, WaitForTask, TaskFinished, Start, PutEndMarker, StopRunning,
      PutGenerated, PutReplied, GenerationFails, MonitorWakes, MonitorDecides,
      MonitorResumes, MonitorEnds, GetFromQueue, TrainStep, StopTraining, UpdateWeights,
      ClearAtEnd, Terminated, feeder, processor, training

(* The steps of the trainer, and that nobody else moves it.                *)
LEMMA TrainerStep ==
    ASSUME TrainerInv, [Next]_vars
    PROVE  TrainerInv'
<1> USE Constants
<1>1. CASE GetFromQueue
  <2>1. trainer = "collect" /\ localStep' = localStep
    BY <1>1 DEF GetFromQueue
  <2>2. CASE Head(queue) = None
    BY <1>1, <2>1, <2>2 DEF GetFromQueue, TrainerInv, TrainerPlaces
  <2>3. CASE Head(queue) # None
    BY <1>1, <2>1, <2>3 DEF GetFromQueue, TrainerInv, TrainerPlaces
  <2> QED
    BY <2>2, <2>3
<1>2. CASE TrainStep
  BY <1>2 DEF TrainStep, TrainerInv, TrainerPlaces
<1>3. CASE StopTraining
  BY <1>3 DEF StopTraining, TrainerInv, TrainerPlaces
<1>4. CASE UpdateWeights \/ ResetBegins
  BY <1>4 DEF UpdateWeights, ResetBegins, TrainerInv, TrainerPlaces
<1>5. CASE ResetEnds
  BY <1>5 DEF ResetEnds, TrainerInv, TrainerPlaces
<1>6. CASE UNCHANGED <<trainer, got, localStep, ended>>
  BY <1>6 DEF TrainerInv
<1>7. UNCHANGED vars => UNCHANGED <<trainer, got, localStep, ended>>
  BY DEF vars
<1> QED
  BY <1>1, <1>2, <1>3, <1>4, <1>5, <1>6, <1>7
  DEF Next, Processor, SampleTask, Monitor, Trainer, Feed, AskStatistics, Decide, Pause,
      Drain, Resumed, Take, WaitForTask, TaskFinished, Start, PutEndMarker, StopRunning,
      PutGenerated, PutReplied, GenerationFails, MonitorWakes, MonitorDecides,
      MonitorResumes, MonitorEnds, ClearAtEnd, Terminated, training

-----------------------------------------------------------------------------
(* Collect: only finished tasks leave, and a failed one ends the processor.*)
LEMMA CollectStep ==
    ASSUME TaskInv, CountInv, NEW S \in SUBSET Finished,
           NEW next \in {"draining", "end", "limit"}, Collect(S, next),
           proc = "draining" => next = "draining",
           proc = "end_wait" => next = "end",
           proc = "limit_wait" => next = "limit",
           proc \in {"draining", "end_wait", "limit_wait"},
           UNCHANGED <<taken, task>>
    PROVE  TaskInv'
<1>1. active' = active \ S /\ \A s \in S : task[s] \in {"done", "failed"}
  BY DEF Collect, Finished
<1>2. /\ active' \subseteq {s \in Data : task'[s] # "none"}
      /\ \A s \in Data : task'[s] \in {"generating", "replying"} => s \in active'
  BY <1>1 DEF TaskInv
<1>3. CASE \E s \in S : task[s] = "failed"
  <2>1. proc' = "failed" /\ Failure
    BY <1>3 DEF Collect, Failure, TaskInv, Finished
  <2> QED
    BY <1>2, <2>1 DEF TaskInv, Failure, Holding, Marked, ProcPlaces
<1>4. CASE ~\E s \in S : task[s] = "failed"
  <2>1. proc' = next
    BY <1>4 DEF Collect
  <2> QED
    BY <1>2, <2>1 DEF TaskInv, Failure, Holding, Marked, ProcPlaces
<1> QED
  BY <1>3, <1>4

(* Tasks are started in order and stay active until they are collected.    *)
LEMMA TaskStep ==
    ASSUME TaskInv, CountInv, [Next]_vars
    PROVE  TaskInv'
<1> USE Constants
<1>1. CASE AskStatistics \/ Decide \/ Pause \/ Resumed \/ WaitForTask \/ StopRunning
  BY <1>1 DEF AskStatistics, Decide, Pause, Resumed, WaitForTask, StopRunning, AtLimit,
              TasksLeft, TaskInv, Failure, Holding, Marked, ProcPlaces
<1>2. CASE Drain
  <2>1. PICK S \in SUBSET Finished \ {{}} : Collect(S, "draining")
    BY <1>2 DEF Drain
  <2> QED
    BY <1>2, <2>1, CollectStep DEF Drain
<1>3. CASE TaskFinished
  <2> DEFINE next == IF proc = "end_wait" THEN "end" ELSE "limit"
  <2>1. Collect(Finished, next) /\ next \in {"draining", "end", "limit"}
        /\ proc \in {"end_wait", "limit_wait"}
    BY <1>3 DEF TaskFinished
  <2>2. (proc = "end_wait" => next = "end") /\ (proc = "limit_wait" => next = "limit")
    OBVIOUS
  <2> HIDE DEF next
  <2> QED
    BY <1>3, <2>1, <2>2, CollectStep DEF TaskFinished
<1>4. CASE Take
  <2>1. /\ proc = "take" /\ taken < fed /\ taken' = taken + 1
        /\ proc' = IF taken' > Total THEN "end" ELSE "limit"
        /\ UNCHANGED <<task, active>>
    BY <1>4 DEF Take
  <2>2. \A s \in Data : s <= taken => task[s] # "none"
    BY <2>1 DEF TaskInv, CountInv, Data
  <2>3. \A s \in Data : s < taken' => task'[s] # "none"
    BY <2>1, <2>2 DEF CountInv, Data
  <2>4. taken' \in Data => task'[taken'] = "none"
    BY <2>1 DEF TaskInv, CountInv, Data
  <2>5. \A s \in Data : task'[s] # "none" => s <= taken'
    BY <2>1 DEF TaskInv, CountInv, Data
  <2>6. IF taken' > Total THEN proc' = "end" /\ taken' = Total + 1
                          ELSE proc' = "limit" /\ taken' \in Data
    BY <2>1 DEF CountInv, Data
  <2> QED
    BY <2>1, <2>3, <2>4, <2>5, <2>6 DEF TaskInv, Failure, Holding, Marked, ProcPlaces
<1>5. CASE Start
  <2>1. /\ proc = "limit" /\ proc' = "check" /\ taken' = taken /\ taken \in Data
        /\ task[taken] = "none"
        /\ task' = [task EXCEPT ![taken] = "generating"] /\ active' = active \cup {taken}
    BY <1>5 DEF Start, TaskInv, Holding
  <2> QED
    BY <2>1 DEF TaskInv, TaskStates, CountInv, Data, Failure, Holding, Marked, ProcPlaces
<1>6. CASE PutEndMarker
  <2>1. proc' = "marked" /\ UNCHANGED <<taken, task, active>>
    BY <1>6 DEF PutEndMarker
  <2>2. CASE proc = "failed"
    BY <2>1, <2>2 DEF TaskInv, Failure, Holding, Marked, ProcPlaces
  <2>3. CASE proc = "end" /\ active = {}
    <3>1. \A s \in Data : task[s] # "none"
      BY <2>3 DEF TaskInv, Data
    <3>2. \A s \in Data : task[s] \in {"done", "failed"}
      BY <2>3, <3>1 DEF TaskInv, TaskStates
    <3> QED
      BY <2>1, <3>2 DEF TaskInv, Failure, Holding, Marked, ProcPlaces
  <2> QED
    BY <1>6, <2>2, <2>3 DEF PutEndMarker, TasksLeft
<1>7. ASSUME NEW s \in Data, PutGenerated(s) PROVE TaskInv'
  BY <1>7 DEF PutGenerated, processor, TaskInv, TaskStates, Failure, Holding, Marked, ProcPlaces
<1>8. ASSUME NEW s \in Data, PutReplied(s) PROVE TaskInv'
  BY <1>8 DEF PutReplied, processor, TaskInv, TaskStates, Failure, Holding, Marked, ProcPlaces
<1>9. ASSUME NEW s \in Data, GenerationFails(s) PROVE TaskInv'
  BY <1>9 DEF GenerationFails, processor, TaskInv, TaskStates, Failure, Holding, Marked, ProcPlaces
<1>10. CASE UNCHANGED <<proc, taken, task, active>>
  BY <1>10 DEF TaskInv, Failure, Holding, Marked
<1>11. UNCHANGED vars => UNCHANGED <<proc, taken, task, active>>
  BY DEF vars
<1> QED
  BY <1>1, <1>2, <1>3, <1>4, <1>5, <1>6, <1>7, <1>8, <1>9, <1>10, <1>11
  DEF Next, Processor, SampleTask, Monitor, Trainer, Feed, MonitorWakes, MonitorDecides,
      MonitorResumes, MonitorEnds, GetFromQueue, TrainStep, StopTraining, UpdateWeights,
      ResetBegins, ResetEnds, ClearAtEnd, Terminated, processor

(* AtLimit keeps the number of tasks within max_concurrent_samples.        *)
LEMMA SlotsStep ==
    ASSUME TaskInv, SlotsInv, [Next]_vars
    PROVE  SlotsInv'
<1>1. active \subseteq Data /\ IsFiniteSet(active) /\ Cardinality(active) \in Nat
      /\ MaxConcurrentSamples \in Nat
  BY FiniteData, Constants DEF TaskInv
<1>2. CASE active' \subseteq active
  <2>1. Cardinality(active') <= Cardinality(active) /\ Cardinality(active') \in Nat
    BY <1>1, <1>2, FS_Subset, FS_CardinalityType
  <2> QED
    BY <1>1, <2>1 DEF SlotsInv
<1>3. CASE Start
  <2>1. active' = active \cup {taken} /\ Cardinality(active) < MaxConcurrentSamples
    BY <1>1, <1>3 DEF Start, AtLimit
  <2>2. Cardinality(active') <= Cardinality(active) + 1 /\ Cardinality(active') \in Nat
    <3>1. Cardinality(active') = IF taken \in active THEN Cardinality(active)
                                                      ELSE Cardinality(active) + 1
      BY <1>1, <2>1, FS_AddElement
    <3> QED
      BY <1>1, <3>1
  <2> QED
    BY <1>1, <2>1, <2>2 DEF SlotsInv
<1>4. UNCHANGED vars => active' = active
  BY DEF vars
<1> QED
  BY <1>2, <1>3, <1>4
  DEF Next, Processor, SampleTask, Monitor, Trainer, Feed, AskStatistics, Decide, Pause,
      Drain, Resumed, Take, WaitForTask, TaskFinished, PutEndMarker, StopRunning, Collect,
      PutGenerated, PutReplied, GenerationFails, MonitorWakes, MonitorDecides,
      MonitorResumes, MonitorEnds, GetFromQueue, TrainStep, StopTraining, UpdateWeights,
      ResetBegins, ResetEnds, ClearAtEnd, Terminated

-----------------------------------------------------------------------------
(* The queue before and after a put, by index.                             *)
LEMMA PutIndex ==
    ASSUME QueueInv, NEW sample \in Samples, Put(sample)
    PROVE  \E n \in {0, 1} :
            /\ Len(queue) \in Nat /\ Len(queue') = Len(queue) + 1 - n /\ n <= Len(queue)
            /\ queue'[Len(queue')] = sample
            /\ \A i \in 1..(Len(queue) - n) : queue'[i] = queue[i + n]
            /\ \A i \in 1..Len(queue) : queue[i] \in Samples
            /\ lost' = IF n = 1 THEN lost \cup ({queue[1]} \ {None}) ELSE lost
<1>1. PutSample(sample)
  BY DEF Put
<1>2. \A i \in 1..Len(queue) : queue[i] \in Samples
  BY ElementOfSeq DEF QueueInv
<1>3. CASE Full
  <2> WITNESS 1 \in {0, 1}
  <2> QED
    BY <1>1, <1>2, <1>3, PutEffect DEF Put
<1>4. CASE ~Full
  <2> WITNESS 0 \in {0, 1}
  <2> QED
    BY <1>1, <1>2, <1>4, PutEffect DEF Put
<1> QED
  BY <1>3, <1>4

(* A put: the sample is nowhere else, and what it pushes out gets lost.    *)
LEMMA PutStream ==
    ASSUME QueueInv, StreamInv, TaskInv, NEW sample \in Samples, Put(sample),
           UNCHANGED <<delivered, trainer>>,
           sample \in Data => task[sample] = "generating",
           task' = IF sample = None THEN task ELSE [task EXCEPT ![sample] = "replying"],
           sample = None => ~Marked /\ Marked',
           sample # None => (Marked' <=> Marked)
    PROVE  StreamInv'
<1>1. PICK n \in {0, 1} :
            /\ Len(queue) \in Nat /\ Len(queue') = Len(queue) + 1 - n /\ n <= Len(queue)
            /\ queue'[Len(queue')] = sample
            /\ \A i \in 1..(Len(queue) - n) : queue'[i] = queue[i + n]
            /\ \A i \in 1..Len(queue) : queue[i] \in Samples
            /\ lost' = IF n = 1 THEN lost \cup ({queue[1]} \ {None}) ELSE lost
  BY PutIndex
<1>2. Samples = Data \cup {None} /\ None \notin Data
  BY Constants, QueueAssumption
<1>3. \A i \in 1..Len(queue') : \/ i = Len(queue') /\ queue'[i] = sample
                                \/ i \in 1..(Len(queue) - n) /\ i + n \in 1..Len(queue)
                                   /\ queue'[i] = queue[i + n]
  BY <1>1
<1>4. \A k \in 1..Len(queue) : \/ n = 1 /\ k = 1
                               \/ k - n \in 1..Len(queue') /\ queue'[k - n] = queue[k]
  BY <1>1
<1>5. Len(queue') \in 1..Len(queue')
  BY <1>1
<1>6. sample \in Data => sample \notin InQueue \cup delivered \cup lost
  BY DEF StreamInv
<1>7. lost' \subseteq Data
  BY <1>1, <1>2 DEF StreamInv
<1>8. delivered' \cap lost' = {}
  BY <1>1 DEF StreamInv, InQueue
<1>9. ASSUME NEW i \in 1..Len(queue'), queue'[i] # None
      PROVE  queue'[i] \notin delivered' \cup lost'
  <2>1. CASE i = Len(queue') /\ queue'[i] = sample
    BY <1>1, <1>2, <1>6, <1>9, <2>1 DEF InQueue
  <2>2. CASE i \in 1..(Len(queue) - n) /\ i + n \in 1..Len(queue) /\ queue'[i] = queue[i + n]
    <3>1. queue[i + n] \notin delivered \cup lost
      BY <2>2 DEF StreamInv, InQueue
    <3>2. n = 1 => queue[1] # queue[i + n]
      <4>1. SUFFICES ASSUME n = 1, queue[1] = queue[i + n] PROVE FALSE
        OBVIOUS
      <4>2. 1 \in 1..Len(queue) /\ i + n # 1
        BY <1>1, <2>2, <4>1
      <4> QED
        BY <1>9, <2>2, <4>1, <4>2 DEF StreamInv
    <3> QED
      BY <1>1, <2>2, <3>1, <3>2
  <2> QED
    BY <1>3, <2>1, <2>2
<1>10. InQueue' \cap (delivered' \cup lost') = {}
  <2>1. delivered' \cup lost' \subseteq Data
    BY <1>7 DEF StreamInv
  <2> QED
    BY <1>2, <1>9, <2>1 DEF InQueue
<1>11. ASSUME NEW i \in 1..Len(queue'), NEW j \in 1..Len(queue'),
              queue'[i] = queue'[j], queue'[i] # None
       PROVE  i = j
  <2>1. \A k \in 1..Len(queue) : sample # None => queue[k] # sample
    BY <1>2, <1>6 DEF InQueue
  <2>2. i + n \in 1..Len(queue) /\ j + n \in 1..Len(queue) /\ queue[i + n] = queue[j + n]
        /\ queue[i + n] # None => i + n = j + n
    BY DEF StreamInv
  <2> QED
    BY <1>1, <1>3, <1>11, <2>1, <2>2
<1>12. ASSUME NEW s \in Data, task'[s] \in {"none", "generating", "failed"}
       PROVE  s \notin InQueue' \cup delivered' \cup lost'
  <2>1. s # sample /\ task'[s] = task[s]
    BY <1>2, <1>12 DEF TaskInv
  <2>2. s \notin InQueue \cup delivered \cup lost
    BY <1>12, <2>1 DEF StreamInv
  <2>3. s \notin lost'
    BY <1>1, <2>2 DEF InQueue
  <2>4. s \notin InQueue'
    BY <1>3, <2>1, <2>2 DEF InQueue
  <2> QED
    BY <2>2, <2>3, <2>4
<1>13. ASSUME trainer' # "finished", NEW s \in Data, task'[s] \in {"replying", "done"}
       PROVE  s \in InQueue' \cup delivered' \cup lost'
  <2>1. CASE s = sample
    BY <1>1, <1>5, <2>1 DEF InQueue
  <2>2. CASE s # sample
    <3>1. task'[s] = task[s]
      BY <1>2, <2>2 DEF TaskInv
    <3>2. s \in InQueue \cup delivered \cup lost
      BY <1>13, <3>1 DEF StreamInv
    <3>3. ASSUME NEW k \in 1..Len(queue), queue[k] = s PROVE s \in InQueue' \cup lost'
      BY <1>1, <1>2, <1>4, <3>3 DEF InQueue
    <3>4. lost \subseteq lost'
      BY <1>1
    <3> QED
      BY <3>2, <3>3, <3>4 DEF InQueue
  <2> QED
    BY <2>1, <2>2
<1>14. ASSUME NEW i \in 1..Len(queue'), queue'[i] = None
       PROVE  Marked' /\ (i = Len(queue') \/ Failure')
  <2>1. CASE i = Len(queue') /\ queue'[i] = sample
    BY <1>14, <2>1
  <2>2. CASE i \in 1..(Len(queue) - n) /\ i + n \in 1..Len(queue) /\ queue'[i] = queue[i + n]
    <3>1. Marked
      BY <1>14, <2>2 DEF StreamInv
    <3>2. sample # None /\ sample \in Data /\ Marked'
      BY <1>2, <3>1
    <3>3. Failure
      BY <3>1, <3>2 DEF TaskInv
    <3>4. Failure'
      BY <3>2, <3>3 DEF Failure, TaskInv
    <3> QED
      BY <3>2, <3>4
  <2> QED
    BY <1>3, <2>1, <2>2
<1>15. delivered' \subseteq Data
  BY DEF StreamInv
<1> QED
  BY <1>7, <1>8, <1>10, <1>11, <1>12, <1>13, <1>14, <1>15 DEF StreamInv

(* A get: what leaves the queue is delivered, unless it is the end marker. *)
LEMMA GetStream ==
    ASSUME QueueInv, StreamInv, TaskInv, TrainerInv, GetFromQueue
    PROVE  StreamInv'
<1>1. /\ Len(queue) \in Nat /\ Len(queue) >= 1 /\ Len(queue') = Len(queue) - 1
      /\ Head(queue) = queue[1] /\ queue[1] \in Samples
      /\ \A i \in 1..(Len(queue) - 1) : queue'[i] = queue[i + 1]
  BY GetEffect DEF GetFromQueue
<1>2. /\ UNCHANGED <<task, lost, proc>>
      /\ delivered' = delivered \cup ({queue[1]} \ {None})
      /\ trainer = "collect"
  BY <1>1 DEF GetFromQueue, processor
<1>3. Samples = Data \cup {None} /\ None \notin Data
  BY Constants, QueueAssumption
<1>4. \A i \in 1..Len(queue') : i + 1 \in 1..Len(queue) /\ i + 1 # 1 /\ queue'[i] = queue[i + 1]
  BY <1>1
<1>5. \A k \in 1..Len(queue) : k = 1 \/ (k - 1 \in 1..Len(queue') /\ queue'[k - 1] = queue[k])
  BY <1>1
<1>6. 1 \in 1..Len(queue)
  BY <1>1
<1>7. delivered' \subseteq Data /\ lost' \subseteq Data
  BY <1>1, <1>2, <1>3 DEF StreamInv
<1>8. delivered' \cap lost' = {}
  BY <1>2, <1>6 DEF StreamInv, InQueue
<1>9. \A i \in 1..Len(queue') : queue'[i] # None => queue'[i] \notin delivered' \cup lost'
  BY <1>2, <1>4, <1>6 DEF StreamInv, InQueue
<1>10. InQueue' \cap (delivered' \cup lost') = {}
  BY <1>3, <1>7, <1>9 DEF InQueue
<1>11. ASSUME NEW i \in 1..Len(queue'), NEW j \in 1..Len(queue'),
              queue'[i] = queue'[j], queue'[i] # None
       PROVE  i = j
  <2>1. i + 1 = j + 1
    BY <1>4, <1>11 DEF StreamInv
  <2> QED
    BY <2>1
<1>12. \A s \in Data : task'[s] \in {"none", "generating", "failed"} =>
                        s \notin InQueue' \cup delivered' \cup lost'
  BY <1>2, <1>4, <1>6 DEF StreamInv, InQueue
<1>13. ASSUME NEW s \in Data, task'[s] \in {"replying", "done"}
       PROVE  s \in InQueue' \cup delivered' \cup lost'
  <2>1. s \in InQueue \cup delivered \cup lost
    BY <1>2, <1>13 DEF StreamInv
  <2>2. ASSUME NEW k \in 1..Len(queue), queue[k] = s PROVE s \in InQueue' \cup delivered'
    BY <1>2, <1>3, <1>5, <2>2 DEF InQueue
  <2> QED
    BY <1>2, <2>1, <2>2 DEF InQueue
<1>14. ASSUME NEW i \in 1..Len(queue'), queue'[i] = None
       PROVE  Marked' /\ (i = Len(queue') \/ Failure')
  <2>1. Marked /\ (i + 1 = Len(queue) \/ Failure)
    BY <1>4, <1>14 DEF StreamInv
  <2> QED
    BY <1>1, <1>2, <2>1 DEF Marked, Failure
<1> QED
  BY <1>7, <1>8, <1>10, <1>11, <1>12, <1>13, <1>14 DEF StreamInv

(* Steps that move no sample: tasks start, end or fail, the processor and  *)
(* the trainer move on.                                                    *)
LEMMA QuietStream ==
    ASSUME StreamInv, UNCHANGED <<queue, delivered, lost>>,
           Marked => Marked', Failure => Failure', trainer = "finished" => trainer' = "finished",
           \A s \in Data :
            /\ task'[s] \in {"none", "generating", "failed"} =>
                    task[s] \in {"none", "generating", "failed"}
            /\ task'[s] \in {"replying", "done"} => task[s] \in {"replying", "done"}
    PROVE  StreamInv'
BY DEF StreamInv, InQueue

(* Samples move from task to queue to trainer, and the end marker stays    *)
(* last.                                                                   *)
LEMMA StreamStep ==
    ASSUME QueueInv, StreamInv, TaskInv, TrainerInv, [Next]_vars
    PROVE  StreamInv'
<1>1. CASE PutEndMarker
  <2>1. None \in Samples /\ None \notin Data
    BY Constants
  <2>2. ~Marked /\ Marked' /\ UNCHANGED <<delivered, trainer, task>> /\ Put(None)
    BY <1>1 DEF PutEndMarker, Marked, training
  <2> QED
    BY <2>1, <2>2, PutStream
<1>2. ASSUME NEW s \in Data, PutGenerated(s) PROVE StreamInv'
  <2>1. s \in Samples /\ s # None
    BY Constants
  <2>2. (Marked' <=> Marked) /\ UNCHANGED <<delivered, trainer>> /\ Put(s)
        /\ task[s] = "generating" /\ task' = [task EXCEPT ![s] = "replying"]
    BY <1>2 DEF PutGenerated, Marked, training, processor
  <2> QED
    BY <2>1, <2>2, PutStream
<1>3. CASE GetFromQueue
  BY <1>3, GetStream
<1>4. CASE ClearAtEnd
  <2>1. /\ queue' = <<>> /\ UNCHANGED <<delivered, lost, task, trainer>>
        /\ trainer = "finished"
    BY <1>4 DEF ClearAtEnd, ClearQueue, AllDone, training
  <2>2. Len(queue') = 0
    BY <2>1, EmptySeq
  <2>3. InQueue' = {}
    BY <2>2 DEF InQueue
  <2> QED
    BY <2>1, <2>2, <2>3 DEF StreamInv
<1>5. ASSUME NEW s \in Data, PutReplied(s) \/ GenerationFails(s) PROVE StreamInv'
  <2>1. /\ UNCHANGED <<queue, delivered, lost, proc, trainer>>
        /\ \/ task[s] = "replying" /\ task' = [task EXCEPT ![s] = "done"]
           \/ task[s] = "generating" /\ task' = [task EXCEPT ![s] = "failed"]
    BY <1>5 DEF PutReplied, GenerationFails, mqVars, processor, training
  <2>2. \A t \in Data : task'[t] = IF t = s THEN task'[s] ELSE task[t]
    BY <2>1 DEF TaskInv
  <2>3. \/ task[s] = "replying" /\ task'[s] = "done"
        \/ task[s] = "generating" /\ task'[s] = "failed"
    BY <2>1 DEF TaskInv
  <2>4. Failure => Failure'
    BY <2>2, <2>3 DEF Failure
  <2>5. Marked => Marked'
    BY <2>1 DEF Marked
  <2>6. \A t \in Data :
          /\ task'[t] \in {"none", "generating", "failed"} => task[t] \in {"none", "generating", "failed"}
          /\ task'[t] \in {"replying", "done"} => task[t] \in {"replying", "done"}
    BY <2>2, <2>3
  <2> QED
    BY <2>1, <2>4, <2>5, <2>6, QuietStream
<1>6. CASE Start
  <2>1. /\ UNCHANGED <<queue, delivered, lost, trainer>> /\ proc = "limit"
        /\ task' = [task EXCEPT ![taken] = "generating"]
        /\ taken \in Data /\ task[taken] = "none"
    BY <1>6 DEF Start, mqVars, training, TaskInv, Holding
  <2>2. Failure => Failure'
    BY <2>1 DEF Failure, TaskInv
  <2>3. ~Marked
    BY <2>1 DEF Marked
  <2>4. \A s \in Data :
          /\ task'[s] \in {"none", "generating", "failed"} => task[s] \in {"none", "generating", "failed"}
          /\ task'[s] \in {"replying", "done"} => task[s] \in {"replying", "done"}
    BY <2>1 DEF TaskInv
  <2> QED
    BY <2>1, <2>2, <2>3, <2>4, QuietStream
<1>7. CASE /\ UNCHANGED <<queue, task, delivered, lost>>
           /\ Marked => Marked'
           /\ trainer = "finished" => trainer' = "finished"
  BY <1>7, QuietStream DEF Failure
<1>8. UNCHANGED vars => /\ UNCHANGED <<queue, task, delivered, lost>>
                        /\ Marked => Marked'
                        /\ trainer = "finished" => trainer' = "finished"
  BY DEF vars, Marked
<1>9. CASE Monitor \/ Feed \/ Terminated
  BY <1>7, <1>8, <1>9
  DEF Monitor, Feed, MonitorWakes, MonitorDecides, MonitorResumes, MonitorEnds, Terminated,
      mqVars, processor, training, Marked
<1>10. CASE \/ AskStatistics \/ Decide \/ Pause \/ Drain \/ Resumed \/ Take \/ WaitForTask
            \/ TaskFinished \/ StopRunning
  BY <1>7, <1>10
  DEF AskStatistics, Decide, Pause, Drain, Resumed, Take, WaitForTask, TaskFinished,
      StopRunning, AtLimit, mqVars, training, Marked
<1>11. CASE TrainStep \/ StopTraining \/ UpdateWeights \/ ResetBegins \/ ResetEnds
  BY <1>7, <1>11
  DEF TrainStep, StopTraining, UpdateWeights, ResetBegins, ResetEnds, mqVars, processor, Marked
<1> QED
  BY <1>1, <1>2, <1>3, <1>4, <1>5, <1>6, <1>8, <1>7, <1>9, <1>10, <1>11
  DEF Next, Processor, SampleTask, Trainer

-----------------------------------------------------------------------------
(* The numbers of AheadInv.                                                *)
LEMMA AheadTypes ==
    ASSUME QueueInv, TaskInv
    PROVE  /\ Ahead \subseteq Data /\ IsFiniteSet(Ahead) /\ Cardinality(Ahead) \in Nat
           /\ Len(queue) \in Nat /\ InHand \in {0, 1}
           /\ Work = Cardinality(Ahead) + Len(queue) + InHand
           /\ MaxRequiredSamples \in Nat \ {0}
<1>1. Ahead \subseteq Data
  BY DEF Ahead, TaskInv
<1> QED
  BY <1>1, FiniteData, LenProperties, Constants DEF QueueInv, InHand, Work

(* The work in the next state, as numbers.                                 *)
LEMMA AheadTypesNext ==
    ASSUME QueueInv', TaskInv'
    PROVE  /\ Ahead' \subseteq Data /\ Cardinality(Ahead') \in Nat
           /\ Len(queue') \in Nat /\ InHand' \in {0, 1}
           /\ Work' = Cardinality(Ahead') + Len(queue') + InHand'
<1>1. Ahead' \subseteq Data
  BY DEF Ahead, TaskInv
<1> QED
  BY <1>1, FiniteData, LenProperties DEF QueueInv, InHand, Work

(* Steps that add no work and enter no place that AheadInv speaks of.      *)
LEMMA LessWork ==
    ASSUME QueueInv, QueueInv', TaskInv, TaskInv', CountInv, AheadInv,
           Len(queue') <= Len(queue), InHand' <= InHand, Ahead' \subseteq Ahead,
           UNCHANGED staleness,
           proc' \in {"take", "failed"} => Work <= MaxRequiredSamples,
           proc \in {"failed", "marked", "stopped"} => proc' \in {"failed", "marked", "stopped"},
           trainer' = "sizing" =>
            /\ trainer = "sizing" /\ resetActive' = resetActive
            /\ proc' \in {"limit_wait", "end_wait"} => proc \in {"limit_wait", "end_wait"}
    PROVE  AheadInv'
<1>1. Cardinality(Ahead') <= Cardinality(Ahead)
  <2>1. IsFiniteSet(Ahead)
    BY AheadTypes
  <2> QED
    BY <2>1, FS_Subset
<1>2. /\ Cardinality(Ahead) \in Nat /\ Len(queue) \in Nat /\ InHand \in {0, 1}
      /\ Work = Cardinality(Ahead) + Len(queue) + InHand /\ MaxRequiredSamples \in Nat
  BY AheadTypes
<1>3. /\ Cardinality(Ahead') \in Nat /\ Len(queue') \in Nat /\ InHand' \in {0, 1}
      /\ Work' = Cardinality(Ahead') + Len(queue') + InHand'
  BY AheadTypesNext
<1>4. Work' <= Work /\ Work \in Nat /\ Work' \in Nat
  BY <1>1, <1>2, <1>3
<1>5. staleness \in Nat /\ resetActive \in Nat
  BY DEF CountInv
<1> QED
  BY <1>1, <1>2, <1>3, <1>4, <1>5 DEF AheadInv

(* Finished tasks leave: if one of them has failed, there is less work.    *)
LEMMA CollectAhead ==
    ASSUME QueueInv, QueueInv', TaskInv, TaskInv', CountInv, AheadInv,
           NEW S \in SUBSET Finished, NEW next \in {"draining", "end", "limit"},
           Collect(S, next),
           proc = "draining" => next = "draining",
           proc = "end_wait" => next = "end",
           proc = "limit_wait" => next = "limit",
           proc \in {"draining", "end_wait", "limit_wait"},
           UNCHANGED <<queue, task, staleness, trainer, resetActive>>
    PROVE  AheadInv'
<1>1. active' = active \ S
  BY DEF Collect
<1>2. Ahead' \subseteq Ahead
  BY <1>1 DEF Ahead
<1>3. Len(queue') <= Len(queue)
  BY LenProperties DEF QueueInv
<1>4. CASE \E s \in S : task[s] = "failed"
  <2>1. proc' = "failed"
    BY <1>4 DEF Collect
  <2>2. PICK s \in S : task[s] = "failed"
    BY <1>4
  <2>3. s \in Ahead /\ s \notin Ahead'
    BY <1>1, <2>2 DEF Ahead, Finished
  <2>4. /\ IsFiniteSet(Ahead) /\ Cardinality(Ahead) \in Nat /\ Len(queue) \in Nat
        /\ InHand \in {0, 1} /\ Work = Cardinality(Ahead) + Len(queue) + InHand
        /\ MaxRequiredSamples \in Nat
    BY AheadTypes
  <2>5. /\ Cardinality(Ahead') \in Nat /\ Work' = Cardinality(Ahead') + Len(queue') + InHand'
    BY AheadTypesNext
  <2>6. Cardinality(Ahead') <= Cardinality(Ahead) - 1
    <3>1. Cardinality(Ahead \ {s}) = Cardinality(Ahead) - 1 /\ IsFiniteSet(Ahead \ {s})
      BY <2>3, <2>4, FS_RemoveElement
    <3>2. Ahead' \subseteq Ahead \ {s}
      BY <1>2, <2>3
    <3>3. Cardinality(Ahead') <= Cardinality(Ahead \ {s})
      BY <3>1, <3>2, FS_Subset
    <3> QED
      BY <3>1, <3>3
  <2>7. InHand' = 0
    BY <2>1 DEF InHand
  <2>8. Work' <= Work - 1 /\ Work \in Nat /\ Work' \in Nat
    BY <2>4, <2>5, <2>6, <2>7
  <2>9. resetActive \in Nat /\ (trainer = "sizing" => Cardinality(Ahead') <= resetActive)
    BY <2>4, <2>5, <2>6 DEF CountInv, AheadInv
  <2> QED
    BY <2>1, <2>4, <2>8, <2>9 DEF AheadInv
<1>5. CASE ~\E s \in S : task[s] = "failed"
  <2>1. proc' = next
    BY <1>5 DEF Collect
  <2>2. InHand' <= InHand
    BY <2>1 DEF InHand
  <2> QED
    BY <1>2, <1>3, <2>1, <2>2, LessWork
<1> QED
  BY <1>4, <1>5

(* The staleness counter covers the work that is ahead of the trainer,     *)
(* across the awaits of reset_staleness and of the processor.              *)
LEMMA AheadStep ==
    ASSUME QueueInv, QueueInv', TaskInv, TaskInv', CountInv, CountInv', TrainerInv, AheadInv,
           [Next]_vars
    PROVE  AheadInv'
<1> USE Constants
<1>n. /\ IsFiniteSet(Ahead) /\ Cardinality(Ahead) \in Nat /\ Len(queue) \in Nat
      /\ InHand \in {0, 1} /\ Work = Cardinality(Ahead) + Len(queue) + InHand
      /\ Work \in Nat /\ staleness \in Nat /\ resetActive \in Nat
      /\ MaxRequiredSamples \in Nat \ {0}
  BY AheadTypes DEF CountInv
<1>m. /\ Cardinality(Ahead') \in Nat /\ Len(queue') \in Nat
      /\ InHand' \in {0, 1} /\ Work' = Cardinality(Ahead') + Len(queue') + InHand'
      /\ Work' \in Nat /\ staleness' \in Nat /\ resetActive' \in Nat
  BY AheadTypesNext DEF CountInv
<1>1. CASE AskStatistics \/ Pause \/ Resumed \/ StopRunning
  <2>1. /\ UNCHANGED <<queue, task, active, staleness, trainer, resetActive>>
        /\ proc' \notin {"take", "failed", "limit", "limit_wait", "end_wait"}
        /\ proc \in {"failed", "marked", "stopped"} => proc' \in {"failed", "marked", "stopped"}
    BY <1>1 DEF AskStatistics, Pause, Resumed, StopRunning, mqVars, training
  <2>2. InHand' <= InHand /\ Ahead' = Ahead
    BY <2>1, <1>n DEF InHand, Ahead
  <2> QED
    BY <2>1, <2>2, <1>n, LessWork
<1>2. CASE Decide
  <2>1. /\ UNCHANGED <<queue, task, active, staleness, trainer, resetActive>>
        /\ proc = "asked" /\ proc' \in {"pausing", "take"}
        /\ proc' = "take" => ~(staleness >= MaxRequiredSamples)
    BY <1>2 DEF Decide, ShouldPause, mqVars, training
  <2>2. InHand' <= InHand /\ Ahead' = Ahead
    BY <2>1, <1>n DEF InHand, Ahead
  <2>3. proc' = "take" => Work <= MaxRequiredSamples
    BY <2>1, <1>n DEF AheadInv
  <2> QED
    BY <2>1, <2>2, <2>3, <1>n, LessWork
<1>3. CASE WaitForTask
  <2>1. /\ UNCHANGED <<queue, task, active, staleness, trainer, resetActive>>
        /\ trainer # "sizing"
        /\ \/ proc = "limit" /\ proc' = "limit_wait"
           \/ proc = "end" /\ proc' = "end_wait"
    BY <1>3 DEF WaitForTask, AtLimit, Locked, mqVars, training
  <2>2. InHand' <= InHand /\ Ahead' = Ahead
    BY <2>1, <1>n DEF InHand, Ahead
  <2> QED
    BY <2>1, <2>2, <1>n, LessWork
<1>4. CASE Drain
  <2>1. PICK S \in SUBSET Finished \ {{}} : Collect(S, "draining")
    BY <1>4 DEF Drain
  <2> QED
    BY <1>4, <2>1, CollectAhead DEF Drain, mqVars, training
<1>5. CASE TaskFinished
  <2> DEFINE next == IF proc = "end_wait" THEN "end" ELSE "limit"
  <2>1. /\ Collect(Finished, next) /\ next \in {"draining", "end", "limit"}
        /\ proc \in {"end_wait", "limit_wait"}
        /\ UNCHANGED <<queue, task, staleness, trainer, resetActive>>
    BY <1>5 DEF TaskFinished, mqVars, training
  <2>2. (proc = "end_wait" => next = "end") /\ (proc = "limit_wait" => next = "limit")
    OBVIOUS
  <2> HIDE DEF next
  <2> QED
    BY <2>1, <2>2, CollectAhead
<1>6. CASE Take
  <2>1. /\ UNCHANGED <<queue, task, active, trainer, resetActive>>
        /\ proc = "take" /\ proc' \in {"end", "limit"} /\ staleness' = staleness + 1
    BY <1>6 DEF Take, mqVars, training
  <2>2. InHand = 0 /\ Ahead' = Ahead /\ Work' <= Work + 1
    BY <2>1, <1>n, <1>m DEF InHand, Ahead
  <2> QED
    BY <2>1, <2>2, <1>n, <1>m, SMTT(30) DEF AheadInv
<1>7. CASE Start
  <2>1. /\ UNCHANGED <<queue, staleness, trainer, resetActive>> /\ trainer # "sizing"
        /\ proc = "limit" /\ proc' = "check" /\ taken \in Data /\ task[taken] = "none"
        /\ task' = [task EXCEPT ![taken] = "generating"] /\ active' = active \cup {taken}
    BY <1>7 DEF Start, mqVars, training, Locked, TaskInv, Holding
  <2>2. Ahead' = Ahead \cup {taken} /\ taken \notin Ahead
    BY <2>1 DEF Ahead, TaskInv
  <2>3. Cardinality(Ahead') = Cardinality(Ahead) + 1
    BY <2>2, <1>n, FS_AddElement
  <2>4. InHand = 1 /\ InHand' = 0
    BY <2>1 DEF InHand
  <2>5. Work' = Work
    BY <2>1, <2>3, <2>4, <1>n, <1>m
  <2> QED
    BY <2>1, <2>5, <1>n, <1>m DEF AheadInv
<1>8. CASE PutEndMarker
  <2>1. /\ PutSample(None) /\ UNCHANGED <<task, active, staleness, trainer, resetActive>>
        /\ proc' = "marked"
        /\ proc = "failed" \/ (proc = "end" /\ active = {})
    BY <1>8 DEF PutEndMarker, Put, TasksLeft, training
  <2>2. InHand = 0 /\ InHand' = 0 /\ Ahead' = Ahead
    BY <2>1 DEF InHand, Ahead
  <2>3. Len(queue') <= Len(queue) + 1 /\ Len(queue') <= MaxRequiredSamples
    <3>1. Len(queue') <= Len(queue) + 1
      BY <2>1, <1>n, PutEffect
    <3>2. Len(queue') <= MaxRequiredSamples
      BY DEF QueueInv, StatisticsAddUp
    <3> QED
      BY <3>1, <3>2
  <2>4. CASE proc = "failed"
    BY <2>1, <2>2, <2>3, <2>4, <1>n, <1>m DEF AheadInv
  <2>5. CASE active = {}
    <3>1. Cardinality(Ahead) = 0
      BY <2>5, FS_EmptySet DEF Ahead
    <3> QED
      BY <2>1, <2>2, <2>3, <3>1, <1>n, <1>m DEF AheadInv
  <2> QED
    BY <2>1, <2>4, <2>5
<1>9. ASSUME NEW s \in Data, PutGenerated(s) PROVE AheadInv'
  <2>1. /\ PutSample(s) /\ UNCHANGED <<proc, active, staleness, trainer, resetActive>>
        /\ task[s] = "generating" /\ task' = [task EXCEPT ![s] = "replying"]
    BY <1>9 DEF PutGenerated, Put, processor, training
  <2>2. s \in Ahead /\ Ahead' = Ahead \ {s}
    BY <2>1 DEF Ahead, TaskInv
  <2>3. Cardinality(Ahead') = Cardinality(Ahead) - 1
    BY <2>2, <1>n, FS_RemoveElement
  <2>4. Len(queue') <= Len(queue) + 1
    BY <2>1, <1>n, PutEffect
  <2>5. Work' <= Work
    BY <2>1, <2>3, <2>4, <1>n, <1>m, SMTT(30) DEF InHand
  <2>6. trainer = "sizing" => Cardinality(Ahead') <= resetActive
    BY <2>3, <1>n, <1>m, SMTT(30) DEF AheadInv
  <2>7. proc \notin {"failed", "marked", "stopped"} => Work' <= staleness + 1
    BY <2>5, <1>n, <1>m DEF AheadInv
  <2>8. proc \in {"take", "failed"} => Work' <= MaxRequiredSamples
    BY <2>5, <1>n, <1>m DEF AheadInv
  <2>9. Work' <= MaxRequiredSamples + 1
    BY <2>5, <1>n, <1>m DEF AheadInv
  <2> QED
    BY <2>1, <2>6, <2>7, <2>8, <2>9 DEF AheadInv
<1>10. ASSUME NEW s \in Data, PutReplied(s) \/ GenerationFails(s) PROVE AheadInv'
  <2>1. /\ UNCHANGED <<queue, proc, active, staleness, trainer, resetActive>>
        /\ \/ task[s] = "replying" /\ task' = [task EXCEPT ![s] = "done"]
           \/ task[s] = "generating" /\ task' = [task EXCEPT ![s] = "failed"]
    BY <1>10 DEF PutReplied, GenerationFails, mqVars, processor, training
  <2>2. Ahead' = Ahead
    BY <2>1 DEF Ahead, TaskInv
  <2> QED
    BY <2>1, <2>2, <1>n DEF AheadInv, Work, InHand
<1>11. CASE GetFromQueue \/ ClearAtEnd
  <2>1. /\ UNCHANGED <<proc, task, active, staleness, resetActive>>
        /\ trainer' # "sizing"
    BY <1>11 DEF GetFromQueue, ClearAtEnd, AllDone, processor, training
  <2>2. Len(queue') <= Len(queue)
    <3>1. CASE GetFromQueue
      BY <3>1, GetEffect, <1>n DEF GetFromQueue
    <3>2. CASE ClearAtEnd
      BY <3>2, <1>n, EmptySeq DEF ClearAtEnd, ClearQueue
    <3> QED
      BY <1>11, <3>1, <3>2
  <2>3. InHand' <= InHand /\ Ahead' = Ahead
    BY <2>1, <1>n DEF InHand, Ahead
  <2> QED
    BY <2>1, <2>2, <2>3, LessWork DEF AheadInv
<1>12. CASE ResetBegins
  <2>1. /\ UNCHANGED <<queue, task, active, staleness, proc>>
        /\ proc \notin {"limit_wait", "end_wait"} /\ resetActive' = Cardinality(active)
    BY <1>12 DEF ResetBegins, Locked, mqVars, processor
  <2>2. Ahead' = Ahead
    BY <2>1 DEF Ahead
  <2>3. Cardinality(Ahead) <= Cardinality(active)
    <3>1. Ahead \subseteq active /\ IsFiniteSet(active)
      BY FiniteData DEF Ahead, TaskInv
    <3> QED
      BY <3>1, FS_Subset
  <2> QED
    BY <2>1, <2>2, <2>3 DEF AheadInv, Work, InHand
<1>13. CASE ResetEnds
  <2>1. /\ UNCHANGED <<queue, task, active, proc>> /\ trainer = "sizing"
        /\ staleness' = resetActive + Len(queue) /\ trainer' # "sizing"
    BY <1>13 DEF ResetEnds, ResetValue, mqVars, processor
  <2>2. Ahead' = Ahead /\ InHand' = InHand
    BY <2>1 DEF Ahead, InHand
  <2>3. Work' = Work /\ Work <= staleness' + 1
    BY <2>1, <2>2, <1>n, <1>m DEF AheadInv
  <2> QED
    BY <2>1, <2>3 DEF AheadInv
<1>14. CASE /\ UNCHANGED <<queue, task, active, staleness, proc, resetActive>>
            /\ trainer' = "sizing" => trainer = "sizing"
  BY <1>14 DEF AheadInv, Work, InHand, Ahead
<1>15. UNCHANGED vars => /\ UNCHANGED <<queue, task, active, staleness, proc, resetActive>>
                         /\ trainer' = "sizing" => trainer = "sizing"
  BY DEF vars
<1> QED
  BY <1>1, <1>2, <1>3, <1>4, <1>5, <1>6, <1>7, <1>8, <1>9, <1>10, <1>11, <1>12, <1>13,
     <1>14, <1>15
  DEF Next, Processor, SampleTask, Monitor, Trainer, Feed, MonitorWakes, MonitorDecides,
      MonitorResumes, MonitorEnds, TrainStep, StopTraining, UpdateWeights, Terminated,
      mqVars, processor, training

-----------------------------------------------------------------------------
(* Nothing has been started in an initial state.                           *)
LEMMA InitInv == Init => IInv
<1> SUFFICES ASSUME Init PROVE IInv
  OBVIOUS
<1> USE Constants
<1>1. QueueInv
  BY MQStart DEF Init
<1>2. CountInv /\ TrainerInv
  <2>1. fed = 0 /\ taken = 0 /\ staleness = 0 /\ resetActive = 0
        /\ trainer = "collect" /\ got = 0 /\ localStep = 1 /\ ended = FALSE
    BY DEF Init
  <2>2. CountInv
    BY <2>1 DEF CountInv
  <2>3. got \in 0..RequiredSamples /\ got < RequiredSamples /\ localStep \in 1..SyncSteps
    BY <2>1
  <2>4. TrainerInv
    BY <2>1, <2>3 DEF TrainerInv, TrainerPlaces
  <2> QED
    BY <2>2, <2>4
<1>3. TaskInv
  BY DEF Init, TaskInv, TaskStates, ProcPlaces, Holding, Marked, Data
<1>4. queue = <<>> /\ Len(queue) = 0
  BY EmptySeq DEF Init, MQInit
<1>5. StreamInv
  <2>1. InQueue = {}
    BY <1>4 DEF InQueue
  <2> QED
    BY <1>4, <2>1 DEF Init, StreamInv, Data
<1>6. Cardinality(active) = 0 /\ Ahead = {} /\ Cardinality(Ahead) = 0
  BY FS_EmptySet DEF Init, Ahead
<1>7. SlotsInv
  BY <1>6 DEF SlotsInv
<1>8. AheadInv
  BY <1>4, <1>6 DEF Init, AheadInv, Work, InHand
<1> QED
  BY <1>1, <1>2, <1>3, <1>5, <1>7, <1>8 DEF IInv

(* Every step keeps the invariant.                                         *)
LEMMA NextInv == IInv /\ [Next]_vars => IInv'
<1> SUFFICES ASSUME IInv, [Next]_vars PROVE IInv'
  OBVIOUS
<1>1. QueueInv' /\ CountInv' /\ TaskInv'
  BY QueueStep, CountStep, TaskStep DEF IInv
<1>2. TrainerInv' /\ SlotsInv' /\ StreamInv'
  BY TrainerStep, SlotsStep, StreamStep DEF IInv
<1>3. AheadInv'
  BY <1>1, AheadStep DEF IInv
<1> QED
  BY <1>1, <1>2, <1>3 DEF IInv

(* The inductive invariant of the rollouter, the queue and the trainer.    *)
THEOREM Invariance == Spec => []IInv
BY InitInv, NextInv, PTL DEF Spec

(* In the pipeline too, the statistics of message_queue.py account for     *)
(* every sample and for the end marker, whatever is pushed out or cleared. *)
THEOREM StatisticsKept == Spec => []StatisticsAddUp
<1>1. IInv => StatisticsAddUp
  BY DEF IInv, QueueInv
<1> QED
  BY <1>1, Invariance, PTL

(* pending_queue never exceeds its capacity, no more tasks are active than *)
(* max_concurrent_samples, and a batch has at most required_samples.       *)
THEOREM TypeCorrect == Spec => []TypeOK
<1>1. IInv => TypeOK
  <2> SUFFICES ASSUME IInv PROVE TypeOK
    OBVIOUS
  <2>1. taken \in 0..fed /\ fed \in 0..(Total + 1) /\ fed - taken <= PendingSize
        /\ staleness \in Nat
    BY Constants DEF IInv, CountInv
  <2> QED
    BY <2>1 DEF IInv, QueueInv, TaskInv, TaskStates, SlotsInv, TrainerInv, TypeOK
<1> QED
  BY <1>1, Invariance, PTL

(* However pauses, resets of staleness_samples and failures of tasks       *)
(* interleave, the rollouter has no more than max_required_samples + 1     *)
(* samples under way: what reset_staleness misses between reading          *)
(* len(active_tasks) and the size of the queue is the one sample that the  *)
(* processor holds.                                                        *)
THEOREM AheadBounded == Spec => []RunsAheadBounded
<1>1. IInv => RunsAheadBounded
  <2> SUFFICES ASSUME IInv PROVE RunsAheadBounded
    OBVIOUS
  <2>1. /\ IsFiniteSet(Ahead) /\ Cardinality(Ahead) \in Nat /\ Len(queue) \in Nat
        /\ InHand \in {0, 1} /\ Work = Cardinality(Ahead) + Len(queue) + InHand
        /\ MaxRequiredSamples \in Nat
    BY AheadTypes DEF IInv
  <2>2. Generating \subseteq Ahead
    BY DEF IInv, TaskInv, Generating, Ahead
  <2>3. Cardinality(Generating) <= Cardinality(Ahead) /\ Cardinality(Generating) \in Nat
    BY <2>1, <2>2, FS_Subset, FS_CardinalityType
  <2>4. Work <= MaxRequiredSamples + 1
    BY DEF IInv, AheadInv
  <2> QED
    BY <2>1, <2>3, <2>4 DEF RunsAheadBounded
<1> QED
  BY <1>1, Invariance, PTL

-----------------------------------------------------------------------------
(* A put that pushes out a sample loses one that is outstanding.           *)
LEMMA PutRefines ==
    ASSUME IInv, NEW sample \in Samples, Put(sample),
           UNCHANGED <<delivered, ended>>, Failure' = Failure
    PROVE  Stream!Next \/ UNCHANGED <<delivered, lost, Failure, ended>>
<1>1. PICK n \in {0, 1} :
            /\ Len(queue) \in Nat /\ Len(queue') = Len(queue) + 1 - n /\ n <= Len(queue)
            /\ queue'[Len(queue')] = sample
            /\ \A i \in 1..(Len(queue) - n) : queue'[i] = queue[i + n]
            /\ \A i \in 1..Len(queue) : queue[i] \in Samples
            /\ lost' = IF n = 1 THEN lost \cup ({queue[1]} \ {None}) ELSE lost
  BY PutIndex DEF IInv
<1>2. CASE n = 1 /\ queue[1] # None
  <2>1. 1 \in 1..Len(queue)
    BY <1>1, <1>2
  <2>2. queue[1] \in Data /\ queue[1] \notin delivered \cup lost
    BY <1>1, <1>2, <2>1, Constants, QueueAssumption DEF IInv, StreamInv, InQueue
  <2>3. Stream!Lose(queue[1])
    BY <1>1, <1>2, <2>2 DEF Stream!Lose, Stream!Outstanding, Failure
  <2> QED
    BY <2>2, <2>3 DEF Stream!Next
<1>3. CASE n = 0 \/ queue[1] = None
  BY <1>1, <1>3
<1> QED
  BY <1>2, <1>3

(* What the trainer gets is an outstanding sample, or the end of a stream  *)
(* of which nothing is outstanding unless a task has failed.               *)
LEMMA GetRefines ==
    ASSUME IInv, GetFromQueue
    PROVE  Stream!Next
<1>1. /\ Len(queue) \in Nat /\ Len(queue) >= 1 /\ Head(queue) = queue[1] /\ queue[1] \in Samples
  BY GetEffect DEF GetFromQueue, IInv
<1>2. trainer = "collect" /\ ~ended /\ UNCHANGED <<task, lost>> /\ 1 \in 1..Len(queue)
  BY <1>1 DEF GetFromQueue, IInv, TrainerInv
<1>3. Failure' = Failure
  BY <1>2 DEF Failure
<1>4. CASE queue[1] # None
  <2>1. queue[1] \in Data /\ queue[1] \notin delivered \cup lost
    BY <1>1, <1>2, <1>4, QueueAssumption DEF IInv, StreamInv, InQueue
  <2>2. Stream!Deliver(queue[1])
    BY <1>1, <1>2, <1>3, <1>4, <2>1
       DEF GetFromQueue, Stream!Deliver, Stream!Outstanding, Failure
  <2> QED
    BY <2>1, <2>2 DEF Stream!Next
<1>5. CASE queue[1] = None
  <2>1. Marked /\ (1 = Len(queue) \/ Failure)
    BY <1>2, <1>5 DEF IInv, StreamInv
  <2>2. ASSUME ~Failure PROVE Stream!Outstanding = {}
    <3>1. \A s \in Data : task[s] = "done"
      BY <2>1, <2>2 DEF IInv, TaskInv
    <3>2. \A s \in Data : s \in InQueue \cup delivered \cup lost
      BY <1>2, <3>1 DEF IInv, StreamInv
    <3>3. InQueue = {None}
      BY <1>5, <2>1, <2>2 DEF InQueue
    <3> QED
      BY <3>2, <3>3, Constants DEF Stream!Outstanding
  <2>3. Stream!End
    BY <1>1, <1>2, <1>3, <1>5, <2>2 DEF GetFromQueue, Stream!End, Failure
  <2> QED
    BY <2>3 DEF Stream!Next
<1> QED
  BY <1>4, <1>5

(* The pipeline implements SampleStream: every sample reaches the trainer  *)
(* at most once, none after it was pushed out of the queue or after the    *)
(* end marker, and the marker comes when nothing is outstanding, or after  *)
(* the failure of a generation task.                                       *)
THEOREM ImplementsStream == Spec => DeliversStream
<1>1. Init => Stream!Init
  <2> SUFFICES ASSUME Init PROVE Stream!Init
    OBVIOUS
  <2>1. ~\E s \in Data : task[s] = "failed"
    BY DEF Init
  <2> QED
    BY <2>1 DEF Init, Stream!Init
<1>2. IInv /\ [Next]_vars =>
        [Stream!Next]_<<delivered, lost, \E s \in Data : task[s] = "failed", ended>>
  <2> SUFFICES ASSUME IInv, [Next]_vars
               PROVE  Stream!Next \/ UNCHANGED <<delivered, lost, Failure, ended>>
    BY DEF Failure
  <2>1. CASE PutEndMarker
    <3>1. Put(None) /\ UNCHANGED <<delivered, ended, task>> /\ None \in Samples
      BY <2>1, Constants DEF PutEndMarker, training
    <3> QED
      BY <3>1, PutRefines DEF Failure
  <2>2. ASSUME NEW s \in Data, PutGenerated(s)
        PROVE  Stream!Next \/ UNCHANGED <<delivered, lost, Failure, ended>>
    <3>1. /\ Put(s) /\ UNCHANGED <<delivered, ended>> /\ s \in Samples
          /\ task[s] = "generating" /\ task' = [task EXCEPT ![s] = "replying"]
      BY <2>2, Constants DEF PutGenerated, training
    <3>2. Failure' = Failure
      BY <3>1 DEF Failure, IInv, TaskInv
    <3> QED
      BY <3>1, <3>2, PutRefines
  <2>3. CASE GetFromQueue
    BY <2>3, GetRefines
  <2>4. ASSUME NEW s \in Data, GenerationFails(s)
        PROVE  Stream!Next \/ UNCHANGED <<delivered, lost, Failure, ended>>
    <3>1. UNCHANGED <<delivered, lost, ended>> /\ task' = [task EXCEPT ![s] = "failed"]
      BY <2>4 DEF GenerationFails, training
    <3>2. Failure' = TRUE /\ Failure \in BOOLEAN
      BY <3>1 DEF Failure, IInv, TaskInv
    <3>3. CASE Failure
      BY <3>1, <3>2, <3>3
    <3>4. CASE ~Failure
      <4>1. Stream!Fail
        BY <3>1, <3>2, <3>4 DEF Stream!Fail, Failure
      <4> QED
        BY <4>1 DEF Stream!Next
    <3> QED
      BY <3>3, <3>4
  <2>5. ASSUME UNCHANGED <<delivered, lost, ended>>, Failure' = Failure
        PROVE  UNCHANGED <<delivered, lost, Failure, ended>>
    BY <2>5
  <2>6. ASSUME NEW s \in Data, PutReplied(s)
        PROVE  UNCHANGED <<delivered, lost, ended>> /\ Failure' = Failure
    BY <2>6 DEF PutReplied, training, Failure, IInv, TaskInv
  <2>7. CASE Start
    <3>1. taken \in Data /\ task[taken] = "none" /\ task' = [task EXCEPT ![taken] = "generating"]
          /\ UNCHANGED <<delivered, lost, ended>>
      BY <2>7 DEF Start, training, IInv, TaskInv, Holding
    <3> QED
      BY <3>1, <2>5 DEF Failure, IInv, TaskInv
  <2>8. CASE UNCHANGED <<delivered, lost, ended, task>>
    BY <2>5, <2>8 DEF Failure
  <2>9. UNCHANGED vars => UNCHANGED <<delivered, lost, ended, task>>
    BY DEF vars
  <2> QED
    BY <2>1, <2>2, <2>3, <2>4, <2>5, <2>6, <2>7, <2>8, <2>9
    DEF Next, Processor, SampleTask, Monitor, Trainer, Feed, AskStatistics, Decide, Pause,
        Drain, Resumed, Take, WaitForTask, TaskFinished, StopRunning, MonitorWakes,
        MonitorDecides, MonitorResumes, MonitorEnds, TrainStep, StopTraining, UpdateWeights,
        ResetBegins, ResetEnds, ClearAtEnd, Terminated, training
<1> QED
  BY <1>1, <1>2, Invariance, PTL DEF Spec, DeliversStream, Stream!Spec
=============================================================================
