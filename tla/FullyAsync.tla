----------------------------- MODULE FullyAsync -----------------------------
(***************************************************************************)
(* Fully asynchronous training: the rollouter generates samples and puts   *)
(* them into the message queue, the trainer takes them in batches, and     *)
(* after every parameter synchronisation tells the rollouter how far it    *)
(* may run ahead (verl/experimental/fully_async_policy/                    *)
(* fully_async_rollouter.py, fully_async_trainer.py, message_queue.py).    *)
(*                                                                         *)
(* The rollouter is one asyncio event loop with a feeder, a processor, one *)
(* task per sample, a monitor and the remote method reset_staleness; a     *)
(* step of the model lies between two awaits.  Its lock is held across an  *)
(* await only by reset_staleness while it asks for the size of the queue   *)
(* and by the processor while it waits for a task; the event               *)
(* _resume_event is set exactly when paused is False.                      *)
(*                                                                         *)
(* Samples are numbered in the order of the data; the end marker None is   *)
(* the last entry of pending_queue.  Of the training step only the counts  *)
(* matter here, validation and checkpoints are left out.                   *)
(***************************************************************************)
EXTENDS MessageQueue, FiniteSets

CONSTANTS
    Total,            \* total_rollout_steps
    RequiredSamples,  \* required_samples: samples of a training step
    SyncSteps,        \* trigger_parameter_sync_step
    StalenessPct,     \* staleness_threshold, in percent
    Slots,            \* 16 per replica: concurrent samples the servers take
    PendingSize,      \* capacity of pending_queue
    TestFreq,         \* test_freq, validation every so many versions
    MaxFailures       \* bound: generation tasks that raise

Data == 1..Total
None == 0

(* set_max_required_samples.                                               *)
MaxRequiredSamples == (RequiredSamples * (100 + StalenessPct) * SyncSteps) \div 100
MaxConcurrentSamples ==
    IF Slots < MaxRequiredSamples THEN Slots ELSE MaxRequiredSamples

ASSUME CountsAssumption ==
    /\ {Total, RequiredSamples, SyncSteps, Slots, PendingSize, TestFreq} \subseteq Nat \ {0}
    /\ {StalenessPct, MaxFailures} \subseteq Nat
ASSUME QueueAssumption ==
    Samples = Data \cup {None} /\ MaxQueueSize = MaxRequiredSamples

VARIABLES
    fed,         \* entries put into pending_queue, None being entry Total + 1
    taken,       \* entries the processor has got from it
    task,        \* per sample: "none", "generating", "replying", "done", "failed"
    active,      \* active_tasks
    staleness,   \* staleness_samples
    paused,      \* paused
    running,     \* running
    proc,        \* where the processor is
    procFull,    \* the queue was full in the statistics it has asked for
    mon,         \* where the monitor is
    monFull,     \* the queue was full in the statistics it has asked for
    trainer,     \* where the trainer is
    got,         \* samples collected for the next training step
    localStep,   \* local_trigger_step
    version,     \* current_param_version
    resetActive, \* len(active_tasks) as read by reset_staleness
    delivered,   \* history: samples the trainer has received
    lost,        \* history: samples pushed out of the queue
    ended        \* history: the trainer has received None

feeder == <<fed>>
processor == <<proc, procFull, taken>>
monitor == <<mon, monFull>>
training == <<trainer, got, localStep, version, resetActive, ended>>
vars == <<queue, totalProduced, totalConsumed, droppedSamples, cleared,
          fed, taken, task, active, staleness, paused, running, proc, procFull,
          mon, monFull, trainer, got, localStep, version, resetActive,
          delivered, lost, ended>>

Locked == trainer = "sizing" \/ proc \in {"limit_wait", "end_wait"}

Finished == {s \in active : task[s] \in {"done", "failed"}}

(* What a put pushes out of the queue is lost.                             *)
Put(sample) ==
    /\ PutSample(sample)
    /\ lost' = IF Full THEN lost \cup ({Head(queue)} \ {None}) ELSE lost

(* _should_pause_generation, when the statistics of the queue are back.    *)
ShouldPause(full) == full \/ staleness >= MaxRequiredSamples

-----------------------------------------------------------------------------
(* _feed_samples; a failed processor makes the caller cancel it.           *)
Feed ==
    /\ fed <= Total
    /\ fed - taken < PendingSize
    /\ proc \notin {"failed", "marked", "stopped"}
    /\ fed' = fed + 1
    /\ UNCHANGED <<mqVars, processor, monitor, training, task, active, staleness,
                   paused, running, delivered, lost>>

-----------------------------------------------------------------------------
(* _processor_worker.                                                      *)

AskStatistics ==
    /\ proc = "check"
    /\ IF paused THEN proc' = "pausing" /\ UNCHANGED procFull
                 ELSE proc' = "asked" /\ procFull' = Full
    /\ UNCHANGED <<mqVars, feeder, monitor, training, taken, task, active, staleness,
                   paused, running, delivered, lost>>

Decide ==
    /\ proc = "asked"
    /\ proc' = IF ShouldPause(procFull) THEN "pausing" ELSE "take"
    /\ procFull' = FALSE
    /\ UNCHANGED <<mqVars, feeder, monitor, training, taken, task, active, staleness,
                   paused, running, delivered, lost>>

Pause ==
    /\ proc = "pausing"
    /\ ~Locked
    /\ paused' = TRUE
    /\ proc' = "draining"
    /\ UNCHANGED <<mqVars, feeder, monitor, training, procFull, taken, task, active,
                   staleness, running, delivered, lost>>

(* The tasks in S have finished: they leave active_tasks, and an exception *)
(* of one of them is raised by "await task".                               *)
Collect(S, next) ==
    /\ active' = active \ S
    /\ proc' = IF \E s \in S : task[s] = "failed" THEN "failed" ELSE next

Drain ==
    /\ proc = "draining"
    /\ ~Locked
    /\ \E S \in SUBSET Finished \ {{}} : Collect(S, "draining")
    /\ UNCHANGED <<mqVars, feeder, monitor, training, procFull, taken, task, staleness,
                   paused, running, delivered, lost>>

Resumed ==
    /\ proc = "draining"
    /\ ~paused
    /\ proc' = "check"
    /\ UNCHANGED <<mqVars, feeder, monitor, training, procFull, taken, task, active,
                   staleness, paused, running, delivered, lost>>

(* The end marker is counted like a sample.                                *)
Take ==
    /\ proc = "take"
    /\ taken < fed
    /\ taken' = taken + 1
    /\ staleness' = staleness + 1
    /\ proc' = IF taken' > Total THEN "end" ELSE "limit"
    /\ UNCHANGED <<mqVars, feeder, monitor, training, procFull, task, active, paused,
                   running, delivered, lost>>

(* The processor takes the lock and keeps it until a task has finished: at *)
(* the limit of concurrent samples, and after the end marker.              *)
MutOneTooMany == proc = "limit" /\ Cardinality(active) > MaxConcurrentSamples
AtLimit == proc = "limit" /\ Cardinality(active) >= MaxConcurrentSamples

MutEndAtOnce == FALSE
TasksLeft == active # {}

WaitForTask ==
    /\ AtLimit \/ (proc = "end" /\ TasksLeft)
    /\ ~Locked
    /\ proc' = IF proc = "end" THEN "end_wait" ELSE "limit_wait"
    /\ UNCHANGED <<mqVars, feeder, monitor, training, procFull, taken, task, active,
                   staleness, paused, running, delivered, lost>>

TaskFinished ==
    /\ proc \in {"limit_wait", "end_wait"}
    /\ Finished # {}
    /\ Collect(Finished, IF proc = "end_wait" THEN "end" ELSE "limit")
    /\ UNCHANGED <<mqVars, feeder, monitor, training, procFull, taken, task, staleness,
                   paused, running, delivered, lost>>

Start ==
    /\ proc = "limit"
    /\ ~AtLimit
    /\ ~paused
    /\ ~Locked
    /\ task' = [task EXCEPT ![taken] = "generating"]
    /\ active' = active \cup {taken}
    /\ proc' = "check"
    /\ UNCHANGED <<mqVars, feeder, monitor, training, procFull, taken, staleness, paused,
                   running, delivered, lost>>

(* The end of _streaming_generation_main: the finally clause puts the end  *)
(* marker, whether the processor has returned or failed.                   *)
PutEndMarker ==
    /\ proc = "failed" \/ (proc = "end" /\ ~TasksLeft)
    /\ Put(None)
    /\ proc' = "marked"
    /\ UNCHANGED <<feeder, monitor, training, procFull, taken, task, active, staleness,
                   paused, running, delivered>>

StopRunning ==
    /\ proc = "marked"
    /\ ~Locked
    /\ running' = FALSE
    /\ proc' = "stopped"
    /\ UNCHANGED <<mqVars, feeder, monitor, training, procFull, taken, task, active,
                   staleness, paused, delivered, lost>>

-----------------------------------------------------------------------------
(* _process_single_sample_streaming: the put, and later its reply.         *)

PutGenerated(s) ==
    /\ task[s] = "generating"
    /\ Put(s)
    /\ task' = [task EXCEPT ![s] = "replying"]
    /\ UNCHANGED <<feeder, processor, monitor, training, active, staleness, paused,
                   running, delivered>>

PutReplied(s) ==
    /\ task[s] = "replying"
    /\ task' = [task EXCEPT ![s] = "done"]
    /\ UNCHANGED <<mqVars, feeder, processor, monitor, training, active, staleness, paused,
                   running, delivered, lost>>

GenerationFails(s) ==
    /\ task[s] = "generating"
    /\ Cardinality({t \in Data : task[t] = "failed"}) < MaxFailures
    /\ task' = [task EXCEPT ![s] = "failed"]
    /\ UNCHANGED <<mqVars, feeder, processor, monitor, training, active, staleness, paused,
                   running, delivered, lost>>

-----------------------------------------------------------------------------
(* _async_monitor_loop: wakes up every ten seconds.                        *)

MonitorWakes ==
    /\ mon = "sleep"
    /\ running /\ paused
    /\ mon' = "asked"
    /\ monFull' = Full
    /\ UNCHANGED <<mqVars, feeder, processor, training, task, active, staleness, paused,
                   running, delivered, lost>>

MutNeverResumes == "sleep"
MonitorVerdict == IF ShouldPause(monFull) THEN "sleep" ELSE "resume"

MonitorDecides ==
    /\ mon = "asked"
    /\ mon' = MonitorVerdict
    /\ monFull' = FALSE
    /\ UNCHANGED <<mqVars, feeder, processor, training, task, active, staleness, paused,
                   running, delivered, lost>>

MonitorResumes ==
    /\ mon = "resume"
    /\ ~Locked
    /\ paused' = FALSE
    /\ mon' = "sleep"
    /\ UNCHANGED <<mqVars, feeder, processor, monFull, training, task, active, staleness,
                   running, delivered, lost>>

MonitorEnds ==
    /\ mon = "sleep"
    /\ ~running
    /\ ~Locked
    /\ mon' = "done"
    /\ UNCHANGED <<mqVars, feeder, processor, monFull, training, task, active, staleness,
                   paused, running, delivered, lost>>

-----------------------------------------------------------------------------
(* The trainer.  _get_samples_from_queue: a batch that None cuts short is  *)
(* thrown away and ends training.                                          *)
GetFromQueue ==
    /\ trainer = "collect"
    /\ GetSample
    /\ IF Head(queue) = None
       THEN /\ trainer' = "stopping"
            /\ ended' = TRUE
            /\ UNCHANGED <<got, delivered>>
       ELSE /\ trainer' = IF got + 1 = RequiredSamples THEN "train" ELSE "collect"
            /\ got' = got + 1
            /\ delivered' = delivered \cup {Head(queue)}
            /\ UNCHANGED ended
    /\ UNCHANGED <<feeder, processor, monitor, localStep, version, resetActive, task,
                   active, staleness, paused, running, lost>>

(* The training step and _fit_update_local_step.                           *)
TrainStep ==
    /\ trainer = "train"
    /\ got' = 0
    /\ IF localStep < SyncSteps
       THEN /\ localStep' = localStep + 1
            /\ trainer' = "collect"
            /\ UNCHANGED version
       ELSE /\ localStep' = 1
            /\ version' = version + 1
            /\ trainer' = "sync"
    /\ UNCHANGED <<mqVars, feeder, processor, monitor, resetActive, ended, task, active,
                   staleness, paused, running, delivered, lost>>

(* The end of fit(): one more _fit_update_weights, unless the version has  *)
(* been validated or the trainer is between two synchronisations.          *)
StopTraining ==
    /\ trainer = "stopping"
    /\ trainer' = IF version % TestFreq # 0 /\ localStep = 1 THEN "sync" ELSE "finished"
    /\ UNCHANGED <<mqVars, feeder, processor, monitor, got, localStep, version, resetActive,
                   ended, task, active, staleness, paused, running, delivered, lost>>

(* _fit_update_weights: the weights are transferred, then reset_staleness  *)
(* runs in the rollouter.  It reads len(active_tasks) before it awaits the *)
(* size of the queue.                                                      *)
UpdateWeights ==
    /\ trainer = "sync"
    /\ trainer' = "reset"
    /\ UNCHANGED <<mqVars, feeder, processor, monitor, got, localStep, version, resetActive,
                   ended, task, active, staleness, paused, running, delivered, lost>>

ResetBegins ==
    /\ trainer = "reset"
    /\ ~Locked
    /\ paused' = FALSE
    /\ resetActive' = Cardinality(active)
    /\ trainer' = "sizing"
    /\ UNCHANGED <<mqVars, feeder, processor, monitor, got, localStep, version, ended,
                   task, active, staleness, running, delivered, lost>>

MutQueueOnly == Len(queue)
ResetValue == resetActive + Len(queue)

ResetEnds ==
    /\ trainer = "sizing"
    /\ staleness' = ResetValue
    /\ resetActive' = 0
    /\ trainer' = IF ended THEN "finished" ELSE "collect"
    /\ UNCHANGED <<mqVars, feeder, processor, monitor, got, localStep, version, ended,
                   task, active, paused, running, delivered, lost>>

-----------------------------------------------------------------------------
AllDone == trainer = "finished" /\ proc = "stopped" /\ mon = "done"

(* _run_training_loop: once both have returned, the queue is cleared.      *)
ClearAtEnd ==
    /\ AllDone
    /\ queue # <<>>
    /\ ClearQueue
    /\ UNCHANGED <<feeder, processor, monitor, training, task, active, staleness, paused,
                   running, delivered, lost>>

Terminated == AllDone /\ UNCHANGED vars

Init ==
    /\ MQInit
    /\ fed = 0 /\ taken = 0
    /\ task = [s \in Data |-> "none"]
    /\ active = {}
    /\ staleness = 0
    /\ paused = FALSE /\ running = TRUE
    /\ proc = "check" /\ procFull = FALSE
    /\ mon = "sleep" /\ monFull = FALSE
    /\ trainer = "collect" /\ got = 0 /\ localStep = 1 /\ version = 0 /\ resetActive = 0
    /\ delivered = {} /\ lost = {} /\ ended = FALSE

Processor ==
    \/ AskStatistics \/ Decide \/ Pause \/ Drain \/ Resumed \/ Take \/ WaitForTask
    \/ TaskFinished \/ Start \/ PutEndMarker \/ StopRunning
SampleTask(s) == PutGenerated(s) \/ PutReplied(s)
Monitor == MonitorWakes \/ MonitorDecides \/ MonitorResumes \/ MonitorEnds
Trainer ==
    \/ GetFromQueue \/ TrainStep \/ StopTraining
    \/ UpdateWeights \/ ResetBegins \/ ResetEnds

Next ==
    \/ Feed
    \/ Processor
    \/ \E s \in Data : SampleTask(s) \/ GenerationFails(s)
    \/ Monitor
    \/ Trainer
    \/ ClearAtEnd
    \/ Terminated

(* Coroutines of the event loop, the queue and the trainer run on: nothing *)
(* they wait for is lost.  A generation ends, but need not fail.           *)
Fairness ==
    /\ WF_vars(Feed)
    /\ WF_vars(Processor)
    /\ WF_vars(\E s \in Data : SampleTask(s))
    /\ WF_vars(Monitor)
    /\ WF_vars(Trainer)

Spec == Init /\ [][Next]_vars /\ Fairness

-----------------------------------------------------------------------------
(* Every variable has its type; pending_queue and the tasks of the         *)
(* processor stay within their limits.                                     *)
TypeOK ==
    /\ queue \in Seq(Samples)
    /\ taken \in 0..fed /\ fed \in 0..(Total + 1) /\ fed - taken <= PendingSize
    /\ task \in [Data -> {"none", "generating", "replying", "done", "failed"}]
    /\ active \subseteq {s \in Data : task[s] # "none"}
    /\ Cardinality(active) <= MaxConcurrentSamples
    /\ staleness \in Nat
    /\ got \in 0..RequiredSamples /\ localStep \in 1..SyncSteps

Generating == {s \in Data : task[s] = "generating"}
InHand == IF proc \in {"limit", "limit_wait"} THEN 1 ELSE 0

(* The rollouter never has more than max_required_samples + 1 samples      *)
(* under way that the trainer has not received: the one more is the sample *)
(* that the processor holds, unstarted, while reset_staleness counts.      *)
RunsAheadBounded ==
    Cardinality(Generating) + Len(queue) + InHand <= MaxRequiredSamples + 1

(* Training ends: the trainer gets a batch or the end marker, whatever     *)
(* pauses, resets and failures of tasks coincide.                          *)
TrainingEnds == <>(trainer = "finished")

(* A trainer that waits for samples is served, however the pauses of the   *)
(* rollouter fall.                                                         *)
TrainerServed == trainer = "collect" ~> trainer \in {"train", "stopping"}

Stream == INSTANCE SampleStream WITH
    failed <- \E s \in Data : task[s] = "failed"

(* The pipeline delivers every sample at most once, and the end marker     *)
(* after every sample that was not pushed out of the queue.                *)
DeliversStream == Stream!Spec
=============================================================================
