---------------------------- MODULE ReplayBuffer ----------------------------
(***************************************************************************)
(* The synchronous trainer of verl/trainer/main_ppo_sync.py around its     *)
(* ReplayBuffer.  PPOTrainer dispatches a batch of prompts and waits in    *)
(* ReplayBuffer.sample for it; agent loop workers put samples and the      *)
(* result of their prompts into the TransferQueue; a thread of the buffer  *)
(* lists the queue from time to time and merges what it saw, a moment      *)
(* later, into the buffer.                                                 *)
(*                                                                         *)
(* fit() is a sequence of rounds: a validation of ValBatches batches       *)
(* before the first step and after every step (val_before_train,           *)
(* test_freq = 1), and a training batch in every step, which is taken out  *)
(* of the queue after the validation.  All batches of one validation carry *)
(* the same global_steps.  The samples of a session are put together, so   *)
(* one key stands for them.  ReMax baselines are left out.                 *)
(***************************************************************************)
EXTENDS Integers, FiniteSets

CONSTANTS
    Steps,       \* total_training_steps
    ValBatches,  \* batches of the validation dataloader
    BatchSize,   \* prompts of a batch
    N,           \* rollout.n: sessions of a training prompt
    NVal,        \* rollout.val_kwargs.n: sessions of a validation prompt
    Multiple,    \* _get_required_batch_multiple
    MaxErrors    \* bound: sessions that raise

ASSUME SizeAssumption ==
    /\ {ValBatches, MaxErrors} \subseteq Nat
    /\ {Steps, BatchSize, N, NVal, Multiple} \subseteq Nat \ {0}

-----------------------------------------------------------------------------
(* Rounds and keys.  The key of a prompt is <<round, prompt, 0>>: its uid  *)
(* is new in every round.  Session s puts its sample under                 *)
(* <<round, prompt, s>>; padding samples have prompt number 0.  Round,     *)
(* partition and global_steps of a key never change.                       *)

LastRound == Steps * (ValBatches + 1) + ValBatches - 1
PartitionOf(r) == IF r % (ValBatches + 1) < ValBatches THEN "val" ELSE "train"
StepOf(r) ==
    r \div (ValBatches + 1) + IF PartitionOf(r) = "train" THEN 1 ELSE 0

Prompts(r) == {<<r, i, 0>> : i \in 1..BatchSize}
Sessions(u) ==
    {<<u[1], u[2], s>> : s \in 1 .. (IF PartitionOf(u[1]) = "train" THEN N ELSE NVal)}
PromptOf(k) == <<k[1], k[2], 0>>
IsSample(k) == k[3] > 0
InPartition(k, p) == PartitionOf(k[1]) = p

VARIABLES
    round,     \* the batch fit() is at
    pc,        \* where fit() is in the round; at "raised" and "empty" it has
               \* raised, for lost data and for a batch without a sample
    batch,     \* the keys of the batch that sample returned, and its padding
    trained,   \* the training batch that fit() holds while it validates
    running,   \* sessions whose agent loop runs
    open,      \* prompts whose _run_prompt has not put its result yet
    raised,    \* prompts of which a session raised
    errors,    \* sessions that raised so far
    tq,        \* the keys in the TransferQueue: samples ("success") and
               \* prompts ("finished" or "failure", which nobody tells apart)
    snapshot,  \* keys kv_list returned that are not merged yet
    buffer,    \* the keys in the ReplayBuffer
    pending,   \* those of them with the status "running"
    undated    \* those of them without a global_steps

trainer == <<round, pc, batch, trained>>
workers == <<running, open, raised, errors>>
replay == <<buffer, pending, undated>>
vars == <<trainer, workers, tq, snapshot, replay>>

Init ==
    /\ round = 0
    /\ pc = "dispatch"
    /\ batch = {}
    /\ trained = {}
    /\ running = {}
    /\ open = {}
    /\ raised = {}
    /\ errors = 0
    /\ tq = {}
    /\ snapshot = {}
    /\ buffer = {}
    /\ pending = {}
    /\ undated = {}

-----------------------------------------------------------------------------
(* ReplayBuffer *)

\* add by the manager: the prompts of a batch are marked running.
MutRegister(U) == UNCHANGED replay
Register(U) ==
    /\ buffer' = buffer \cup U
    /\ pending' = pending \cup U
    /\ UNCHANGED undated

\* add by the poll thread.  The tags of a prompt in the queue have no
\* global_steps, so an entry that this add creates has none.
Merge(K) ==
    /\ buffer' = buffer \cup K
    /\ pending' = pending \ K
    /\ undated' = undated \cup {k \in K \ buffer : ~IsSample(k)}

Remove(K) ==
    /\ buffer' = buffer \ K
    /\ pending' = pending \ K
    /\ undated' = undated \ K

\* _poll_from_transfer_queue: one kv_list, then one add per partition.
PollList ==
    /\ snapshot = {}
    /\ snapshot' = tq
    /\ UNCHANGED <<trainer, workers, tq, replay>>

PollAdd(p) ==
    LET K == {k \in snapshot : InPartition(k, p)} IN
    /\ K # {}
    /\ Merge(K)
    /\ snapshot' = snapshot \ K
    /\ UNCHANGED <<trainer, workers, tq>>

-----------------------------------------------------------------------------
(* Agent loop workers *)

\* _run_agent_loop returns: _agent_loop_postprocess puts a sample, or nothing
\* when the agent loop had no output.
SessionEnds(k) ==
    /\ k \in running
    /\ running' = running \ {k}
    /\ \/ tq' = tq \cup {k}
       \/ UNCHANGED tq
    /\ UNCHANGED <<trainer, open, raised, errors, snapshot, replay>>

SessionRaises(k) ==
    /\ k \in running
    /\ errors < MaxErrors
    /\ errors' = errors + 1
    /\ running' = running \ {k}
    /\ raised' = raised \cup {PromptOf(k)}
    /\ UNCHANGED <<trainer, open, tq, snapshot, replay>>

\* asyncio.gather in _run_prompt is over: all sessions have returned, or one
\* has raised, and then gather leaves the others running.
MutAnySession(u) == Sessions(u) \cap running # Sessions(u)
Gathered(u) == Sessions(u) \cap running = {} \/ u \in raised

MutNoFailureTag(u) == tq' = IF u \in raised THEN tq ELSE tq \cup {u}
PutResult(u) == tq' = tq \cup {u}

PromptEnds(u) ==
    /\ u \in open
    /\ Gathered(u)
    /\ open' = open \ {u}
    /\ PutResult(u)
    /\ UNCHANGED <<trainer, running, raised, errors, snapshot, replay>>

-----------------------------------------------------------------------------
(* PPOTrainer *)

\* AgentLoopManagerTQ.generate_sequences: mark the prompts, then start them.
Dispatch ==
    /\ pc = "dispatch"
    /\ Register(Prompts(round))
    /\ open' = open \cup Prompts(round)
    /\ running' = running \cup UNION {Sessions(u) : u \in Prompts(round)}
    /\ pc' = "sample"
    /\ UNCHANGED <<round, batch, trained, raised, errors, tq, snapshot>>

\* The entries sample looks at: same partition, same global_steps.
Current == {k \in buffer : /\ InPartition(k, PartitionOf(round))
                           /\ StepOf(k[1]) = StepOf(round)}

\* sample returns as soon as no entry of the step is running.
ShouldWait == pending \cap Current # {}

GetSample ==
    /\ pc = "sample"
    /\ ~ShouldWait
    /\ batch' = {k \in Current : IsSample(k)}
    /\ pc' = CASE \E k \in undated : InPartition(k, PartitionOf(round)) -> "raised"
               [] PartitionOf(round) = "train" -> "balance"
               [] OTHER -> "clear"
    /\ UNCHANGED <<round, trained, workers, tq, snapshot, replay>>

\* _balance_batch: padding samples, made from the first of the batch, are put
\* into the queue until the batch divides evenly.
Padding ==
    {<<round, 0, j>> : j \in 1 .. (-Cardinality(batch)) % Multiple}

\* get_seqlen_balanced_partitions asserts that there is an item for every rank.
\* The size of a batch is a multiple of the number of ranks by then, so only
\* the empty one, which is not padded, has too few.
Partitionable(K) == K # {}

Balance ==
    /\ pc = "balance"
    /\ batch' = batch \cup Padding
    /\ tq' = tq \cup Padding
    /\ pc' = IF Partitionable(batch') THEN "train" ELSE "empty"
    /\ UNCHANGED <<round, trained, workers, snapshot, replay>>

\* Reading the fields of a batch raises when the queue does not have them.
Advance ==
    IF round = LastRound
    THEN pc' = "done" /\ UNCHANGED round
    ELSE pc' = "dispatch" /\ round' = round + 1

\* The rest of step(); what follows is the validation, if there is one.
TrainStep ==
    /\ pc = "train"
    /\ CASE ~ (batch \subseteq tq) -> pc' = "raised" /\ UNCHANGED round
         [] ValBatches = 0         -> pc' = "metrics" /\ UNCHANGED round
         [] OTHER                  -> Advance
    /\ trained' = batch
    /\ batch' = {}
    /\ UNCHANGED <<workers, tq, snapshot, replay>>

MutKeepPadding(K) == tq' = tq \ {k \in K : k[2] > 0}
KvClear(K) == tq' = tq \ K

\* The end of a batch in _validate: its fields are read, which raises when
\* there is no sample that has any, kv_clear takes it out of the queue and
\* remove out of the buffer.
Clear ==
    /\ pc = "clear"
    /\ CASE batch = {}             -> pc' = "empty" /\ UNCHANGED tq
         [] ~ (batch \subseteq tq) -> pc' = "raised" /\ UNCHANGED tq
         [] OTHER                  -> pc' = "remove" /\ KvClear(batch)
    /\ UNCHANGED <<round, batch, trained, workers, snapshot, replay>>

ValidationEnds == StepOf(round) > 0 /\ round % (ValBatches + 1) = ValBatches - 1

NextBatch ==
    /\ pc = "remove"
    /\ Remove(batch)
    /\ batch' = {}
    /\ IF ValidationEnds THEN pc' = "metrics" /\ UNCHANGED round ELSE Advance
    /\ UNCHANGED <<trained, workers, tq, snapshot>>

\* The end of a step in fit(): _compute_metrics, then the same for its batch.
ClearStep ==
    /\ pc = "metrics"
    /\ IF trained \subseteq tq
       THEN pc' = "forget" /\ KvClear(trained)
       ELSE pc' = "raised" /\ UNCHANGED tq
    /\ UNCHANGED <<round, batch, trained, workers, snapshot, replay>>

NextStep ==
    /\ pc = "forget"
    /\ Remove(trained)
    /\ trained' = {}
    /\ Advance
    /\ UNCHANGED <<batch, workers, tq, snapshot>>

Trainer ==
    \/ Dispatch \/ GetSample \/ Balance \/ TrainStep
    \/ Clear \/ NextBatch \/ ClearStep \/ NextStep

AllPrompts == UNION {Prompts(r) : r \in 0..LastRound}
AllSessions == UNION {Sessions(u) : u \in AllPrompts}

Next ==
    \/ Trainer
    \/ PollList
    \/ \E p \in {"train", "val"} : PollAdd(p)
    \/ \E k \in running : SessionEnds(k) \/ SessionRaises(k)
    \/ \E u \in open : PromptEnds(u)

(* Agent loops, the two threads of the trainer process and the event loop  *)
(* of the workers make progress; no agent loop has to raise.               *)
Fairness ==
    /\ WF_vars(Trainer)
    /\ WF_vars(PollList)
    /\ \A p \in {"train", "val"} : WF_vars(PollAdd(p))
    /\ \A k \in AllSessions : WF_vars(SessionEnds(k) \/ SessionRaises(k))
    /\ \A u \in AllPrompts : WF_vars(PromptEnds(u))

Spec == Init /\ [][Next]_vars /\ Fairness

-----------------------------------------------------------------------------
(* Properties *)

\* Every variable has its type; the entries of the buffer have the tags that
\* sample reads, so that it never raises for a missing global_steps.
TypeOK ==
    /\ round \in 0..LastRound
    /\ pc \in {"dispatch", "sample", "balance", "train", "clear", "remove",
               "metrics", "forget", "done", "raised", "empty"}
    /\ running \subseteq AllSessions
    /\ raised \subseteq AllPrompts /\ open \subseteq AllPrompts
    /\ pending \subseteq buffer
    /\ undated = {}
    /\ errors \in 0..MaxErrors

\* "wait until all prompts of this global steps have finished": a batch that
\* is trained on has every sample of every prompt none of whose sessions
\* raised, only samples of this round, and all of them still have their data,
\* however the queue was listed while the workers put into it.
BatchExact ==
    (pc = "balance" \/ pc = "clear") =>
        /\ open \cap Prompts(round) = {}
        /\ \A k \in batch : k[1] = round
        /\ batch \subseteq tq
        /\ \A u \in Prompts(round) \ raised : Sessions(u) \cap (tq \cup running) \subseteq batch

\* What outlives its batch in the queue are the results of prompts and the
\* samples that come too late for their batch, after a session of the same
\* prompt has raised: tensors are not kept for ever in a run without errors.
QueueDrained ==
    pc \in {"dispatch", "done"} =>
        \A k \in tq \ trained : ~IsSample(k) \/ PromptOf(k) \in raised

\* fit() gets through all rounds, although sessions raise: the failure of a
\* prompt ends the wait for it, and no sampled key is without its data.  The
\* one way it does not is a round without a sample, for which it raises: no
\* prompt of the round whose sessions all returned has put one.
FitReturns ==
    <>\/ pc = "done"
      \/ pc = "empty" /\ \A u \in Prompts(round) \ raised : Sessions(u) \cap tq = {}
=============================================================================
