# TLA+ models of the Relay-OPD rollout and training pipeline

The repository (`src/relay-opd`) trains a student language model on-policy with
a teacher that watches the student while it writes. The rollout is built on
vLLM's speculative decoding with the roles reversed: the *student* is the draft
model, the *teacher* the target model, and the repository replaces vLLM's
rejection sampler with its own. Around it stands verl: load-balanced servers,
an asynchronous pipeline from rollouter to trainer, weight updates that abort
running requests, checkpoints, a synchronous trainer over a transfer queue, and
rate-limited reward calls. What makes the system hard is not the numerics but
the bookkeeping, and this project models that bookkeeping.

Paths are relative to `src/relay-opd`. `SD` is
`opd/patches/vllm/speculative_decode.py`; under `verl/`, `VS` is
`workers/rollout/vllm_rollout/vllm_async_server.py`, `LS`
`workers/rollout/llm_server.py`, `FR` and `FT`
`experimental/fully_async_policy/fully_async_rollouter.py` and
`..._trainer.py`, `MS` `trainer/main_ppo_sync.py`, `CM`
`utils/checkpoint/checkpoint_manager.py`, and `RL`
`experimental/reward_loop/reward_manager/limited.py`.

## 1. Inventory

| Component | State | Operations | Hard behaviour | What makes it correct |
| --- | --- | --- | --- | --- |
| Relay / Trigger-Stop sampler (`SD` 932-1368) | three dictionaries by request id: tokens and paragraphs left in the takeover, completed takeovers | one call per engine step, for a batch of rows | a takeover is spread over rows and ends in any slot; the count is forgotten when the last takeover ends | legs and takeovers bounded, the stop event points at the stop token |
| Token-source recording and senders (`SD` 76-145, 502-598, 1444-1544) | pending mask rows of the step, socket | record, flush after bookkeeping, send | failed sends are swallowed, every tensor-parallel rank sends | each label arrives with its absolute position |
| Mask server and `generate` (`VS` 509-775, 1139-1407) | six stores by request id, filled by a thread | receive, `pop_stop_event`, `pop_with_actions` | two polling loops with deadlines race the receive thread; aborts | labels of the response are complete and right, the stop token is stripped |
| Student draft distributions (`SD` 1406-1434, 1471-1474, 1069-1074) | one flat tensor per worker | kept by `propose`, used by the next `_sample` | the batch changes between the two | a draft token is judged by its own distribution |
| Load balancer and clients (`LS`), hybrid replicas (`FR` 154-344) | in-flight count per server, LRU routing cache | acquire, release, add and remove servers | releases are not awaited and outlive their server's membership | no phantom load, sticky conversations |
| Abort-and-resume client (`FR` 55-151) and weight updates (`checkpoint_engine/base.py` 441-514) | merged output, remaining tokens; per replica paused flag, weights, version | call, merge, call again; abort, drain, load, finalize, resume | an update aborts a request at any token, replicas are paused and resumed one by one | many calls look like one; versions are reported truthfully |
| Message queue, rollouter and trainer (`message_queue.py`, `FR` 395-1107, `FT`) | bounded deque, staleness counter, pause flag, task set, lock | feed, process, generate, monitor, collect, train, reset | four coroutines and a remote call share the counters across awaits | bounded run-ahead, no lost wake-up, no lost sample, termination |
| Checkpoints (`CM`, `fsdp_checkpoint_manager.py`, `FT` 598-749, `FR` 614-686) | files of every part and version, tracker file, paths in memory | save part by part, delete old ones, load | a crash at any point | the tracker names a complete checkpoint |
| Synchronous trainer and replay buffer (`MS`) | metadata by key, transfer queue | dispatch, sample, balance, clear; a poll thread; agent loop workers | listings are merged late, sessions fail beside their siblings | a batch is exactly its round's samples |
| Rate limiter (`RL`) | two token buckets, a semaphore, the default executor | decode, acquire, compute with a timeout | waiters retry and overtake each other, functions hang and outlive their timeout in a thread | the rate holds in every stretch of time, nobody starves |
| Agent loop, trainer and loss (`agent_loop.py`, `ray_trainer.py` 1504-1594, `losses.py` 533-736) | a batch | pad, attach masks, route tokens to loss terms | missing masks | a token gets the term of its label |

How they interact: an agent loop calls a client, which asks the balancer (a Ray
actor) for a server and calls its `generate`. The engine of that server runs
workers whose samplers are patched by `SD`; they send labels and stop events
over a Unix datagram socket to a thread of the server process, where `generate`
picks them up. In the fully asynchronous mode the rollouter runs agent loops as
tasks and puts their samples into the message queue; the trainer takes them,
trains, updates the weights of the replicas (which aborts what runs, and the
client resumes it), and resets the rollouter's window. In the synchronous mode
agent loop workers put samples into the transfer queue and the trainer waits in
`ReplayBuffer.sample`.

## 2. Modules

`MC...` modules extend the module they instantiate and define constants that a
`.cfg` cannot write; everything else is given in the `.cfg` files.

### RelaySampler, RelayResponse - one request in the sampler

State: `tokensRemaining`, `paragraphsRemaining` and `completedTakeovers` are
the entries of `_TAKEOVER_TOKENS_REMAINING`, `_TAKEOVER_PARAGRAPHS_REMAINING`
and `_COMPLETED_TAKEOVERS` (an absent entry is 0, which is how the code reads
them); `mode` is the patch mode of the worker; `length` and `finish` are what
vLLM makes of the emitted rows; `stopEvent` is the position in the stop event.
`legs`, `legTokens` and `legParagraphs` are history variables: no action reads
them. One request is enough: the code's batch operations act on rows separately
and the dictionaries are keyed by request id.

| Action | Code (`SD`) |
| --- | --- |
| `FirstToken` | 1444-1451: the first token is not speculative |
| `StudentRow` | 1096-1111: no trigger, all valid drafts are emitted |
| `TriggerTakeover` | 1107-1114, 1162-1178, 1280-1287: the teacher's token, a new budget |
| `TriggerOnly` | 1179-1205, 1280-1284: `RELAY_OPD_PARAGRAPHS_PER_TAKEOVER=0` |
| `TriggerStop` | 1115-1160: divergent token, then the stop token |
| `TakeoverRow` | 1004-1039, 1288-1298: a row inside a takeover |
| `EndTakeover` | 1207-1268, 1288-1295: cut, count, maybe the stop token |

Tokens are kinds: `text`, `para` (its text contains a blank line, 845-870),
`eos`. The teacher's verdict on a draft position is `pass` or the kind of the
reflection token that triggers (1041-1094). `invalid` is a draft outside the
teacher's vocabulary; it leaves an empty slot. Standard rejection sampling
inside a takeover is vLLM's and may emit anything (873-902). By default the
private stop id is the tokenizer's end-of-sequence id (240-249); the model keeps
the kinds `stop` and `eos` apart by their role in the row.

`RelayResponse` is the promise to those who train on the response: student and
teacher write in turns, at most M turns of the teacher, each going on until its
tokens or paragraphs are used up and no further; then the student goes on, or the
stop token follows the last turn. The refinement (`Turns`) reads the writer off
`finish` and the budget, and the turn off the history variables.

### MaskIpc - labels of one request on their way to `generate`

The worker ranks go through rejection sampling (which sends the stop event) and
bookkeeping (which sends the row's labels); the socket is a FIFO; `Receive` is
one turn of the receive thread; `Publish`, `Abort` and `AbortNoOutputs` end the
engine's part; `PopStopEvent` and `PopMask` are the two polls of `generate`. A
poll is one action: either its condition holds or its deadline has passed.
Positions are one-based. A deployment has ranks and is `reliable` or not: in a
reliable one no send fails and the receive thread empties the socket before a
deadline passes. `Response` and `Ended` are vLLM's cutting of a response at an
end token or at `max_tokens`. A row has no empty slot here, so `RejectionSample`
counts its tokens where the code counts slots (`SD` 297); rows with holes are in
`RelaySampler`.

### DraftProbs - whose distribution the trigger reads

`Sample` is the pairing at `SD` 1070, `Propose` the stacking at 1425-1430. The
rest is vLLM: requests join at the end of the batch, a finished request's place
is taken by the last one, the scheduler may cut drafts. A distribution is its
origin `<<request, position>>`; `paired` records what the last sampler call
compared with what.

### LoadBalancer - routing of calls to servers

`inflight` and `cache` are the balancer's; `pc` and `server` the clients'.
`Acquire`, `Release`, `AddServers` and `RemoveServers` are the actor's methods,
`Generated` the `finally` of the client. The two managers' guards (skip replicas
already active, or not active; `FR` 245-257, 307-312) are guards of the last
two. `min` over a dictionary picks the first of several; the model picks any.

### MessageQueue, FullyAsync, SampleStream - the pipeline

`MessageQueue` has one action per method of the actor and is extended by
`FullyAsync`, the composition of rollouter, queue and trainer. A step of
`FullyAsync` lies between two awaits. The processor (`_processor_worker`, `FR`
851-934) is the variable `proc`: `check` and `asked` (the test at 856, whose
statistics come from another actor), `pausing` (waiting for the lock),
`draining` (864-896), `take`, `limit` and `limit_wait` (917-924), `end` and
`end_wait` (902-914), then `marked` and `stopped` of
`_streaming_generation_main`. The monitor and `reset_staleness` are split the
same way, because both read something, await, and then write. The lock is
modelled where it is held across an await (`Locked`). `lost`, `delivered` and
`ended` are history variables.

`SampleStream` is the abstract specification: every sample delivered at most
once, a sample pushed out of the queue never, the end last, when nothing is
outstanding unless a task has failed. `DeliversStream` is the refinement
(`failed` is mapped to "some task has failed").

### ResumeClient, Generation - a response across weight updates

One request of the abort-and-resume client, any replica for each call, and
`CheckpointEngineManager.update_weights` as the actions `BeginUpdate`,
`AbortRequests`, `Drained`, `LoadWeights`, `SetGlobalSteps`, `Finalize`,
`ResumeGeneration`. The manager gathers replicas, so each replica pauses, loads
and resumes by itself. A token records how many response tokens stood in front
of it, the version of the weights and whether it ends the sequence: enough to
tell whether the merged text is one a model could have written. `global_steps`
of a reply is what the replica has when the engine's last output arrives.
`AbortRequests` is the `pause_generation` of vLLM 0.12 and later.

`Generation` is the abstract specification of a call that is never
interrupted; `LikeOneCall` is the refinement (`text` is the merged output with
the part under way, `wanted` the caller's limit or the configured length).

### Checkpoint - saves, crashes and restarts

The disk has, per part (`actor`, `critic`, `data`) and version, nothing, a
partial or a complete save. `BeginPart` is `save_checkpoint` of the workers up
to the first barrier with `ensure_checkpoint_capacity`, `EndPart` the part
behind the last barrier with `register_checkpoint`; opening and writing the
tracker file are two steps, as are folder and file of `data.pt`. `Crash` loses
everything but the disk; `Resume`, `StartFromScratch` and `FailToLoad` are the
outcomes of the two `load_checkpoint` methods.

### ReplayBuffer - the synchronous trainer

`fit` is a sequence of rounds (validation batches and training batches); a key
is `<<round, prompt, session>>`. `PollList` and `PollAdd` are the two halves of
the poll thread; `Dispatch`, `GetSample`, `Balance`, `TrainStep`, `Clear`,
`NextBatch`, `ClearStep` and `NextStep` are the trainer's, in the order of
`fit`: the batch of a step leaves the queue only after the validation.
`SessionEnds`, `SessionRaises` and `PromptEnds` are the workers'. `fit` raises at
`raised` when data of a batch is gone or an entry has no `global_steps`, and at
`empty` when a batch has no sample, because no session of it had any output: a
training batch of size 0 is not padded and fails the assertion of
`get_seqlen_balanced_partitions` (`utils/seqlen_balancing.py` 239, called at `MS`
1294), a validation batch has none of the fields that `MS` 913-922 read.

### RewardLimiter - token buckets, semaphore, timeouts

Time is a count of ticks. Both buckets hold what a second refills, so with the
refill of one tick as unit they differ only in what a request costs. `meter` is
a history variable, a leaky counter: its bound is the statement that *every*
stretch of time, not only the first, respects the rate.

A request is decoded in the event loop's default executor before it comes to the
buckets (`RL` 414-416), and a reward function that is not a coroutine runs in the
same executor (`RL` 387). `jobs` is the executor's queue and `threads` the calls
that have a thread. `TimeoutExpires` cancels a coroutine, or a function that has
no thread yet; a function in a thread goes on there, after its slot of the
semaphore is free (`StrayEnds` is its end). `hung` are the requests whose reward
function never returns. A coroutine ends when it is cancelled.

## 3. Runs

| Run | Instance | Shows |
| --- | --- | --- |
| `relay` | rows of 3 drafts, some outside the teacher's vocabulary, cap 4, 2 paragraphs, 2 takeovers, 24 tokens | `LegBounded`, `TakeoverBudget`, `StopEventExact`, `StopAfterFullLeg`, `WritesInTurns` |
| `trigger_modes` | 0 paragraphs, 3 takeovers; and Trigger-Stop | every trigger counts, the last one stops (`WritesInTurns`, `StopEventExact`); a stop keeps the divergent token (`StopKeepsDivergentToken`) |
| `ipc` | 1 reliable rank, or 2 ranks over a socket that loses and delays; rows of 2, 3 tokens, aborts | `MaskSound`, `GenerateReturns` for both; `ResponseExact`, `NeverRaises`, `StoresDrained` for the reliable one |
| `draft_churn` | 3 requests that join, finish, lose drafts | `EveryTokenHasARow` |
| `lb_elastic` | 1 fixed and 2 hybrid servers, 3 conversations, cache of 2 | `NeverOverCounts`, `StickySession` |
| `pipeline` | 8 samples in steps of 2, window 4, 2 slots, one failing task | `StatisticsAddUp`, `RunsAheadBounded`, `TrainingEnds`, `DeliversStream` |
| `resume` | 2 replicas, 3 updates, responses of 4 tokens, with and without a limit | `LimitOverCalls`, `VersionsEnclosed`, `UpdatedWhenIdle`, `Returns`, `LikeOneCall` |
| `checkpoint` | 7 versions, a save every 2, 2 crashes; no limit, 2, or 2 and 3 | `TrackerSound`, `DiskBounded`, `RestartKeepsProgress`, `TrainingCompletes` |
| `replay` | validation, a step, validation; 2 prompts with 2 sessions, multiple 3, one error | `BatchExact`, `QueueDrained`, `FitReturns` |
| `limiter` | 3 requests, a second of 3 ticks, 2 slots, 2 threads, up to 2 functions that hang; none, one or two buckets | `RateKept`, `EveryRequestScored` |

Why the bounds are enough. A takeover of four tokens in rows of three ends in
every slot of a first, a second and a later row, by either budget; 24 tokens let
two full takeovers happen with student rows between them and let `max_tokens`
cut at every point. In `ipc`, three tokens in rows of two have a first row, a
full row and a cut row. Three requests are what it takes for a hole in the batch
to be filled by a request that is not its neighbour. Three conversations exceed
the cache of two and are enough for one to be idle, one generating and one
releasing. In `pipeline`, the window is twice a training step, the slots are
fewer than the window, and eight samples are enough to go beyond the window
after a reset; they are four full batches, and with a failed task the end marker
cuts the last one short. Three updates abort a response of four
tokens in one to three places, on either replica. Seven versions with a save
every two fill a limit of three and delete behind it, and two crashes let a
second life delete, or not, what the first one left. One error is enough to
have a failed prompt beside a complete one; two sessions let a sample arrive
after its sibling failed, and every session may end without output, so that
batches are empty. Costs of 1, 2 and 4 at a capacity of 3 are below, not
dividing and above a full bucket; three requests are one more than there are
slots or threads, and with one function that hangs the other two share a thread.

`CHECK_DEADLOCK FALSE` is set where the thing modelled really ends: a request
(`relay`, `trigger_modes`, `ipc`, `resume`), all requests of a batch
(`draft_churn`, `draft_leave`), training (`checkpoint`, `replay`). The balancer
and the limiter's clock never stop, and the pipeline ends in a state that says
so (`Terminated`); they are checked for deadlock.

Runs that find what the code does differently from what a line of the
repository says; each is a finding in `PROJECT.json`:

| Run | Line of the repository | Behaviour |
| --- | --- | --- |
| `draft_leave` | `README.md` 133 "handoff top-K" | the test reads another request's distribution |
| `pipeline_hang` | `docs/advance/fully_async.md` 143 "rollout continues to generate and trainer continues to consume" | with a narrow window, tasks that are finished but not collected fill it after a reset (`FR` 577), and rollouter and trainer wait for each other |

### Fairness

* `MaskIpc`: workers, engine and receive thread go on (it loops with a receive
  timeout), both polls have a deadline. None for aborts or for the delivery of a
  datagram.
* `FullyAsync`: every coroutine of the event loop and the trainer go on; a
  generation ends, because the engine stops at `max_tokens` (one condition for all
  tasks is enough, there are finitely many). None for failures.
* `ResumeClient`: client and engine go on, an update that has begun ends; the
  trainer need not begin another.
* `Checkpoint`: the program goes on and is started again after a crash;
  crashes are bounded and need not happen.
* `ReplayBuffer`: the two threads of the trainer and the workers go on; nobody
  has to raise.
* `RewardLimiter`: time passes, the event loop and the executor run what is ready
  and timeouts expire; strong fairness of getting a slot, because
  `asyncio.Semaphore` wakes its waiters in order. Decoding returns, and so do
  reward functions, except those that hang.

### Limits of the code that the properties leave out

They can be reproduced by changing the constants named:

* `StopEventExact` is checked without out-of-vocabulary drafts where a stop
  token can follow student tokens of its row (`trigger_modes`): the event's
  position counts slots (`SD` 297), a hole left by such a draft is a slot but no
  token of the response. In `relay` the stop token only follows teacher rows.
* `LegsCounted`: for one paragraph per takeover, a trigger token that breaks the
  paragraph is a takeover that nobody counts (`SD` 1281-1284). Neither the
  default L=3 nor the default reflection tokens lead there.
* `NeverRaises` excepts a request that was aborted before its first token and
  whose final output has an entry without tokens: `VS` 741 raises for it.
  With two ranks the wait of `pop_with_actions` counts duplicates
  (`VS` 1354) and may end before the mask is complete, which raises too; with
  `ExportAction = TRUE` the first token has no action and every response of two
  tokens raises (`VS` 1315).
* `ResponseExact` is for a reliable deployment: a stop event later than 50 ms
  leaves the stop token in the response (`VS` 655).
* A replica that returns to the pool is counted as idle while its old calls run
  (`LS` 111), so the choice is not always the least loaded server.
* The client rewrites `max_tokens` in the caller's dictionary (`FR` 137) and the
  single-turn agent loop cuts the response by what is left of it
  (`single_turn_agent_loop.py` 72); `Kept` models it. Only validation passes a
  limit.
* The client drops the labels of its parts: with `Labels = TRUE` the agent loop
  raises (`agent_loop.py` 699-717). With `PartialRollout = FALSE` it returns
  aborted responses as they are.
* With a retention limit of 1, `register_checkpoint` deletes the checkpoint the
  tracker still names before critic, data and tracker are written (`CM` 179):
  `TrackerSound` needs limits of two or more. A crash inside the write of the
  tracker leaves an empty file that no restart reads; `TrainingCompletes` says
  so.
* With two validation batches (`ValBatches = 2`), which share one
  `global_steps`, a listing made before `kv_clear` and merged after `remove`
  brings back keys whose data is gone (`MS` 215-218), and the next batch is
  sampled with them. Keys of prompts are never removed from the buffer or the
  queue; nor are samples that come after a sibling has failed.
* `FitReturns` excepts a round in which no prompt whose sessions all returned has
  put a sample (`MS` 385-387): `fit` raises for it. The model takes it that a read
  of no keys from the transfer queue gives none of the fields; were it otherwise,
  the assertion on the metrics (`MS` 1612) would raise in the first validation.
* `EveryRequestScored` is for coroutines, or for fewer functions that hang than the
  executor has threads. Once functions that hang have all threads, no later request
  is decoded, and it is never scored: decoding has no timeout (`RL` 414-416). With
  `Threads = 2`, two such functions are enough.
* The semaphore limits the calls that somebody waits for. A function in the executor
  still runs after its timeout, when the semaphore has let the next one start, so
  with `max_concurrent` of 1 two of them can run at once; the class docstring's
  "Limits the number of simultaneous API requests" (`RL` 182-184) holds for
  coroutines only. No property states it: for coroutines it is the guard of
  `Compute`, for functions it is false.
* Tokens are taken before the semaphore: what the buckets bound is admission, not
  the calls themselves.
* `UpdatedWhenIdle` assumes vLLM 0.12 or later, and an abort that succeeds:
  `abort_all_requests` swallows an exception and the update goes on (`VS` 921-923),
  and for older versions it does not pause the engine, so a call can start while
  weights are loaded.

## 4. Proofs

Eight modules hold proofs that TLAPS checks, each for one specification
(`RelaySamplerProofs` for two) and for every value of its constants that satisfies the `ASSUME`s of the module it
extends; those state what the code checks or needs (at least one slot, one
token, one step). Where a theorem needs more than that, it says so. An
invariant of the runs is seldom inductive; each module defines `IInv`, the
conjunction of named parts that is (TLC finds it true on the instances of the
runs), and has one lemma per part, or per action, for the steps that can
disturb it.

`RelaySamplerProofs`
* `TypeCorrect`: `[]TypeOK`; `LegsBounded`: `[]LegBounded`. `LegBounded` has to
  know what a leg has used up already: `LegInv` adds that, while a takeover is
  on, the leg's tokens and the tokens left make at most the cap plus one, and
  its breaks and the paragraphs left at most the paragraph budget. The central
  lemmas count the slots of a truncated row.
* `TakeoversBounded`: under `LegsCounted`, `[](TakeoverBudget /\
  HandBackWithinBudget)`; `HandBack`: `[]HandBackWithinBudget` without it.
  `CountInv` relates the legs begun to the forgetful count: while the request
  runs, `legs` is `completedTakeovers`, plus one inside a takeover. The step that
  forgets the count also ends the request, because the stop token is in the row.
* `StopEventsExact`: under `NoHoles`, `[]StopEventExact`. A row that is filled
  up to its stop token is accepted up to that token or to an earlier end, and the
  event's slot number is the number of tokens in front of it. `NoHoles` says that
  no draft is out of the vocabulary, or that stop tokens only follow teacher rows.
* `StopsAfterFullLegs`: `[]StopAfterFullLeg`. While a request runs the inequality
  of `LegInv` is an equation (`FullInv`): everything emitted was accepted.
* `ImplementsTurns`: under `LegsCounted`, `WritesInTurns`, the refinement of
  `RelayResponse`. A row that ends a takeover and leaves the request running, or
  stops it, was accepted up to the token that used up the budget (`EndsUsedUp`); a
  row that does not end it leaves some of both budgets (`PenKept`); and a stop token
  is in the row of the last takeover only (`StopIsLast`), which by `CountInv` is
  turn M.
* `DivergentTokenKept`: the action property `StopKeepsDivergentToken`.
* `RowForEveryToken`: `[]EveryTokenHasARow` of `DraftProbs`, which the module
  extends beside `RelaySampler` (same patch, no common state), for any requests
  and any K, whoever joins, leaves or has drafts cut. `KeptInv`: the rows kept are
  at least K for every request that still has drafts. The lengths of the
  flattened tensors are sums over the batch; they are computed by an induction
  over least counterexamples (`AllNumbers`), since the flattening of the community
  modules is recursive.

`MaskIpcProofs`
* `MaskLabelsRight`: `[]MaskSound`, for any ranks and any socket. Everything in the
  socket and in the stores is truthful: it says of a position what was sampled
  there (`EventsInv`, `ChannelInv`); and what `generate` holds is a head of what was
  sampled (`HeadInv`). So whatever is lost or doubled, a mask that can be aligned
  is right.
* `ResponsesExact`: `[]ResponseExact`, for any number of ranks as long as nothing
  is lost or late. `ExactInv` says that only the latest row can hold a stop token
  (`StopInv`), that its event is on its way or received before the driver can have
  finished that row (`StopSentInv`), and that a response which has ended reaches
  into the latest row.
* `NothingRaises`: `[]NeverRaises`, and `ServerKeepsNothing`: `[]StoresDrained`, if
  reliable deployments have one rank (`OneReliableRank`) and, for the first, actions
  are not exported; otherwise they are false, see above. The wait for the mask
  counts labels and says nothing of which they are, so `SingleInv` has to: until
  `generate` pops the stores, the labels in the stores and in the socket are
  consecutive, without a gap or a double (`ChainInv`, along a function that gives
  each datagram the number of labels in front of it), there is one stop event
  at most (`OnceInv`), and it is popped by the response it ended (`DrainInv`).

`LoadBalancerProofs`: `TypeCorrect`; `NeverOver` (`NeverOverCounts`); `Sticky`, the
action property `StickySession`. `CacheInv` says that the routing cache is the
tail of the history of routed conversations, each with the server of its latest
call.

`FullyAsyncProofs`
* `QueueAddsUp`: `StatisticsAddUp` for the queue by itself (`MQSpec`), and
  `StatisticsKept` for the composition; `TypeCorrect`.
* `AheadBounded`: `[]RunsAheadBounded`. `AheadInv` relates `staleness_samples` to
  the work that is really ahead, at every place of the processor and while
  `reset_staleness` waits for the size of the queue: the counter misses at most
  the sample that the processor holds.
* `ImplementsStream`: every step of the pipeline is a step of `SampleStream` or
  stutters. `StreamInv` says that a sample is at one place, and that the end
  marker stands behind all of them unless a task has failed.

`ResumeClientProofs`: `LimitKept`, `VersionsTruthful`, `WeightsReplacedWhenIdle`
and, with `PartialRollout`, `ImplementsOneCall`, the refinement of `Generation`. The
invariant says that the call under way asks for exactly what is left of the limit,
that its tokens are of one version, the replica's, and that replicas differ in
weights only while they are paused.

`CheckpointProofs`: `TypeCorrect`, `ProgressKept` (`RestartKeepsProgress`), `DiskKept`
(`DiskBounded`) and, under `RoomForTwo` (no retention limit is 1; it is false
otherwise, see above), `TrackerLoadable` (`TrackerSound`). `PathsInv` describes the
remembered paths: the latest saves of this life, ending with the version that
is being saved or with the saved one; `LeftInv` bounds what earlier lives
have left.

`ReplayBufferProofs`: `TypeCorrect` and, for at most one validation batch,
`BatchesExact` (`BatchExact`) and `QueueDrains` (`QueueDrained`); with two it is
false, see above. `ListingInv` is the heart: a listing that holds the result of a
prompt holds its samples too, and what is listed or merged of the current round is
still in the queue.

`RewardLimiterProofs`: `RateLimited` (`RateKept`), whatever hangs. A bucket's level and its meter never exceed one burst together
(`BucketInv`); a request that has taken tokens ahead sleeps until the bucket has
recovered and the meter has drained (`AheadInv`), and two of them wake at least one
cost apart (`ApartInv`).

Only model-checked are the liveness properties (`GenerateReturns`, `TrainingEnds`,
`Returns`, `TrainingCompletes`, `FitReturns`, `EveryRequestScored`): they rest on
fairness, which is outside the prover's reach. The two runs that end in a violation
state nothing to prove.

## 5. Not modelled

Most of the repository's lines are upstream verl: training engines, kernels,
losses and advantage estimators, model patches, data protocol, graders, other
rollout backends and scripts. They are floating-point numerics, tensor
reshaping, string processing or file I/O of one process, without an order of
steps that could go wrong, and a model of them would only repeat the code. The
SKD sampler and the routing of tokens to loss terms are pure functions of a row.
`PROJECT.json` lists every part with its reason.

## 6. Plan

Validation inside the pipeline, which shares the replicas with the rollout.
