---------------------------- MODULE RewardLimiter ----------------------------
(***************************************************************************)
(* RateLimitedRewardManager.run_single and its AsyncTokenBuckets           *)
(* (verl/experimental/reward_loop/reward_manager/limited.py).  A request   *)
(* decodes its response in a thread of the event loop's default executor,  *)
(* takes tokens from the request bucket and the token bucket, those that   *)
(* are configured, then a slot of the semaphore, and calls the reward      *)
(* function with a timeout: a coroutine, or a function in the same         *)
(* executor.                                                               *)
(*                                                                         *)
(* Both buckets hold what one second refills, so with a second of Second   *)
(* ticks and the refill of one tick as the unit of each bucket, a bucket   *)
(* holds Second units and gets one per tick; only the units one request    *)
(* costs differ.  No await stands between lock and unlock of a bucket, so  *)
(* one round of acquire is one step.  asyncio.sleep ends on time: the      *)
(* event loop is not blocked.                                              *)
(***************************************************************************)
EXTENDS Integers, Sequences, FiniteSets, FiniteSetsExt

CONSTANTS
    Requests,       \* reward requests, each made once
    Second,         \* ticks of a second
    Configurations, \* sequences with the cost of a request in every bucket
    MaxConcurrent,  \* slots of the semaphore
    Threads,        \* threads of the default executor
    Hangs           \* sets of requests, those whose reward function hangs

ASSUME LimiterAssumption ==
    /\ {Second, MaxConcurrent, Threads} \subseteq Nat \ {0}
    /\ \A c \in Configurations : c \in Seq(Nat \ {0})
    /\ IsFiniteSet(Requests) /\ Hangs \subseteq SUBSET Requests

VARIABLES
    cost,     \* the buckets of this deployment: what a request costs in each
    isAsync,  \* is_async_reward_score
    hung,     \* requests whose reward function does not return by itself
    tokens,   \* per bucket: tokens
    elapsed,  \* per bucket: ticks since last_update
    pc,       \* per request: "new", "decoding", "bucket", "queued", "computing",
              \* "scored"
    stage,    \* per request: the bucket it is at
    paid,     \* per request: its tokens are taken, it only sleeps for them
    sleep,    \* per request: ticks left of its asyncio.sleep
    jobs,     \* calls the executor has no thread for yet, by their request: the
              \* tokenizer when it is decoding, else the reward function
    threads,  \* calls in a thread of the executor
    meter     \* history, per bucket: cost of the requests it has let through,
              \* less one per tick since, but never below 0

config == <<cost, isAsync, hung>>
bucket == <<tokens, elapsed>>
pool == <<jobs, threads>>
vars == <<config, bucket, pc, stage, paid, sleep, pool, meter>>

Buckets == DOMAIN cost

Init ==
    /\ cost \in Configurations
    /\ isAsync \in BOOLEAN
    /\ hung \in Hangs
    /\ tokens = [b \in Buckets |-> Second]
    /\ elapsed = [b \in Buckets |-> 0]
    /\ pc = [r \in Requests |-> "new"]
    /\ stage = [r \in Requests |-> 1]
    /\ paid = [r \in Requests |-> FALSE]
    /\ sleep = [r \in Requests |-> 0]
    /\ jobs = <<>>
    /\ threads = {}
    /\ meter = [b \in Buckets |-> 0]

-----------------------------------------------------------------------------
(* AsyncTokenBucket.acquire *)

\* tokens after the refill that every round of acquire starts with
MutNoCapacity(b) == tokens[b] + elapsed[b]
Refilled(b) == Min({Second, tokens[b] + elapsed[b]})

\* ticks until the missing tokens have been refilled
WaitTime(b) == cost[b] - Refilled(b)

\* Where a request is when it has passed buckets 1 to n.
Place(n) == IF n < Len(cost) THEN "bucket" ELSE "queued"

\* acquire returns to run_single
PassedTo(r) ==
    /\ pc' = [pc EXCEPT ![r] = Place(stage[r])]
    /\ stage' = [stage EXCEPT ![r] = @ + 1]
    /\ meter' = [meter EXCEPT ![stage[r]] = @ + cost[stage[r]]]

AtBucket(r) == pc[r] = "bucket" /\ sleep[r] = 0
Refill(b, spent) ==
    /\ tokens' = [tokens EXCEPT ![b] = Refilled(b) - spent]
    /\ elapsed' = [elapsed EXCEPT ![b] = 0]

\* A request that costs more than a full bucket takes its tokens at once,
\* which makes the count negative, and sleeps for them.
Overdraw(r) ==
    LET b == stage[r] IN
    /\ AtBucket(r) /\ ~paid[r]
    /\ cost[b] > Second
    /\ Refill(b, cost[b])
    /\ sleep' = [sleep EXCEPT ![r] = WaitTime(b)]
    /\ paid' = [paid EXCEPT ![r] = TRUE]
    /\ UNCHANGED <<config, pc, stage, pool, meter>>

SleptForTokens(r) ==
    /\ AtBucket(r) /\ paid[r]
    /\ paid' = [paid EXCEPT ![r] = FALSE]
    /\ PassedTo(r)
    /\ UNCHANGED <<config, bucket, sleep, pool>>

\* The standard case: take the tokens, or sleep without them and try again.
TakeTokens(r) ==
    LET b == stage[r] IN
    /\ AtBucket(r)
    /\ cost[b] <= Second
    /\ Refilled(b) >= cost[b]
    /\ Refill(b, cost[b])
    /\ PassedTo(r)
    /\ UNCHANGED <<config, paid, sleep, pool>>

TryLater(r) ==
    LET b == stage[r] IN
    /\ AtBucket(r)
    /\ cost[b] <= Second
    /\ Refilled(b) < cost[b]
    /\ Refill(b, 0)
    /\ sleep' = [sleep EXCEPT ![r] = WaitTime(b)]
    /\ UNCHANGED <<config, pc, stage, paid, pool, meter>>

-----------------------------------------------------------------------------
(* RateLimitedRewardManager.run_single *)

\* The response goes to the executor to be decoded, for which no timeout is set.
Arrive(r) ==
    /\ pc[r] = "new"
    /\ pc' = [pc EXCEPT ![r] = "decoding"]
    /\ jobs' = Append(jobs, r)
    /\ UNCHANGED <<config, bucket, stage, paid, sleep, threads, meter>>

\* The executor: a free thread takes the call that waits longest.
StartJob ==
    /\ jobs # <<>>
    /\ Cardinality(threads) < Threads
    /\ threads' = threads \cup {Head(jobs)}
    /\ jobs' = Tail(jobs)
    /\ UNCHANGED <<config, bucket, pc, stage, paid, sleep, meter>>

Decoded(r) ==
    /\ pc[r] = "decoding"
    /\ r \in threads
    /\ threads' = threads \ {r}
    /\ pc' = [pc EXCEPT ![r] = Place(0)]
    /\ UNCHANGED <<config, bucket, stage, paid, sleep, jobs, meter>>

\* async with self._semaphore; a function goes to the executor.
Computing == {r \in Requests : pc[r] = "computing"}

Compute(r) ==
    /\ pc[r] = "queued"
    /\ Cardinality(Computing) < MaxConcurrent
    /\ pc' = [pc EXCEPT ![r] = "computing"]
    /\ jobs' = IF isAsync THEN jobs ELSE Append(jobs, r)
    /\ UNCHANGED <<config, bucket, stage, paid, sleep, threads, meter>>

\* The reward function returns or raises, which scores 0.
Score(r) ==
    /\ pc[r] = "computing"
    /\ isAsync \/ r \in threads
    /\ r \notin hung
    /\ pc' = [pc EXCEPT ![r] = "scored"]
    /\ threads' = threads \ {r}
    /\ UNCHANGED <<config, bucket, stage, paid, sleep, jobs, meter>>

\* asyncio.wait_for gives up and the request scores 0.  A coroutine is
\* cancelled, and so is a function that waits for a thread; one that has a
\* thread goes on in it.
MutNoTimeout(r) == FALSE
Expires(r) == pc[r] = "computing"
TimeoutExpires(r) ==
    /\ Expires(r)
    /\ pc' = [pc EXCEPT ![r] = "scored"]
    /\ jobs' = SelectSeq(jobs, LAMBDA q : q # r)
    /\ UNCHANGED <<config, bucket, stage, paid, sleep, threads, meter>>

\* A function whose request has timed out returns to nobody.
StrayEnds(r) ==
    /\ pc[r] = "scored"
    /\ r \in threads
    /\ r \notin hung
    /\ threads' = threads \ {r}
    /\ UNCHANGED <<config, bucket, pc, stage, paid, sleep, jobs, meter>>

\* A tick passes when every sleep that has ended has been noticed.  A bucket
\* gains nothing from being left alone for longer than it takes to overflow.
Tick ==
    /\ \A r \in Requests : ~AtBucket(r)
    /\ sleep' = [r \in Requests |-> IF sleep[r] > 0 THEN sleep[r] - 1 ELSE 0]
    /\ elapsed' = [b \in Buckets |->
           IF tokens[b] + elapsed[b] <= Second THEN elapsed[b] + 1 ELSE elapsed[b]]
    /\ meter' = [b \in Buckets |-> IF meter[b] > 0 THEN meter[b] - 1 ELSE 0]
    /\ UNCHANGED <<config, tokens, pc, stage, paid, pool>>

Acquire(r) == Overdraw(r) \/ SleptForTokens(r) \/ TakeTokens(r) \/ TryLater(r)

Next ==
    \/ Tick
    \/ StartJob
    \/ \E r \in Requests :
        \/ Arrive(r)
        \/ Decoded(r)
        \/ Acquire(r)
        \/ Compute(r)
        \/ Score(r)
        \/ TimeoutExpires(r)
        \/ StrayEnds(r)

(* The event loop and the executor run what is ready, asyncio.Semaphore    *)
(* serves its waiters in order (SF), time passes and timeouts expire;      *)
(* decoding returns, and a reward function does unless it hangs.           *)
Fairness ==
    /\ WF_vars(Tick) /\ WF_vars(StartJob)
    /\ \A r \in Requests :
        /\ WF_vars(Arrive(r)) /\ WF_vars(Decoded(r)) /\ WF_vars(Acquire(r))
        /\ SF_vars(Compute(r)) /\ WF_vars(TimeoutExpires(r)) /\ WF_vars(StrayEnds(r))

Spec == Init /\ [][Next]_vars /\ Fairness

-----------------------------------------------------------------------------
(* Properties *)

\* A bucket lets through, in any stretch of time, no more than it refills in
\* that time plus one burst: a full bucket, or one request that costs more
\* than that.  Requests that take their tokens ahead and requests that try
\* again after a sleep that others were faster than do not add to it.
RateKept == \A b \in Buckets : meter[b] <= Max({Second, cost[b]})

\* Every request gets a score although reward functions hang: nobody sleeps for
\* tokens for ever, no slot is lost, and the executor has a thread for the
\* requests that come later as long as fewer functions hang than it has
\* threads.  Coroutines that hang hold no thread and may be any number.
EveryRequestScored ==
    (isAsync \/ Cardinality(hung) < Threads) => <>(\A r \in Requests : pc[r] = "scored")
=============================================================================
