---------------------------- MODULE ResumeClient ----------------------------
(***************************************************************************)
(* A response that is generated while the weights are replaced:            *)
(* CheckpointEngineManager.update_weights aborts what runs on every        *)
(* replica, and FullyAsyncLLMServerClient.generate merges the aborted part *)
(* and calls again behind it (verl/checkpoint_engine/base.py,              *)
(* fully_async_policy/fully_async_rollouter.py, vllm_async_server.py).     *)
(*                                                                         *)
(* Requests do not influence one another, so there is one request, with    *)
(* any replica for each of its calls, and the single-turn agent loop that  *)
(* waits for it.  A token is told apart by the number of response tokens   *)
(* in front of it when it was generated, the version of the weights, and   *)
(* whether it ends the sequence.                                           *)
(***************************************************************************)
EXTENDS Integers, Sequences

CONSTANTS
    Servers,         \* the replicas
    MaxVersion,      \* bound: current_param_version of the trainer
    Limits,          \* max_tokens of the sampling parameters, NoLimit in training
    Prompt,          \* tokens of the prompt
    PromptLength,    \* config.prompt_length
    ResponseLength,  \* config.response_length
    MaxModelLen,     \* config.max_model_len
    PartialRollout,  \* async_training.partial_rollout
    Labels           \* VERL_OPD_SPECULATIVE_ENABLE

NoLimit == 0

ASSUME LengthsAssumption ==
    /\ {Prompt, PromptLength, ResponseLength, MaxModelLen} \subseteq Nat \ {0}
    /\ Limits \subseteq Nat /\ MaxVersion \in Nat
    /\ Prompt <= PromptLength
    /\ \A n \in Limits \cup {ResponseLength} : Prompt + n <= MaxModelLen
ASSUME ModesAssumption == PartialRollout \in BOOLEAN /\ Labels \in BOOLEAN

VARIABLES
    client,       \* "ready", "calling", "returned", or "raised" by the server
    original,     \* original_max_tokens
    limit,        \* sampling_params[limit_key], shared with the agent loop
    final,        \* final_output.token_ids
    stop,         \* final_output.stop_reason
    minSteps,     \* min_global_steps, -1 for None
    maxSteps,     \* max_global_steps
    call,         \* the call under way: server, status, prompt_ids, max_tokens
    part,         \* tokens generated by this call
    weights,      \* per replica: version of the weights in the engine
    globalSteps,  \* per replica: global_steps
    paused,       \* per replica: generation is paused
    manager,      \* where update_weights is
    version,      \* global_steps of the latest update_weights
    agent,        \* "waiting", "kept" or "raised"
    kept          \* response_ids of the agent loop

request == <<client, original, limit, final, stop, minSteps, maxSteps>>
engine == <<weights, globalSteps, paused>>
sync == <<manager, version>>
loop == <<agent, kept>>
vars == <<client, original, limit, final, stop, minSteps, maxSteps, call, part,
          weights, globalSteps, paused, manager, version, agent, kept>>

NoCall == [status |-> "none"]

Smaller(a, b) == IF a <= b THEN a ELSE b
Larger(a, b) == IF a <= b THEN b ELSE a

-----------------------------------------------------------------------------
(* The server.  vLLMHttpServer.generate computes the limit of the call;    *)
(* given is what prompt_ids holds of the response.                         *)
MutForgetFinal == 0
Given == Len(final)

MaxTokens(given) ==
    LET room == MaxModelLen - (Prompt + given)
        wanted == IF limit # NoLimit THEN limit
                  ELSE Smaller(ResponseLength, PromptLength + ResponseLength - (Prompt + given))
    IN  Larger(1, Smaller(wanted, room))

Call ==
    /\ client = "ready"
    /\ client' = "calling"
    /\ \E s \in Servers :
          call' = [status |-> "sent", server |-> s, given |-> Given]
    /\ UNCHANGED <<engine, sync, loop, original, limit, final, stop, minSteps, maxSteps, part>>

(* A prompt without room for a token raises; engine.generate takes no      *)
(* request while generation is paused.                                     *)
Admit ==
    /\ call.status = "sent"
    /\ IF MaxModelLen - (Prompt + call.given) < 1
       THEN /\ call' = NoCall
            /\ client' = "raised"
       ELSE /\ ~paused[call.server]
            /\ call' = [status |-> "running", server |-> call.server, given |-> call.given,
                        maxTokens |-> MaxTokens(call.given)]
            /\ UNCHANGED client
    /\ UNCHANGED <<engine, sync, loop, original, limit, final, stop, minSteps, maxSteps, part>>

(* The reply carries the replica's global_steps.                           *)
Replied(reason) ==
    [status |-> "replied", reason |-> reason, steps |-> globalSteps[call.server]]

GenerateToken(eos) ==
    /\ call.status = "running"
    /\ part' = Append(part, [after |-> call.given + Len(part),
                             version |-> weights[call.server], eos |-> eos])
    /\ call' = IF eos \/ Len(part') = call.maxTokens THEN Replied("completed") ELSE call
    /\ UNCHANGED <<request, engine, sync, loop>>

-----------------------------------------------------------------------------
(* The client: merges the reply and decides whether to call again.         *)

MutRemainingOfPart(all) == original - Len(part)
Remaining(all) == original - Len(all)

MutLatestSteps(steps) == steps
FirstSteps(steps) == IF minSteps = -1 THEN steps ELSE minSteps

CallAgain == call.reason = "aborted" /\ PartialRollout

MergeReply ==
    /\ call.status = "replied"
    /\ LET all == final \o part
           atLimit == original # NoLimit /\ Len(all) >= original
       IN  /\ final' = all
           /\ limit' = IF original # NoLimit THEN Remaining(all) ELSE limit
           /\ stop' = IF atLimit THEN "length" ELSE call.reason
           /\ client' = IF ~atLimit /\ CallAgain THEN "ready" ELSE "returned"
    /\ minSteps' = FirstSteps(call.steps)
    /\ maxSteps' = call.steps
    /\ part' = <<>>
    /\ call' = NoCall
    /\ UNCHANGED <<original, engine, sync, loop>>

(* The agent loop cuts the response by the sampling parameters it gave to  *)
(* the client, and raises for a response without labels: the client passes *)
(* on none of the extra fields of a part but the versions.                 *)
Kept == LET length == IF limit # NoLimit THEN limit ELSE ResponseLength
        IN  SubSeq(final, 1, Smaller(Len(final), length))

RunAgentLoop ==
    /\ client = "returned"
    /\ agent = "waiting"
    /\ kept' = Kept
    /\ agent' = IF Labels /\ Kept # <<>> THEN "raised" ELSE "kept"
    /\ UNCHANGED <<request, call, part, engine, sync>>

-----------------------------------------------------------------------------
(* CheckpointEngineManager.update_weights; the trainer calls it with its   *)
(* next version.                                                           *)

BeginUpdate ==
    /\ manager = "idle"
    /\ version < MaxVersion
    /\ version' = version + 1
    /\ manager' = "abort"
    /\ UNCHANGED <<request, call, part, engine, loop>>

(* pause_generation of vLLM 0.12 and later, which is assumed to succeed:   *)
(* abort_all_requests logs an exception and the update goes on.            *)
AbortRequests(s) ==
    /\ manager = "abort"
    /\ ~paused[s]
    /\ paused' = [paused EXCEPT ![s] = TRUE]
    /\ call' = IF call.status = "running" /\ call.server = s THEN Replied("aborted") ELSE call
    /\ UNCHANGED <<request, part, weights, globalSteps, sync, loop>>

(* abort_replicas has gathered every replica, and release_kv_cache waits   *)
(* until the engines are drained.                                          *)
MutFirstAborted == \E s \in Servers : paused[s]
AllAborted == \A s \in Servers : paused[s]

Drained ==
    /\ manager = "abort"
    /\ AllAborted
    /\ manager' = "update"
    /\ UNCHANGED <<request, call, part, engine, version, loop>>

LoadWeights(s) ==
    /\ manager = "update"
    /\ weights[s] # version
    /\ weights' = [weights EXCEPT ![s] = version]
    /\ UNCHANGED <<request, call, part, globalSteps, paused, sync, loop>>

SetGlobalSteps(s) ==
    /\ manager = "update"
    /\ weights[s] = version
    /\ globalSteps[s] # version
    /\ globalSteps' = [globalSteps EXCEPT ![s] = version]
    /\ UNCHANGED <<request, call, part, weights, paused, sync, loop>>

Finalize ==
    /\ manager = "update"
    /\ \A s \in Servers : globalSteps[s] = version
    /\ manager' = "resume"
    /\ UNCHANGED <<request, call, part, engine, version, loop>>

MutAnyResumed == \E s \in Servers : ~paused'[s]
AllResumed == \A s \in Servers : ~paused'[s]

ResumeGeneration(s) ==
    /\ manager = "resume"
    /\ paused[s]
    /\ paused' = [paused EXCEPT ![s] = FALSE]
    /\ manager' = IF AllResumed THEN "idle" ELSE "resume"
    /\ UNCHANGED <<request, call, part, weights, globalSteps, version, loop>>

-----------------------------------------------------------------------------
Init ==
    /\ client = "ready"
    /\ original \in Limits
    /\ limit = original
    /\ final = <<>> /\ stop = "none"
    /\ minSteps = -1 /\ maxSteps = -1
    /\ call = NoCall /\ part = <<>>
    /\ weights = [s \in Servers |-> 0]
    /\ globalSteps = [s \in Servers |-> 0]
    /\ paused = [s \in Servers |-> FALSE]
    /\ manager = "idle" /\ version = 0
    /\ agent = "waiting" /\ kept = <<>>

Request ==
    \/ Call \/ Admit
    \/ \E eos \in BOOLEAN : GenerateToken(eos)
    \/ MergeReply \/ RunAgentLoop

Update ==
    \/ BeginUpdate \/ Drained \/ Finalize
    \/ \E s \in Servers : AbortRequests(s) \/ LoadWeights(s) \/ SetGlobalSteps(s) \/ ResumeGeneration(s)

Next == Request \/ Update

(* The client and the engine go on; an update that has begun ends.  The    *)
(* trainer need not begin another.                                         *)
Fairness ==
    /\ WF_vars(Request)
    /\ WF_vars(Update /\ manager # "idle")

Spec == Init /\ [][Next]_vars /\ Fairness

-----------------------------------------------------------------------------

(* The token limit of the caller holds over all the calls together, and    *)
(* what is left of it never gets below zero.                               *)
LimitOverCalls ==
    original # NoLimit => Len(final) + Len(part) <= original /\ limit >= 0

Wanted == IF original # NoLimit THEN original ELSE ResponseLength

(* min_global_steps and max_global_steps enclose the versions of the       *)
(* weights that generated the response; the last part is of the latter.    *)
VersionsEnclosed ==
    client = "returned" =>
        /\ \A i \in DOMAIN final : final[i].version \in minSteps..maxSteps
        /\ final # <<>> => final[Len(final)].version = maxSteps

(* Weights are replaced only while nothing runs on any replica: no part    *)
(* mixes versions, and no two replicas generate with different ones.       *)
UpdatedWhenIdle ==
    [][weights' # weights => call.status # "running" /\ \A s \in Servers : paused[s]]_vars

(* Once the trainer leaves it alone, the agent loop gets its response: no  *)
(* call is lost on a paused replica, and none raises for want of room      *)
(* behind a prompt that has grown by the parts before.                     *)
Returns == <>(agent = "kept")

Uninterrupted == INSTANCE Generation WITH
    Versions <- 0..MaxVersion,
    wanted <- Wanted,
    text <- final \o part,
    returned <- client = "returned"

(* The calls of the client together behave like one that is never          *)
(* interrupted: every token is generated behind all the others, and a      *)
(* response that is returned is complete, however often it was aborted.    *)
LikeOneCall == Uninterrupted!Spec
=============================================================================
