------------------------------- MODULE MaskIpc -------------------------------
(***************************************************************************)
(* How the token-source labels of one response reach the rollout server:   *)
(* the vLLM workers (opd/patches/vllm/speculative_decode.py) send every    *)
(* row of sampled tokens as a datagram, and a stop event for the private   *)
(* stop token; the receive thread of OpdMaskIpcServer collects them; and   *)
(* generate() (verl/workers/rollout/vllm_rollout/vllm_async_server.py)     *)
(* waits for both with a deadline, strips the stop token and aligns the    *)
(* labels with the final tokens.                                           *)
(*                                                                         *)
(* The stores of the server are keyed by request id, and every call of     *)
(* generate() has an id of its own, so one request is modelled.  Every     *)
(* rank of a tensor-parallel worker group samples the same row and sends   *)
(* its own copy; the forward pass of the next row needs all of them.       *)
(*                                                                         *)
(* A token is a teacher label and a kind: "text", "eos" (ends a request)   *)
(* or "stop" (the internal stop token, which ends it too).  Equal kinds    *)
(* stand for equal token ids.                                              *)
(***************************************************************************)
EXTENDS Integers, Sequences, SequencesExt, FiniteSetsExt

CONSTANTS
    Deployments,    \* what the system may run on: the tensor-parallel ranks of
                    \* the rollout worker, and whether the socket is reliable
    Driver,         \* the rank whose output the engine publishes
    MaxRow,         \* most tokens of one row
    MaxTokens,      \* max_tokens of the request
    ExportAction    \* RELAY_OPD_EXPORT_STUDENT_ACTION

ASSUME DeploymentsAssumption ==
    \A d \in Deployments : Driver \in d.ranks /\ d.reliable \in BOOLEAN
ASSUME SizeAssumption == MaxRow \in Nat \ {0} /\ MaxTokens \in Nat \ {0}
ASSUME FlagAssumption == ExportAction \in BOOLEAN

VARIABLES
    deployment, \* one of Deployments, for good
    sampled,   \* output_token_ids of the workers, the current row included
    row,       \* the latest row
    phase,     \* per rank: "idle", "forward" or "rejected" (rejection sampler done)
    seen,      \* number of tokens whose output the engine has published
    channel,   \* datagrams in the socket
    events,    \* mask_store, token_store and position_store of the request
    actions,   \* length of action_store, 0 when the request has no entry
    stops,     \* positions in stop_event_store
    pc,        \* of generate()
    raw,       \* final_res.outputs[0].token_ids
    tokens,    \* token_ids: raw without the stop token
    triggered, \* extra_fields["trigger_stopped"]
    mask       \* relay_teacher_mask

Ranks == deployment.ranks
Reliable == deployment.reliable   \* no send raises and no datagram misses a deadline

workers == <<deployment, sampled, row, phase>>
stores == <<events, actions, stops>>
server == <<pc, raw, tokens, triggered, mask>>
vars == <<deployment, sampled, row, phase, seen, channel, events, actions, stops,
          pc, raw, tokens, triggered, mask>>

Token == [teacher: BOOLEAN, kind: {"text", "eos", "stop"}]

(* Rows the samplers emit: the stop token is a student-labelled token at   *)
(* the end of a row and follows another token.                             *)
Row(r) ==
    \A i \in DOMAIN r :
        r[i].kind = "stop" => i = Len(r) /\ i > 1 /\ ~r[i].teacher
Rows == {r \in UNION {[1..n -> Token] : n \in 1..MaxRow} : Row(r)}

(* vLLM samples the first token without speculation: no label, no actions. *)
FirstRow(r) == Len(r) = 1 /\ ~r[1].teacher /\ r[1].kind # "stop"

(* The scheduler cuts the response after an end token and at max_tokens.   *)
Response(toks) ==
    LET ends == {i \in DOMAIN toks : toks[i].kind \in {"eos", "stop"}} \cup {MaxTokens, Len(toks)}
    IN  SubSeq(toks, 1, Min(ends))
Ended(toks) ==
    Len(toks) >= MaxTokens \/ \E i \in DOMAIN toks : toks[i].kind \in {"eos", "stop"}

-----------------------------------------------------------------------------
(* The workers.                                                            *)

(* A row has left the sampler of every rank: the next one starts.          *)
StartRow ==
    /\ pc = "generate"
    /\ \A r \in Ranks : phase[r] = "idle"
    /\ ~Ended(sampled)
    /\ \E r \in Rows :
        /\ sampled = <<>> => FirstRow(r)
        /\ row' = r
        /\ sampled' = sampled \o r
    /\ phase' = [r \in Ranks |-> "forward"]
    /\ UNCHANGED <<deployment, seen, channel, stores, server>>

(* Both senders close the socket and go on when send raises.               *)
Send(msg) ==
    \/ channel' = Append(channel, msg)
    \/ ~Reliable /\ channel' = channel

(* The number of tokens in front of the row: start_pos, and the response   *)
(* base position of _patched_sample.                                       *)
Before == Len(sampled) - Len(row)

(* The rejection sampler of rank r: _record_trigger_stop_events.  The code *)
(* counts the slots in front of the stop token; rows have no empty slot    *)
(* here, so their tokens are counted (RelaySampler has rows with holes).   *)
RejectionSample(r) ==
    /\ phase[r] = "forward"
    /\ phase' = [phase EXCEPT ![r] = "rejected"]
    /\ IF Last(row).kind = "stop"
       THEN Send([type |-> "OPS1", pos |-> Before + Len(row)])
       ELSE UNCHANGED channel
    /\ UNCHANGED <<deployment, sampled, row, seen, stores, server>>

MutChunk ==
    [type |-> "OPD",
     evs |-> [i \in DOMAIN row |->
                [pos |-> Before + i, token |-> [row[i] EXCEPT !.teacher = FALSE]]],
     acts |-> IF ExportAction /\ Before > 0 THEN Len(row) ELSE 0]

(* The datagram of a row: its labels, tokens and absolute positions, and   *)
(* actions only if the rejection sampler exported them for the row.        *)
Chunk ==
    [type |-> "OPD",
     evs |-> [i \in DOMAIN row |-> [pos |-> Before + i, token |-> row[i]]],
     acts |-> IF ExportAction /\ Before > 0 THEN Len(row) ELSE 0]

(* _patched_bookkeeping_sync of rank r.                                    *)
BookkeepingSync(r) ==
    /\ phase[r] = "rejected"
    /\ phase' = [phase EXCEPT ![r] = "idle"]
    /\ Send(Chunk)
    /\ UNCHANGED <<deployment, sampled, row, seen, stores, server>>

(* The engine publishes the driver's row; an ended request becomes the     *)
(* final output of generate().                                             *)
Publish ==
    /\ pc = "generate"
    /\ phase[Driver] = "idle"
    /\ seen < Len(Response(sampled))
    /\ seen' = Len(Response(sampled))
    /\ IF Ended(sampled)
       THEN pc' = "stop_poll" /\ raw' = Response(sampled)
       ELSE UNCHANGED <<pc, raw>>
    /\ UNCHANGED <<workers, channel, stores, tokens, triggered, mask>>

(* An abort ends generation with the tokens published so far; a request    *)
(* without outputs returns at once, empty.                                 *)
Abort ==
    /\ pc = "generate"
    /\ raw' = SubSeq(Response(sampled), 1, seen)
    /\ pc' = "stop_poll"
    /\ UNCHANGED <<workers, seen, channel, stores, tokens, triggered, mask>>

AbortNoOutputs ==
    /\ pc = "generate"
    /\ seen = 0
    /\ pc' = "returned"
    /\ UNCHANGED <<workers, seen, channel, stores, raw, tokens, triggered, mask>>

-----------------------------------------------------------------------------
(* OpdMaskIpcServer._loop: one datagram into the stores, under the lock.   *)
Receive ==
    /\ channel # <<>>
    /\ channel' = Tail(channel)
    /\ LET msg == Head(channel)
       IN  IF msg.type = "OPS1"
           THEN stops' = stops \cup {msg.pos} /\ UNCHANGED <<events, actions>>
           ELSE /\ events' = events \o msg.evs
                /\ actions' = actions + msg.acts
                /\ UNCHANGED stops
    /\ UNCHANGED <<workers, seen, server>>

-----------------------------------------------------------------------------
(* generate() after the engine has finished.                               *)

(* Nothing is on its way to the stores any more.                           *)
Quiet == channel = <<>> /\ \A r \in Ranks : phase[r] = "idle"
MutNoDeadline == FALSE
DeadlinePasses == Reliable => Quiet

MutKeepStop(toks, pos) == IF pos \in DOMAIN toks THEN SubSeq(toks, 1, pos) ELSE toks

(* The stop event at position pos truncates the response if the stop token *)
(* is really there; one right behind the response only marks it.           *)
Strip(toks, pos) ==
    IF pos \in DOMAIN toks /\ toks[pos].kind = "stop" THEN SubSeq(toks, 1, pos - 1)
    ELSE toks
Matches(toks, pos) ==
    \/ pos \in DOMAIN toks /\ toks[pos].kind = "stop"
    \/ pos = Len(toks) + 1

(* pop_stop_event: the earliest event, or none when the deadline passes.   *)
PopStopEvent ==
    /\ pc = "stop_poll"
    /\ stops # {} \/ DeadlinePasses
    /\ tokens' = IF stops = {} THEN raw ELSE Strip(raw, Min(stops))
    /\ triggered' = (stops # {} /\ Matches(raw, Min(stops)))
    /\ stops' = {}
    /\ pc' = "mask_poll"
    /\ UNCHANGED <<workers, seen, channel, events, actions, raw, mask>>

Covered == {events[i].pos : i \in DOMAIN events}

(* The events inside the final tokens; those behind them are ignored.      *)
Inside == {i \in DOMAIN events : events[i].pos <= Len(tokens)}

(* _align_mask_by_positions and _align_actions_by_positions raise unless   *)
(* tokens agree, every position is covered and actions, if any, are        *)
(* complete.                                                               *)
Alignable ==
    /\ \A i \in Inside : events[i].token.kind = tokens[events[i].pos].kind
    /\ DOMAIN tokens \subseteq Covered
    /\ actions \in {0, Len(events)}

Align ==
    [p \in DOMAIN tokens |->
        \E i \in Inside : events[i].pos = p /\ events[i].token.teacher]

MutEnough == Len(events) + 1 >= Len(tokens)

(* The condition that ends the wait of pop_with_actions.                   *)
Enough == Len(events) >= Len(tokens)

MutGetStores == UNCHANGED <<events, actions>>
PopStores == events' = <<>> /\ actions' = 0

(* pop_with_actions: pops the stores once there are enough events or at    *)
(* the deadline; generate() raises when there is nothing or what there is  *)
(* cannot be aligned.                                                      *)
PopMask ==
    /\ pc = "mask_poll"
    /\ (events # <<>> /\ Enough) \/ DeadlinePasses
    /\ IF events # <<>> /\ Alignable
       THEN pc' = "returned" /\ mask' = Align
       ELSE pc' = "raised" /\ UNCHANGED mask
    /\ PopStores
    /\ UNCHANGED <<workers, seen, channel, stops, raw, tokens, triggered>>

-----------------------------------------------------------------------------
Init ==
    /\ deployment \in Deployments
    /\ sampled = <<>>
    /\ row = <<>>
    /\ phase = [r \in Ranks |-> "idle"]
    /\ seen = 0
    /\ channel = <<>>
    /\ events = <<>>
    /\ actions = 0
    /\ stops = {}
    /\ pc = "generate"
    /\ raw = <<>>
    /\ tokens = <<>>
    /\ triggered = FALSE
    /\ mask = <<>>

Work(r) == RejectionSample(r) \/ BookkeepingSync(r)

Next ==
    \/ StartRow
    \/ \E r \in Ranks : Work(r)
    \/ Publish
    \/ Abort
    \/ AbortNoOutputs
    \/ Receive
    \/ PopStopEvent
    \/ PopMask

(* Workers, the engine, the receive thread and the two polling loops, with *)
(* their deadlines, do not stop; nothing makes anybody abort.              *)
Fairness ==
    /\ WF_vars(StartRow)
    /\ \A r \in UNION {d.ranks : d \in Deployments} : WF_vars(r \in Ranks /\ Work(r))
    /\ WF_vars(Publish)
    /\ WF_vars(Receive)
    /\ WF_vars(PopStopEvent)
    /\ WF_vars(PopMask)

Spec == Init /\ [][Next]_vars /\ Fairness

-----------------------------------------------------------------------------

(* A mask that generate() returns labels every token of the response, and  *)
(* labels it right, whatever was lost, late or sent twice: doubts raise.   *)
MaskSound ==
    pc = "returned" =>
        /\ DOMAIN mask = DOMAIN tokens
        /\ \A i \in DOMAIN tokens : mask[i] = tokens[i].teacher

(* While nothing is lost or late, the response handed to training is the   *)
(* sampled one without the private stop token, and a response that the     *)
(* stop token ended is reported so ("emit one private stop token that      *)
(* rollout strips before loss").                                           *)
ResponseExact ==
    (Reliable /\ pc \in {"mask_poll", "returned"}) =>
        /\ \A i \in DOMAIN tokens : tokens[i].kind # "stop"
        /\ tokens # raw =>
            triggered /\ Last(raw).kind = "stop" /\ tokens = Front(raw)

(* While nothing is lost or late, generate() raises for no response that   *)
(* has tokens, aborted ones included: the count that ends the wait for     *)
(* the mask (len(positions) >= expected_len) means that it is complete.    *)
(* An abort before the first token may raise: nothing was labelled yet.    *)
NeverRaises == (Reliable /\ pc = "raised") => raw = <<>>

(* The stores of the server hold nothing of a request that has completed,  *)
(* once its last datagram has been received: they do not grow for ever.    *)
StoresDrained ==
    (Reliable /\ pc = "returned" /\ Quiet /\ Ended(raw)) => events = <<>> /\ stops = {}

(* Every call of generate() comes back, with a response or an exception,   *)
(* although datagrams may be lost: no wait is without a deadline.          *)
GenerateReturns == <>(pc \in {"returned", "raised"})
=============================================================================
