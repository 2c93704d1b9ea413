----------------------------- MODULE DraftProbs -----------------------------
(***************************************************************************)
(* Whose student distribution the divergence trigger looks at.             *)
(*                                                                         *)
(* _patched_propose keeps the student's draft distributions of a step as   *)
(* one flat tensor in the order of the batch; the sampler of the next step *)
(* pairs its i-th row with the i-th drafted token (draft_probs[:n]) in     *)
(* opd/patches/vllm/speculative_decode.py.  Between the two steps vLLM     *)
(* drops finished requests from the batch, moving the last one into the    *)
(* hole, appends new ones, and may cut the drafts of a request; drafted    *)
(* tokens themselves follow their request.                                 *)
(***************************************************************************)
EXTENDS Integers, Sequences, SequencesExt, FiniteSets

CONSTANTS
    Requests,   \* request ids, each used once
    K,          \* num_speculative_tokens
    MayLeave,   \* requests may finish in the middle of the batch
    MayTrim     \* the scheduler may cut the drafts of a request

ASSUME KAssumption == K \in Nat \ {0}
ASSUME FlagsAssumption == MayLeave \in BOOLEAN /\ MayTrim \in BOOLEAN

VARIABLES
    batch,    \* input_batch.req_ids
    drafts,   \* number of drafted tokens of every request (0: none)
    probs,    \* _verl_opd_draft_probs: the origin of each row, <<request, position>>
    paired,   \* history: pairs of drafted token and row the last sampler call used
    phase,    \* "schedule", "sample" or "propose"
    waiting   \* requests not yet admitted

draftsVars == <<batch, drafts, probs, paired, phase, waiting>>

(* The rows of a batch, one after the other, each with the drafts given.   *)
Flatten(order, n) ==
    FlattenSeq([i \in DOMAIN order |-> [j \in 1..n[order[i]] |-> <<order[i], j>>]])

-----------------------------------------------------------------------------
(* vLLM's scheduler and InputBatch.                                        *)

Admit(r) ==
    /\ phase = "schedule"
    /\ r \in waiting
    /\ batch' = Append(batch, r)
    /\ waiting' = waiting \ {r}
    /\ UNCHANGED <<drafts, probs, paired, phase>>

(* InputBatch.condense moves the last request into the hole.               *)
Condense(i) == SubSeq([batch EXCEPT ![i] = Last(batch)], 1, Len(batch) - 1)

Leave(i) ==
    /\ MayLeave
    /\ phase = "schedule"
    /\ batch' = Condense(i)
    /\ drafts' = [drafts EXCEPT ![batch[i]] = 0]
    /\ UNCHANGED <<probs, paired, phase, waiting>>

Trim(i) ==
    /\ MayTrim
    /\ phase = "schedule"
    /\ drafts[batch[i]] > 0
    /\ drafts' = [drafts EXCEPT ![batch[i]] = @ - 1]
    /\ UNCHANGED <<batch, probs, paired, phase, waiting>>

Execute ==
    /\ phase = "schedule"
    /\ batch # <<>>
    /\ phase' = "sample"
    /\ UNCHANGED <<batch, drafts, probs, paired, waiting>>

-----------------------------------------------------------------------------
(* _patched_sample: without drafts in the batch the trigger is not looked  *)
(* at, else token i is paired with row i of the kept distributions.        *)
Sample ==
    /\ phase = "sample"
    /\ LET toks == Flatten(batch, drafts)
       IN  paired' = [i \in DOMAIN toks |->
                        [token |-> toks[i],
                         row |-> IF i \in DOMAIN probs THEN probs[i] ELSE <<>>]]
    /\ phase' = "propose"
    /\ UNCHANGED <<batch, drafts, probs, waiting>>

MutMissLast(order) == Flatten(order, [r \in Requests |-> K - 1])

(* torch.stack(chunks, dim=1).reshape(-1, V): request-major rows.          *)
Stacked(order) == Flatten(order, [r \in Requests |-> K])

(* _patched_propose: K draft steps over the whole batch.                   *)
Propose ==
    /\ phase = "propose"
    /\ probs' = Stacked(batch)
    /\ drafts' = [r \in Requests |-> IF \E i \in DOMAIN batch : batch[i] = r THEN K ELSE 0]
    /\ phase' = "schedule"
    /\ UNCHANGED <<batch, paired, waiting>>

-----------------------------------------------------------------------------
DraftsInit ==
    /\ batch = <<>>
    /\ drafts = [r \in Requests |-> 0]
    /\ probs = <<>>
    /\ paired = <<>>
    /\ phase = "schedule"
    /\ waiting = Requests

DraftsNext ==
    \/ \E r \in Requests : Admit(r)
    \/ \E i \in DOMAIN batch : Leave(i) \/ Trim(i)
    \/ Execute
    \/ Sample
    \/ Propose

DraftsSpec == DraftsInit /\ [][DraftsNext]_draftsVars

-----------------------------------------------------------------------------
(* However requests come, go and are cut, there is a row for every drafted *)
(* token: draft_probs[:n] has n rows and the sampler does not fail on      *)
(* shapes.                                                                 *)
EveryTokenHasARow == \A i \in DOMAIN paired : paired[i].row # <<>>

(* The trigger compares the teacher's token with the student's own         *)
(* distribution for that very draft position ("handoff top-K").            *)
OwnRow == \A i \in DOMAIN paired : paired[i].row = paired[i].token
=============================================================================
