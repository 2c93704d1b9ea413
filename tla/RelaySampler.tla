---------------------------- MODULE RelaySampler ----------------------------
(***************************************************************************)
(* The Relay-OPD rejection sampler that replaces vLLM's rejection_sample   *)
(* (opd/patches/vllm/speculative_decode.py), seen from one request.  The   *)
(* student proposes up to MaxSpecLen draft tokens, the teacher scores them *)
(* and the sampler fills one output row of MaxSpecLen + 1 slots.           *)
(*                                                                         *)
(* In "relay" mode a divergence trigger hands the response to the teacher  *)
(* for a bounded takeover; after MaxTakeovers takeovers a private stop     *)
(* token ends the request.  In "trigger_stop" mode the first trigger ends  *)
(* the request.  The rows of a batch do not influence one another, and the *)
(* dictionaries of the sampler are keyed by request id, so one request is  *)
(* the whole system; an absent dictionary entry is 0, as in d.get(rid, 0). *)
(*                                                                         *)
(* Token identities are abstracted to what the sampler tells apart: "para" *)
(* is a token whose text contains a paragraph break, "eos" ends a request, *)
(* "text" is any other.  A row without draft tokens fills no slot and      *)
(* changes nothing: it is a stuttering step.                               *)
(***************************************************************************)
EXTENDS Integers, FiniteSets

CONSTANTS
    Modes,                 \* what VERL_OPD_ROLLOUT_MODE may be: "relay", "trigger_stop"
    MaxSpecLen,            \* num_speculative_tokens
    MaxTakeoverTokens,     \* RELAY_OPD_MAX_TAKEOVER_TOKENS
    ParagraphsPerTakeover, \* RELAY_OPD_PARAGRAPHS_PER_TAKEOVER (the L of the README)
    MaxTakeovers,          \* RELAY_OPD_MAX_TAKEOVERS (the M of the README)
    HasStopId,             \* an internal stop token id could be resolved
    TriggerKinds,          \* the kinds of token among the reflection tokens
    OutOfVocab,            \* {"invalid"} if the student's vocabulary is larger, else {}
    MaxTokens              \* max_tokens of the request

(* The environment checks at the top of _relay_opd_rejection_sample.       *)
ASSUME ModeAssumption == Modes \subseteq {"relay", "trigger_stop"}
ASSUME SpecLenAssumption == MaxSpecLen \in Nat \ {0}
ASSUME CapAssumption == MaxTakeoverTokens \in Nat \ {0}
ASSUME ParagraphsAssumption == ParagraphsPerTakeover \in Nat
ASSUME TakeoversAssumption ==
    MaxTakeovers \in Nat /\ ("relay" \in Modes => MaxTakeovers > 0)
ASSUME StopIdAssumption == HasStopId \in BOOLEAN
ASSUME KindsAssumption ==
    /\ TriggerKinds \subseteq {"text", "para"}
    /\ OutOfVocab \subseteq {"invalid"}
ASSUME MaxTokensAssumption == MaxTokens \in Nat \ {0}

VARIABLES
    mode,                 \* the mode of the run, which never changes
    tokensRemaining,      \* _TAKEOVER_TOKENS_REMAINING
    paragraphsRemaining,  \* _TAKEOVER_PARAGRAPHS_REMAINING
    completedTakeovers,   \* _COMPLETED_TAKEOVERS
    length,               \* tokens of the response so far
    finish,               \* "running", or what ended the request
    stopEvent,            \* response_pos of the OPS1 stop event, or NoEvent
    legs,                 \* history: triggers fired, i.e. teacher legs begun
    legTokens,            \* history: teacher-labelled tokens of the latest leg
    legParagraphs         \* history: paragraph breaks among them

sampler == <<tokensRemaining, paragraphsRemaining, completedTakeovers>>
engine == <<length, finish, stopEvent>>
history == <<legs, legTokens, legParagraphs>>
vars == <<mode, tokensRemaining, paragraphsRemaining, completedTakeovers,
          length, finish, stopEvent, legs, legTokens, legParagraphs>>

Kinds == {"text", "para", "eos"}
NoEvent == -1

(* A draft token with the teacher's verdict on its position: "pass", or    *)
(* the kind of a reflection token that is the teacher's argmax, differs    *)
(* from the draft and is outside the student's top-K.                      *)
Draft == [token: Kinds \cup OutOfVocab, teacher: {"pass"} \cup TriggerKinds]
DraftRows == UNION {[1..n -> Draft] : n \in 1..MaxSpecLen}

-----------------------------------------------------------------------------
(* Output rows: a slot holds a token and its teacher label.                *)

Slots == 1..(MaxSpecLen + 1)
Slot(kind, teacher) == [kind |-> kind, teacher |-> teacher]
Empty == Slot("none", FALSE)
Stop == Slot("stop", FALSE)

FirstOf(S) == CHOOSE i \in S : \A j \in S : i <= j

MutStopInPlace(i) == i

(* The slot for the internal stop token behind slot i, or i itself when    *)
(* the row has no slot left.                                               *)
StopSlot(i) == IF i + 1 \in Slots THEN i + 1 ELSE i

Emitted(out) == {i \in Slots : out[i].kind # "none"}

(* vLLM appends the emitted tokens of the row in order, and stops at an    *)
(* end-of-sequence or stop token and at max_tokens.                        *)
Ends(out) ==
    {i \in Emitted(out) :
        \/ out[i].kind \in {"eos", "stop"}
        \/ length + Cardinality({j \in Emitted(out) : j <= i}) >= MaxTokens}
Accepted(out) == {i \in Emitted(out) : \A j \in Ends(out) : i <= j}
Finish(out) ==
    IF Ends(out) = {} THEN "running"
    ELSE LET last == out[FirstOf(Ends(out))].kind
         IN  IF last \in {"eos", "stop"} THEN last ELSE "length"

Commit(out) ==
    /\ length' = length + Cardinality(Accepted(out))
    /\ finish' = Finish(out)

TeacherSlots(out) == {i \in Accepted(out) : out[i].teacher}
TeacherBreaks(out) == {i \in TeacherSlots(out) : out[i].kind = "para"}

MutNoBase(out) ==
    LET stops == {i \in Slots : out[i].kind = "stop"}
    IN  stopEvent' = IF stops = {} THEN stopEvent ELSE FirstOf(stops) - 1

(* _record_trigger_stop_events: the stop event carries the position of the *)
(* stop token in the row, added to the length of the response.             *)
RecordStop(out) ==
    LET stops == {i \in Slots : out[i].kind = "stop"}
    IN  stopEvent' = IF stops = {} THEN stopEvent
                     ELSE length + FirstOf(stops) - 1

-----------------------------------------------------------------------------
(* The student's leg.                                                      *)

ValidDraft(d) == {i \in DOMAIN d : d[i].token # "invalid"}
Triggers(d) == {i \in ValidDraft(d) : d[i].teacher # "pass"}

(* The valid drafts in front of slot e, as student tokens.                 *)
StudentPrefix(d, e) ==
    [i \in Slots |-> IF i \in ValidDraft(d) /\ i < e THEN Slot(d[i].token, FALSE)
                     ELSE Empty]

(* The row when the first trigger is at slot e: a relay emits the          *)
(* teacher's token there, trigger_stop keeps the divergent draft and puts  *)
(* the stop token behind it, or emits neither without a stop token id.     *)
TriggerRow(d, e) ==
    [StudentPrefix(d, e) EXCEPT ![e] = Slot(d[e].teacher, TRUE)]
StoppedRow(d, e) ==
    IF HasStopId
    THEN [StudentPrefix(d, e) EXCEPT ![e] = Slot(d[e].token, FALSE),
                                     ![StopSlot(e)] = Stop]
    ELSE StudentPrefix(d, e)

InTakeover == mode = "relay" /\ tokensRemaining > 0
StudentLeg == finish = "running" /\ length > 0 /\ ~InTakeover

(* vLLM samples the first token of a response without speculation; its     *)
(* mask bit is False (_patched_sample, _patched_bookkeeping_sync).         *)
FirstToken ==
    /\ finish = "running"
    /\ length = 0
    /\ \E k \in Kinds : Commit([i \in Slots |-> IF i = 1 THEN Slot(k, FALSE) ELSE Empty])
    /\ UNCHANGED <<mode, sampler, stopEvent, history>>

(* No trigger among the drafts: every valid draft is emitted.              *)
StudentRow ==
    /\ StudentLeg
    /\ \E d \in DraftRows :
        /\ Triggers(d) = {}
        /\ Commit(StudentPrefix(d, MaxSpecLen + 3))
    /\ UNCHANGED <<mode, sampler, stopEvent, history>>

BeginLeg(out) ==
    /\ legs' = legs + 1
    /\ legTokens' = Cardinality(TeacherSlots(out))
    /\ legParagraphs' = Cardinality(TeacherBreaks(out))

(* A trigger in relay mode: the takeover budget is set up, less one        *)
(* paragraph if the trigger token itself breaks the paragraph.             *)
BeginTakeover(breaks) ==
    LET left == ParagraphsPerTakeover - (IF breaks THEN 1 ELSE 0)
    IN  /\ tokensRemaining' = IF left <= 0 THEN 0 ELSE MaxTakeoverTokens
        /\ paragraphsRemaining' = IF left <= 0 THEN 0 ELSE left

TriggerTakeover ==
    /\ StudentLeg
    /\ mode = "relay"
    /\ ParagraphsPerTakeover > 0
    /\ \E d \in DraftRows :
        /\ Triggers(d) # {}
        /\ LET e == FirstOf(Triggers(d))
               out == TriggerRow(d, e)
           IN  /\ Commit(out)
               /\ BeginLeg(out)
               /\ BeginTakeover(d[e].teacher = "para")
    /\ UNCHANGED <<mode, completedTakeovers, stopEvent>>

(* How a finished takeover is counted: the count is forgotten when it      *)
(* reaches the maximum, and the stop token then ends the request.          *)
MutLateLast == completedTakeovers >= MaxTakeovers
LastTakeover == completedTakeovers + 1 >= MaxTakeovers
MutNoCount == completedTakeovers' = 0
CountTakeover ==
    completedTakeovers' = IF LastTakeover THEN 0 ELSE completedTakeovers + 1

(* ParagraphsPerTakeover = 0: a trigger is a completed takeover by itself. *)
TriggerOnly ==
    /\ StudentLeg
    /\ mode = "relay"
    /\ ParagraphsPerTakeover = 0
    /\ \E d \in DraftRows :
        /\ Triggers(d) # {}
        /\ LET e == FirstOf(Triggers(d))
               row == TriggerRow(d, e)
               out == IF LastTakeover /\ HasStopId
                      THEN [row EXCEPT ![StopSlot(e)] = Stop] ELSE row
           IN  /\ Commit(out)
               /\ RecordStop(out)
               /\ BeginLeg(out)
               /\ BeginTakeover(d[e].teacher = "para")
    /\ CountTakeover
    /\ UNCHANGED mode

TriggerStop ==
    /\ StudentLeg
    /\ mode = "trigger_stop"
    /\ \E d \in DraftRows :
        /\ Triggers(d) # {}
        /\ LET out == StoppedRow(d, FirstOf(Triggers(d)))
           IN  Commit(out) /\ RecordStop(out)
    /\ UNCHANGED <<mode, sampler, history>>

-----------------------------------------------------------------------------
(* The teacher's leg.  Standard rejection sampling of n drafts emits       *)
(* 1..n+1 tokens; the one beyond the drafts, the bonus, is dropped.        *)

StandardRows(n) == UNION {[1..m -> Kinds] : m \in 1..(n + 1)}
MutKeepBonus(toks, n) == toks
DropBonus(toks, n) == [i \in DOMAIN toks \ {n + 1} |-> toks[i]]

Breaks(toks, i) == Cardinality({j \in DOMAIN toks : j <= i /\ toks[j] = "para"})

MutCapOffByOne(toks) ==
    {i \in DOMAIN toks : \/ i > tokensRemaining
                         \/ paragraphsRemaining - Breaks(toks, i) <= 0}

MutCutShort(toks) ==
    {i \in DOMAIN toks : \/ i + 1 >= tokensRemaining
                         \/ paragraphsRemaining - Breaks(toks, i) <= 0}

(* Where the token cap or the paragraph budget of the takeover is used up. *)
Exhausted(toks) ==
    {i \in DOMAIN toks : \/ i >= tokensRemaining
                         \/ paragraphsRemaining - Breaks(toks, i) <= 0}

(* The tokens up to slot k, all labelled teacher.                          *)
TeacherRow(toks, k) ==
    [i \in Slots |-> IF i \in DOMAIN toks /\ i <= k THEN Slot(toks[i], TRUE)
                     ELSE Empty]

ExtendLeg(out) ==
    /\ legs' = legs
    /\ legTokens' = legTokens + Cardinality(TeacherSlots(out))
    /\ legParagraphs' = legParagraphs + Cardinality(TeacherBreaks(out))

TakeoverRow ==
    /\ finish = "running"
    /\ InTakeover
    /\ \E n \in 1..MaxSpecLen : \E std \in StandardRows(n) :
        LET toks == DropBonus(std, n)
            out == TeacherRow(toks, n)
        IN  /\ Exhausted(toks) = {}
            /\ Commit(out)
            /\ ExtendLeg(out)
            /\ tokensRemaining' = tokensRemaining - Cardinality(DOMAIN toks)
            /\ paragraphsRemaining' = paragraphsRemaining - Breaks(toks, n)
    /\ UNCHANGED <<mode, completedTakeovers, stopEvent>>

MutKeepParagraphs == tokensRemaining' = 0 /\ UNCHANGED paragraphsRemaining
ClearBudget == tokensRemaining' = 0 /\ paragraphsRemaining' = 0

(* The takeover ends inside the row: what follows is dropped, and the last *)
(* takeover of the response is followed by the stop token.                 *)
EndTakeover ==
    /\ finish = "running"
    /\ InTakeover
    /\ \E n \in 1..MaxSpecLen : \E std \in StandardRows(n) :
        LET toks == DropBonus(std, n)
            k == FirstOf(Exhausted(toks))
            row == TeacherRow(toks, k)
            out == IF LastTakeover /\ HasStopId
                   THEN [row EXCEPT ![StopSlot(k)] = Stop] ELSE row
        IN  /\ Exhausted(toks) # {}
            /\ Commit(out)
            /\ RecordStop(out)
            /\ ExtendLeg(out)
    /\ CountTakeover
    /\ ClearBudget
    /\ UNCHANGED mode

-----------------------------------------------------------------------------
Init ==
    /\ mode \in Modes
    /\ tokensRemaining = 0
    /\ paragraphsRemaining = 0
    /\ completedTakeovers = 0
    /\ length = 0
    /\ finish = "running"
    /\ stopEvent = NoEvent
    /\ legs = 0
    /\ legTokens = 0
    /\ legParagraphs = 0

Next ==
    \/ FirstToken
    \/ StudentRow
    \/ TriggerTakeover
    \/ TriggerOnly
    \/ TriggerStop
    \/ TakeoverRow
    \/ EndTakeover

Spec == Init /\ [][Next]_vars

-----------------------------------------------------------------------------
(* The sampler's budgets are in range, and both exist or neither does.     *)
TypeOK ==
    /\ mode \in Modes
    /\ tokensRemaining \in 0..MaxTakeoverTokens
    /\ paragraphsRemaining \in 0..ParagraphsPerTakeover
    /\ tokensRemaining > 0 <=> paragraphsRemaining > 0
    /\ completedTakeovers \in Nat
    /\ length \in Nat
    /\ finish \in {"running", "eos", "stop", "length"}
    /\ stopEvent \in Nat \cup {NoEvent}
    /\ legs \in Nat
    /\ legTokens \in Nat
    /\ legParagraphs \in Nat

(* However the teacher's tokens fall into speculative rows, no teacher leg *)
(* of the response is longer than the trigger token plus the token cap, or *)
(* crosses more than ParagraphsPerTakeover paragraph breaks (the           *)
(* truncation loop of _relay_opd_rejection_sample).                        *)
LegBounded ==
    ParagraphsPerTakeover > 0 =>
        /\ legTokens <= MaxTakeoverTokens + 1
        /\ legParagraphs <= ParagraphsPerTakeover

(* Every teacher leg is counted in _COMPLETED_TAKEOVERS when it ends.      *)
LegsCounted == HasStopId /\ ~("para" \in TriggerKinds /\ ParagraphsPerTakeover = 1)

(* A response never has more than MaxTakeovers teacher legs, although the  *)
(* sampler forgets its count when the last one ends.                       *)
TakeoverBudget == mode = "relay" => legs <= MaxTakeovers

(* The student only writes while a takeover is left: once the last one has *)
(* ended the request is over, it is never handed back to the student.      *)
HandBackWithinBudget ==
    (mode = "relay" /\ LegsCounted /\ finish = "running" /\ ~InTakeover) =>
        legs < MaxTakeovers

(* The stop event sent to the rollout server points at the stop token of   *)
(* the response, so that exactly this token is stripped; when the response *)
(* ended earlier the event points behind it and strips nothing.            *)
StopEventExact ==
    /\ finish = "stop" => stopEvent = length - 1
    /\ stopEvent # NoEvent /\ finish # "stop" => stopEvent >= length

(* The stop token takes a slot of its own: the last leg keeps the token    *)
(* that used up its budget ("sacrificing the final emitted takeover        *)
(* token" is never needed).                                                *)
StopAfterFullLeg ==
    (mode = "relay" /\ ParagraphsPerTakeover > 0 /\ finish = "stop") =>
        \/ legTokens = MaxTakeoverTokens + 1
        \/ legParagraphs = ParagraphsPerTakeover

(* trigger_stop keeps the divergent student token: the step that stops the *)
(* request adds it as well as the stop token.                              *)
StopKeepsDivergentToken ==
    [][mode = "trigger_stop" /\ finish' = "stop" => length' >= length + 2]_vars

(* Seen from outside, teacher and student write in turns: RelayResponse.   *)
Writer ==
    CASE finish = "stop" -> "stopped"
      [] finish \in {"eos", "length"} -> "ended"
      [] finish = "running" -> IF InTakeover THEN "teacher" ELSE "student"

Turns == INSTANCE RelayResponse WITH
    TurnTokens <- MaxTakeoverTokens + 1,
    TurnParagraphs <- ParagraphsPerTakeover,
    writer <- Writer,
    turns <- legs,
    tokens <- legTokens,
    paragraphs <- legParagraphs

(* However its rows are filled and cut, the sampler writes the response    *)
(* that RelayResponse promises: the teacher keeps the pen exactly until    *)
(* the cap or the paragraphs of the takeover are used up, the student gets *)
(* it back only while takeovers are left, and the stop token follows the   *)
(* last of them and no other.                                              *)
WritesInTurns == Turns!Spec
=============================================================================
