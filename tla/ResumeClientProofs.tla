------------------------- MODULE ResumeClientProofs -------------------------
(***************************************************************************)
(* Proofs about ResumeClient for any replicas, limits, lengths and number  *)
(* of weight updates: the limit holds over all the calls of the client,    *)
(* the versions it reports are those of its tokens, weights are replaced   *)
(* under no running call, and the calls together implement Generation.     *)
(***************************************************************************)
EXTENDS ResumeClient, SequenceTheorems, TLAPS

Tokens == [after: Nat, version: 0..MaxVersion, eos: BOOLEAN]

Calls ==
    {NoCall}
    \cup [status: {"sent"}, server: Servers, given: Nat]
    \cup [status: {"running"}, server: Servers, given: Nat, maxTokens: Nat]
    \cup [status: {"replied"}, reason: {"completed", "aborted"}, steps: 0..MaxVersion]

Types ==
    /\ client \in {"ready", "calling", "returned", "raised"}
    /\ original \in Limits /\ limit \in Nat
    /\ final \in Seq(Tokens) /\ part \in Seq(Tokens)
    /\ minSteps \in -1..MaxVersion /\ maxSteps \in -1..MaxVersion
    /\ call \in Calls
    /\ weights \in [Servers -> 0..MaxVersion]
    /\ globalSteps \in [Servers -> 0..MaxVersion]
    /\ paused \in [Servers -> BOOLEAN]
    /\ manager \in {"idle", "abort", "update", "resume"}
    /\ version \in 0..MaxVersion

(* The version of the weights that replicas generate with.                 *)
Current == IF manager \in {"abort", "update"} THEN version - 1 ELSE version

(* All replicas have the same weights and report them, except while they   *)
(* are paused for the update.                                              *)
EngineInv ==
    /\ Current \in Nat
    /\ manager # "update" =>
        \A s \in Servers : weights[s] = Current /\ globalSteps[s] = Current
    /\ manager = "update" =>
        \A s \in Servers :
            /\ paused[s]
            /\ globalSteps[s] = version => weights[s] = version

(* The tokens of the call under way are of one version and within its      *)
(* limit; no token stands behind an end of sequence.                       *)
RunningInv ==
    call.status = "running" =>
        /\ ~paused[call.server]
        /\ call.maxTokens = MaxTokens(Len(final))
        /\ Len(part) < call.maxTokens
        /\ \A i \in 1..Len(part) : part[i].version = Current /\ ~part[i].eos

RepliedInv ==
    call.status = "replied" =>
        /\ maxSteps <= call.steps /\ call.steps <= Current
        /\ \A i \in 1..Len(part) : part[i].version = call.steps
        /\ Len(part) <= MaxTokens(Len(final))
        /\ call.reason = "completed" =>
            part # <<>> /\ (part[Len(part)].eos \/ Len(part) = MaxTokens(Len(final)))
        /\ call.reason = "aborted" =>
            /\ Len(part) < MaxTokens(Len(final))
            /\ \A i \in 1..Len(part) : ~part[i].eos

CallInv ==
    /\ client = "calling" <=> call.status # "none"
    /\ call.status \in {"none", "sent"} => part = <<>>
    /\ call.status \in {"sent", "running"} => call.given = Len(final)
    /\ RunningInv
    /\ RepliedInv

(* A client that goes on has room for another token, and the merged output *)
(* is one that may be continued.                                           *)
GoesOn ==
    /\ original # NoLimit => Len(final) < original
    /\ Prompt + Len(final) < MaxModelLen
    /\ final # <<>> => ~final[Len(final)].eos
    /\ ~PartialRollout => final = <<>>

ClientInv ==
    /\ client # "raised"
    /\ limit = IF original # NoLimit THEN original - Len(final) ELSE NoLimit
    /\ client \in {"ready", "calling"} => GoesOn

VersionInv ==
    /\ minSteps <= maxSteps /\ maxSteps <= Current
    /\ minSteps = -1 => maxSteps = -1
    /\ \A i \in 1..Len(final) : minSteps <= final[i].version /\ final[i].version <= maxSteps
    /\ (client = "returned" /\ final # <<>>) => final[Len(final)].version = maxSteps

IInv == Types /\ EngineInv /\ CallInv /\ ClientInv /\ VersionInv
-----------------------------------------------------------------------------
(* What the server makes of the limit: at least one token, no more than    *)
(* the caller's limit leaves or the context has room for, and enough to    *)
(* complete the response.                                                  *)
LEMMA CallLimit ==
    ASSUME Types, ClientInv, GoesOn
    PROVE  /\ MaxTokens(Len(final)) \in Nat \ {0}
           /\ Prompt + Len(final) + MaxTokens(Len(final)) <= MaxModelLen
           /\ original # NoLimit => MaxTokens(Len(final)) = original - Len(final)
           /\ original = NoLimit => Len(final) + MaxTokens(Len(final)) >= ResponseLength
<1>1. Len(final) \in Nat /\ original \in Nat /\ Prompt \in Nat /\ PromptLength \in Nat
      /\ ResponseLength \in Nat \ {0} /\ MaxModelLen \in Nat
  BY LengthsAssumption, LenProperties DEF Types
<1>2. Prompt <= PromptLength /\ Prompt + original <= MaxModelLen
      /\ Prompt + ResponseLength <= MaxModelLen
  BY LengthsAssumption DEF Types
<1> DEFINE g == Len(final)
           room == MaxModelLen - (Prompt + g)
           most == Smaller(ResponseLength, PromptLength + ResponseLength - (Prompt + g))
           wanted == IF limit # NoLimit THEN limit ELSE most
<1>3. MaxTokens(g) = Larger(1, Smaller(wanted, room))
  BY DEF MaxTokens
<1>4. g \in Nat /\ room \in Nat \ {0} /\ room = MaxModelLen - (Prompt + g)
  BY <1>1 DEF GoesOn
<1> HIDE DEF room, g
<1>5. CASE original # NoLimit
  <2>1. limit = original - g /\ original - g >= 1
    BY <1>1, <1>5 DEF ClientInv, GoesOn, g
  <2>2. wanted = original - g
    BY <2>1, <1>1, <1>4 DEF NoLimit
  <2>3. MaxTokens(g) = original - g
    BY <2>1, <2>2, <1>1, <1>2, <1>3, <1>4 DEF Smaller, Larger
  <2> QED
    BY <2>1, <2>3, <1>1, <1>2, <1>4, <1>5 DEF g
<1>6. CASE original = NoLimit
  <2>1. wanted = most
    BY <1>6 DEF ClientInv
  <2>2. most \in Int /\ (most >= ResponseLength \/ g + most >= ResponseLength)
    BY <1>1, <1>2, <1>4 DEF Smaller
  <2> HIDE DEF most, wanted
  <2>3. MaxTokens(g) \in Nat \ {0} /\ MaxTokens(g) <= room
        /\ (MaxTokens(g) >= most \/ MaxTokens(g) = room)
    BY <2>1, <2>2, <1>3, <1>4 DEF Smaller, Larger
  <2> QED
    BY <2>2, <2>3, <1>1, <1>2, <1>4, <1>6 DEF g
<1> QED
  BY <1>5, <1>6

(* A call that is under way has the fields of its status.                  *)
LEMMA CallFields ==
    ASSUME Types
    PROVE  /\ call.status \in {"none", "sent", "running", "replied"}
           /\ call.status = "none" => call = NoCall
           /\ call.status = "sent" => call.server \in Servers /\ call.given \in Nat
           /\ call.status = "running" =>
                call.server \in Servers /\ call.given \in Nat /\ call.maxTokens \in Nat
           /\ call.status = "replied" =>
                call.reason \in {"completed", "aborted"} /\ call.steps \in 0..MaxVersion
BY DEF Types, Calls, NoCall

(* At first no call has been made.                                         *)
LEMMA InitInv == Init => IInv
<1> SUFFICES ASSUME Init PROVE IInv
  OBVIOUS
<1>1. Types
  BY LengthsAssumption DEF Init, Types, Calls, NoCall
<1>2. EngineInv
  BY DEF Init, EngineInv, Current
<1>3. CallInv
  BY DEF Init, CallInv, RunningInv, RepliedInv, NoCall
<1>4. ClientInv
  <2>1. original \in Nat /\ (original # NoLimit => original > 0) /\ Prompt < MaxModelLen
    BY LengthsAssumption DEF Init, NoLimit
  <2> QED
    BY <2>1, LengthsAssumption DEF Init, ClientInv, GoesOn, NoLimit
<1>5. VersionInv
  BY DEF Init, VersionInv, Current
<1> QED
  BY <1>1, <1>2, <1>3, <1>4, <1>5 DEF IInv
(* The limit of a call depends on the sampling parameters and on the       *)
(* merged output alone.                                                    *)
LEMMA LimitFrame ==
    ASSUME UNCHANGED <<limit, final>>
    PROVE  MaxTokens(Len(final))' = MaxTokens(Len(final))
BY DEF MaxTokens

(* A replica that is not paused generates with the current weights and     *)
(* reports their version.                                                  *)
LEMMA RunningReplica ==
    ASSUME Types, EngineInv, NEW s \in Servers, ~paused[s]
    PROVE  weights[s] = Current /\ globalSteps[s] = Current /\ Current \in 0..MaxVersion
BY DEF Types, EngineInv

-----------------------------------------------------------------------------
(* The steps of the client and its calls.                                  *)

(* A call asks for what is left of the limit.                              *)
LEMMA CallStep == IInv /\ Call => IInv'
<1> SUFFICES ASSUME IInv, Call PROVE IInv'
  OBVIOUS
<1> USE DEF IInv, Call, engine, sync, loop
<1>1. PICK s \in Servers : call' = [status |-> "sent", server |-> s, given |-> Given]
  OBVIOUS
<1>2. Len(final) \in Nat /\ Given = Len(final)
  BY LenProperties DEF Types, Given
<1>3. Types'
  BY <1>1, <1>2 DEF Types, Calls
<1>4. EngineInv' /\ VersionInv'
  BY DEF EngineInv, VersionInv, Current
<1>5. CallInv'
  BY <1>1, <1>2, CallFields DEF CallInv, RunningInv, RepliedInv
<1>6. ClientInv'
  BY DEF ClientInv, GoesOn
<1> QED
  BY <1>3, <1>4, <1>5, <1>6

(* A call is admitted by a replica that is not paused.                     *)
LEMMA AdmitStep == IInv /\ Admit => IInv'
<1> SUFFICES ASSUME IInv, Admit PROVE IInv'
  OBVIOUS
<1> USE DEF IInv, Admit, engine, sync, loop
<1>1. /\ call.server \in Servers /\ call.given = Len(final) /\ Len(final) \in Nat
      /\ client = "calling" /\ GoesOn /\ part = <<>>
  BY CallFields, LenProperties DEF CallInv, ClientInv, Types
<1>2. ~(MaxModelLen - (Prompt + call.given) < 1)
  BY <1>1, LengthsAssumption DEF GoesOn
<1>3. /\ ~paused[call.server]
      /\ call' = [status |-> "running", server |-> call.server, given |-> call.given,
                  maxTokens |-> MaxTokens(call.given)]
      /\ UNCHANGED client
  BY <1>2
<1>4. MaxTokens(Len(final)) \in Nat \ {0}
  BY <1>1, CallLimit
<1>5. Types'
  BY <1>1, <1>3, <1>4 DEF Types, Calls
<1>6. EngineInv' /\ VersionInv' /\ ClientInv'
  BY <1>3 DEF EngineInv, VersionInv, ClientInv, Current, GoesOn
<1>7. RunningInv'
  <2>1. MaxTokens(Len(final))' = MaxTokens(Len(final))
    BY LimitFrame
  <2> QED
    BY <2>1, <1>1, <1>3, <1>4 DEF RunningInv
<1>8. CallInv'
  BY <1>1, <1>3, <1>7 DEF CallInv, RepliedInv
<1> QED
  BY <1>5, <1>6, <1>8

(* A token is of the version of the replica, and counts against the limit. *)
LEMMA GenerateStep == ASSUME IInv, NEW eos \in BOOLEAN, GenerateToken(eos) PROVE IInv'
<1> USE DEF IInv, request, engine, sync, loop
<1> DEFINE tok == [after |-> call.given + Len(part), version |-> weights[call.server],
                   eos |-> eos]
           last == eos \/ Len(part') = call.maxTokens
<1>1. /\ call.status = "running" /\ call.server \in Servers /\ call.maxTokens \in Nat
      /\ call.given = Len(final) /\ Len(final) \in Nat /\ Len(part) \in Nat
      /\ client = "calling" /\ ~paused[call.server]
  BY CallFields, LenProperties DEF GenerateToken, CallInv, RunningInv, Types
<1>2. /\ weights[call.server] = Current /\ globalSteps[call.server] = Current
      /\ Current \in 0..MaxVersion
  BY <1>1, RunningReplica
<1>3. tok \in Tokens
  BY <1>1, <1>2 DEF Tokens
<1>4. part' = Append(part, tok) /\ call' = (IF last THEN Replied("completed") ELSE call)
  BY DEF GenerateToken
<1> HIDE DEF tok
<1>5. /\ part' \in Seq(Tokens) /\ Len(part') = Len(part) + 1 /\ part' # <<>>
      /\ \A i \in 1..Len(part) : part'[i] = part[i]
      /\ part'[Len(part')] = tok
  BY <1>1, <1>3, <1>4, AppendProperties DEF Types
<1>6. tok.version = Current /\ tok.eos = eos
  BY <1>2 DEF tok
<1>7. \A i \in 1..Len(part') : part'[i].version = Current
  BY <1>1, <1>5, <1>6 DEF CallInv, RunningInv
<1>8. UNCHANGED <<request, engine, sync, loop>>
  BY DEF GenerateToken
<1>9. Types'
  <2>1. Replied("completed") \in Calls
    BY <1>2 DEF Calls, Replied
  <2> QED
    BY <2>1, <1>4, <1>5, <1>8 DEF Types
<1>10. EngineInv' /\ VersionInv' /\ ClientInv' /\ Current' = Current
  BY <1>8 DEF EngineInv, VersionInv, ClientInv, Current, GoesOn
<1>11. MaxTokens(Len(final))' = MaxTokens(Len(final)) /\ call.maxTokens = MaxTokens(Len(final))
  BY <1>1, <1>8, LimitFrame DEF CallInv, RunningInv
<1>12. Len(part') <= MaxTokens(Len(final))
  BY <1>1, <1>5, <1>11 DEF CallInv, RunningInv
<1>13. CASE last
  <2>1. call' = [status |-> "replied", reason |-> "completed", steps |-> Current]
    BY <1>2, <1>4, <1>13 DEF Replied
  <2>2. RepliedInv'
    BY <2>1, <1>2, <1>5, <1>6, <1>7, <1>8, <1>10, <1>11, <1>12, <1>13 DEF RepliedInv, VersionInv
  <2> QED
    BY <2>1, <2>2, <1>1, <1>8, <1>9, <1>10 DEF CallInv, RunningInv
<1>14. CASE ~last
  <2>1. call' = call
    BY <1>4, <1>14
  <2>2. Len(part') < call.maxTokens
    BY <1>1, <1>5, <1>12, <1>11, <1>14
  <2>3. \A i \in 1..Len(part') : ~part'[i].eos
    BY <1>1, <1>5, <1>6, <1>14 DEF CallInv, RunningInv
  <2>4. RunningInv'
    BY <2>1, <2>2, <2>3, <1>1, <1>7, <1>8, <1>10, <1>11 DEF RunningInv
  <2> QED
    BY <2>1, <2>4, <1>1, <1>8, <1>9, <1>10 DEF CallInv, RepliedInv
<1> QED
  BY <1>13, <1>14
(* What the client has when it merges a reply.  An aborted part leaves     *)
(* room for another call; a completed one completes the response.          *)
LEMMA Merged ==
    ASSUME IInv, call.status = "replied"
    PROVE  LET all == final \o part
           IN  /\ all \in Seq(Tokens) /\ Len(all) = Len(final) + Len(part)
               /\ original # NoLimit => Len(all) <= original
               /\ call.reason = "completed" =>
                    /\ all # <<>> /\ all[Len(all)].version = call.steps
                    /\ Len(all) >= Wanted \/ all[Len(all)].eos
               /\ call.reason = "aborted" =>
                    /\ original # NoLimit => Len(all) < original
                    /\ Prompt + Len(all) < MaxModelLen
                    /\ all # <<>> => ~all[Len(all)].eos
<1> USE DEF IInv
<1> DEFINE all == final \o part
           m == MaxTokens(Len(final))
<1>1. /\ final \in Seq(Tokens) /\ part \in Seq(Tokens)
      /\ Len(final) \in Nat /\ Len(part) \in Nat /\ original \in Nat
      /\ {Prompt, MaxModelLen, ResponseLength} \subseteq Nat
  BY LenProperties, LengthsAssumption DEF Types
<1>2. /\ all \in Seq(Tokens) /\ Len(all) = Len(final) + Len(part)
      /\ \A i \in 1..Len(all) :
            all[i] = IF i <= Len(final) THEN final[i] ELSE part[i - Len(final)]
  BY <1>1, ConcatProperties
<1>3. GoesOn
  BY DEF CallInv, ClientInv
<1>4. /\ m \in Nat \ {0}
      /\ Prompt + Len(final) + m <= MaxModelLen
      /\ original # NoLimit => m = original - Len(final)
      /\ original = NoLimit => Len(final) + m >= ResponseLength
  BY <1>3, CallLimit
<1>5. Len(part) <= m
  BY DEF CallInv, RepliedInv
<1> HIDE DEF m, all
<1>6. original # NoLimit => Len(all) <= original
  BY <1>1, <1>2, <1>4, <1>5
<1>7. ASSUME part # <<>>
      PROVE  all # <<>> /\ all[Len(all)] = part[Len(part)] /\ Len(part) \in 1..Len(part)
  <2>1. Len(part) > 0
    BY <1>1, <1>7, EmptySeq
  <2>2. all # <<>>
    BY <2>1, <1>1, <1>2, EmptySeq
  <2>3. /\ Len(all) \in 1..Len(all) /\ ~(Len(all) <= Len(final))
        /\ Len(all) - Len(final) = Len(part) /\ Len(part) \in 1..Len(part)
    BY <2>1, <1>1, <1>2
  <2>4. all[Len(all)] = part[Len(all) - Len(final)]
    BY <2>3, <1>2
  <2> QED
    BY <2>2, <2>3, <2>4
<1>8. ASSUME call.reason = "completed"
      PROVE  /\ all # <<>> /\ all[Len(all)].version = call.steps
             /\ Len(all) >= Wanted \/ all[Len(all)].eos
  <2>1. /\ part # <<>> /\ (part[Len(part)].eos \/ Len(part) = m)
        /\ \A i \in 1..Len(part) : part[i].version = call.steps
    BY <1>8 DEF CallInv, RepliedInv, m
  <2>2. Len(part) = m => Len(all) >= Wanted
    BY <1>1, <1>2, <1>4 DEF Wanted
  <2> QED
    BY <2>1, <2>2, <1>7
<1>9. ASSUME call.reason = "aborted"
      PROVE  /\ original # NoLimit => Len(all) < original
             /\ Prompt + Len(all) < MaxModelLen
             /\ all # <<>> => ~all[Len(all)].eos
  <2>1. Len(part) < m /\ \A i \in 1..Len(part) : ~part[i].eos
    BY <1>9 DEF CallInv, RepliedInv, m
  <2>2. (original # NoLimit => Len(all) < original) /\ Prompt + Len(all) < MaxModelLen
    BY <2>1, <1>1, <1>2, <1>4
  <2>3. CASE part = <<>>
    <3>1. all = final
      BY <2>3, <1>1, ConcatEmptySeq DEF all
    <3> QED
      BY <3>1, <2>2, <1>3 DEF GoesOn
  <2>4. CASE part # <<>>
    BY <2>1, <2>2, <2>4, <1>7
  <2> QED
    BY <2>3, <2>4
<1>10. call.reason \in {"completed", "aborted"}
  BY CallFields
<1> QED
  BY <1>2, <1>6, <1>8, <1>9 DEF all

(* The parts are appended, and the versions widened to the reply's.        *)
LEMMA MergeStep == IInv /\ MergeReply => IInv'
<1> SUFFICES ASSUME IInv, MergeReply PROVE IInv'
  OBVIOUS
<1> USE DEF IInv
<1> DEFINE all == final \o part
           atLimit == original # NoLimit /\ Len(all) >= original
<1>1. /\ call.status = "replied" /\ call.reason \in {"completed", "aborted"}
      /\ call.steps \in 0..MaxVersion /\ GoesOn
  BY CallFields DEF MergeReply, CallInv, ClientInv
<1>2. /\ final' = all
      /\ limit' = (IF original # NoLimit THEN Remaining(all) ELSE limit)
      /\ client' = (IF ~atLimit /\ CallAgain THEN "ready" ELSE "returned")
      /\ minSteps' = FirstSteps(call.steps) /\ maxSteps' = call.steps
      /\ part' = <<>> /\ call' = NoCall
      /\ UNCHANGED <<original, engine, sync, loop>>
  BY DEF MergeReply
<1>3. /\ all \in Seq(Tokens) /\ Len(all) = Len(final) + Len(part)
      /\ Len(all) \in Nat /\ original \in Nat
      /\ original # NoLimit => Len(all) <= original
  BY <1>1, Merged, LenProperties, LengthsAssumption DEF Types
<1>4. call.reason = "completed" => all # <<>> /\ all[Len(all)].version = call.steps
  BY <1>1, Merged
<1>5. call.reason = "aborted" =>
        /\ original # NoLimit => Len(all) < original
        /\ Prompt + Len(all) < MaxModelLen
        /\ all # <<>> => ~all[Len(all)].eos
  BY <1>1, Merged
<1>6. \A i \in 1..Len(all) : all[i] = IF i <= Len(final) THEN final[i] ELSE part[i - Len(final)]
  BY ConcatProperties DEF Types
<1>7. Len(final) \in Nat /\ Len(part) \in Nat
  BY LenProperties DEF Types
<1> HIDE DEF all
<1>8. Types'
  BY <1>1, <1>2, <1>3, EmptySeq DEF Types, Calls, Remaining, FirstSteps, engine, sync
<1>9. EngineInv' /\ Current' = Current
  BY <1>2 DEF EngineInv, Current, engine, sync
<1>10. CallInv'
  BY <1>2 DEF CallInv, RunningInv, RepliedInv, NoCall
<1>11. ClientInv'
  BY <1>1, <1>2, <1>3, <1>5 DEF ClientInv, GoesOn, Remaining, CallAgain
<1>12. \A i \in 1..Len(all) : minSteps' <= all[i].version /\ all[i].version <= maxSteps'
  <2>1. SUFFICES ASSUME NEW i \in 1..Len(all)
                 PROVE  minSteps' <= all[i].version /\ all[i].version <= maxSteps'
    OBVIOUS
  <2>2. /\ maxSteps <= call.steps /\ \A j \in 1..Len(part) : part[j].version = call.steps
        /\ minSteps \in Int /\ maxSteps \in Int /\ minSteps <= maxSteps
        /\ minSteps = -1 => maxSteps = -1
    BY <1>1 DEF CallInv, RepliedInv, VersionInv, Types
  <2>3. CASE i <= Len(final)
    <3>1. all[i] = final[i] /\ final[i].version \in 0..MaxVersion
      <4>1. i \in 1..Len(final)
        BY <2>3, <1>3, <1>7
      <4>2. final[i] \in Tokens
        BY <4>1, ElementOfSeq DEF Types
      <4> QED
        BY <4>2, <2>3, <1>6 DEF Tokens
    <3>2. minSteps <= final[i].version /\ final[i].version <= maxSteps
      BY <2>3, <1>7 DEF VersionInv
    <3> QED
      BY <3>1, <3>2, <2>2, <1>1, <1>2 DEF FirstSteps
  <2>4. CASE i > Len(final)
    <3>1. all[i] = part[i - Len(final)] /\ i - Len(final) \in 1..Len(part)
      BY <2>4, <1>3, <1>6, <1>7
    <3> QED
      BY <3>1, <2>2, <1>1, <1>2 DEF FirstSteps
  <2> QED
    BY <2>3, <2>4, <1>7
<1>13. (client' = "returned" /\ all # <<>>) => all[Len(all)].version = call.steps
  <2> SUFFICES ASSUME call.reason = "aborted", client' = "returned", all # <<>>
               PROVE  all[Len(all)].version = call.steps
    BY <1>1, <1>4
  <2>1. ~PartialRollout /\ final = <<>>
    BY <1>1, <1>2, <1>3, <1>5 DEF CallAgain, GoesOn
  <2>2. all = part /\ Len(all) \in 1..Len(part)
    BY <2>1, <1>3, <1>7, ConcatEmptySeq, EmptySeq DEF all, Types
  <2> QED
    BY <2>2, <1>1 DEF CallInv, RepliedInv
<1>14. VersionInv'
  <2>1. minSteps' <= maxSteps' /\ maxSteps' <= Current' /\ (minSteps' = -1 => maxSteps' = -1)
    BY <1>1, <1>2, <1>9 DEF FirstSteps, CallInv, RepliedInv, VersionInv, Types
  <2> QED
    BY <2>1, <1>2, <1>12, <1>13 DEF VersionInv
<1> QED
  BY <1>8, <1>9, <1>10, <1>11, <1>14

(* The agent loop cuts what the client has returned.                       *)
LEMMA AgentStep == IInv /\ RunAgentLoop => IInv'
<1> SUFFICES ASSUME IInv, RunAgentLoop PROVE IInv'
  OBVIOUS
<1>1. UNCHANGED <<request, call, part, engine, sync>>
  BY DEF RunAgentLoop
<1> QED
  BY <1>1, LimitFrame DEF IInv, Types, EngineInv, CallInv, RunningInv, RepliedInv, ClientInv,
     GoesOn, VersionInv, Current, request, engine, sync
-----------------------------------------------------------------------------
(* The steps of update_weights.  None touches the merged output; the       *)
(* current version never gets smaller, and stays as it is while a call     *)
(* runs on a replica that is not paused.                                   *)

(* A step of the update leaves the client alone: it does no harm when no   *)
(* call runs on a replica that it changes.                                 *)
LEMMA UpdateFrame ==
    ASSUME IInv, UNCHANGED <<request, call, part, loop>>,
           (Types /\ EngineInv)', Current <= Current',
           call.status = "running" => ~paused'[call.server] /\ Current' = Current
    PROVE  IInv'
<1> USE DEF IInv, request
<1>1. MaxTokens(Len(final))' = MaxTokens(Len(final))
  BY LimitFrame
<1>2. ClientInv'
  BY DEF ClientInv, GoesOn
<1>3. Current \in Int /\ Current' \in Int /\ maxSteps \in Int
      /\ (call.status = "replied" => call.steps \in Int)
  BY CallFields DEF Types, EngineInv
<1>4. VersionInv'
  BY <1>3 DEF VersionInv
<1>5. RunningInv'
  BY <1>1 DEF CallInv, RunningInv
<1>6. RepliedInv'
  BY <1>1, <1>3 DEF CallInv, RepliedInv
<1>7. CallInv'
  BY <1>5, <1>6 DEF CallInv
<1> QED
  BY <1>2, <1>4, <1>7

(* A new version begins while all replicas have the old one.               *)
LEMMA BeginUpdateStep == IInv /\ BeginUpdate => IInv'
<1> SUFFICES ASSUME IInv, BeginUpdate PROVE IInv'
  OBVIOUS
<1>1. Types' /\ Current' = Current
  BY LengthsAssumption DEF BeginUpdate, IInv, Types, Current, request, engine
<1>2. EngineInv'
  BY <1>1 DEF BeginUpdate, IInv, Types, EngineInv, Current, engine
<1>3. UNCHANGED <<request, call, part, loop, paused>>
  BY DEF BeginUpdate, engine
<1>4. call.status = "running" => ~paused'[call.server]
  BY <1>3 DEF IInv, CallInv, RunningInv
<1>5. Current <= Current'
  BY <1>1 DEF IInv, EngineInv
<1> QED
  BY <1>1, <1>2, <1>3, <1>4, <1>5, UpdateFrame

(* All replicas are paused when the weights are sent.                      *)
LEMMA DrainedStep == IInv /\ Drained => IInv'
<1> SUFFICES ASSUME IInv, Drained PROVE IInv'
  OBVIOUS
<1>1. Types' /\ Current' = Current
  BY DEF Drained, IInv, Types, Current, request, engine
<1>2. EngineInv'
  BY <1>1 DEF Drained, AllAborted, IInv, Types, EngineInv, Current, engine
<1>3. UNCHANGED <<request, call, part, loop, paused>>
  BY DEF Drained, engine
<1>4. call.status = "running" => ~paused'[call.server]
  BY <1>3 DEF IInv, CallInv, RunningInv
<1>5. Current <= Current'
  BY <1>1 DEF IInv, EngineInv
<1> QED
  BY <1>1, <1>2, <1>3, <1>4, <1>5, UpdateFrame

(* While weights are replaced nothing runs.                                *)
LEMMA NothingRuns ==
    ASSUME IInv, manager = "update"
    PROVE  call.status # "running" /\ \A s \in Servers : paused[s]
BY CallFields DEF IInv, EngineInv, CallInv, RunningInv

(* All replicas have the new weights when the update ends.                 *)
LEMMA FinalizeStep == IInv /\ Finalize => IInv'
<1> SUFFICES ASSUME IInv, Finalize PROVE IInv'
  OBVIOUS
<1>1. Types' /\ Current <= Current'
  BY DEF Finalize, IInv, Types, Current, request, engine
<1>2. EngineInv'
  BY <1>1 DEF Finalize, IInv, Types, EngineInv, Current, engine
<1>3. UNCHANGED <<request, call, part, loop>> /\ call.status # "running"
  BY NothingRuns DEF Finalize
<1> QED
  BY <1>1, <1>2, <1>3, UpdateFrame

(* A paused replica gets the new weights.                                  *)
LEMMA LoadStep == ASSUME IInv, NEW s \in Servers, LoadWeights(s) PROVE IInv'
<1>1. Types' /\ Current <= Current'
  BY DEF LoadWeights, IInv, Types, Current, request, sync
<1>2. EngineInv'
  BY DEF LoadWeights, IInv, Types, EngineInv, Current, sync
<1>3. UNCHANGED <<request, call, part, loop>> /\ call.status # "running"
  BY NothingRuns DEF LoadWeights
<1> QED
  BY <1>1, <1>2, <1>3, UpdateFrame

(* A replica reports the version whose weights it has.                     *)
LEMMA SetStepsStep == ASSUME IInv, NEW s \in Servers, SetGlobalSteps(s) PROVE IInv'
<1>1. Types' /\ Current <= Current'
  BY DEF SetGlobalSteps, IInv, Types, Current, request, sync
<1>2. EngineInv'
  BY DEF SetGlobalSteps, IInv, Types, EngineInv, Current, sync
<1>3. UNCHANGED <<request, call, part, loop>> /\ call.status # "running"
  BY NothingRuns DEF SetGlobalSteps
<1> QED
  BY <1>1, <1>2, <1>3, UpdateFrame

(* A replica resumes with the new weights.                                 *)
LEMMA ResumeStep == ASSUME IInv, NEW s \in Servers, ResumeGeneration(s) PROVE IInv'
<1>1. Types' /\ Current' = Current
  BY DEF ResumeGeneration, IInv, Types, Current, request
<1>2. EngineInv'
  BY <1>1 DEF ResumeGeneration, IInv, Types, EngineInv, Current
<1>3. UNCHANGED <<request, call, part, loop>>
  BY DEF ResumeGeneration
<1>4. call.status = "running" => ~paused'[call.server]
  BY CallFields DEF IInv, Types, CallInv, RunningInv, ResumeGeneration
<1>5. Current <= Current'
  BY <1>1 DEF IInv, EngineInv
<1> QED
  BY <1>1, <1>2, <1>3, <1>4, <1>5, UpdateFrame

(* An abort pauses the replica, and the call on it replies with what it    *)
(* has.                                                                    *)
LEMMA AbortStep == ASSUME IInv, NEW s \in Servers, AbortRequests(s) PROVE IInv'
<1> USE DEF IInv
<1>1. /\ manager = "abort" /\ paused' = [paused EXCEPT ![s] = TRUE]
      /\ UNCHANGED <<request, part, weights, globalSteps, sync, loop>>
  BY DEF AbortRequests
<1>2. Current' = Current /\ Current \in 0..MaxVersion /\ globalSteps[s] = Current
  BY <1>1 DEF Types, EngineInv, Current, sync
<1>3. EngineInv'
  BY <1>1, <1>2 DEF EngineInv, sync
<1>4. ClientInv' /\ VersionInv'
  BY <1>1, <1>2 DEF ClientInv, GoesOn, VersionInv, request
<1>5. MaxTokens(Len(final))' = MaxTokens(Len(final))
  BY <1>1, LimitFrame DEF request
<1>6. CASE call.status = "running" /\ call.server = s
  <2>1. call' = [status |-> "replied", reason |-> "aborted", steps |-> Current]
    BY <1>2, <1>6 DEF AbortRequests, Replied
  <2>2. Types'
    BY <2>1, <1>1, <1>2 DEF Types, Calls, request, sync
  <2>3. RunningInv /\ call.maxTokens \in Nat /\ Len(part) \in Nat
        /\ maxSteps <= Current /\ UNCHANGED <<part, maxSteps>>
    BY <1>1, <1>6, CallFields, LenProperties DEF CallInv, VersionInv, Types, request
  <2>4. Len(part) < MaxTokens(Len(final)) /\ Len(part) <= MaxTokens(Len(final))
    BY <2>3, <1>6 DEF RunningInv
  <2>5. RepliedInv'
    BY <2>1, <2>3, <2>4, <1>2, <1>5, <1>6 DEF RepliedInv, RunningInv
  <2> QED
    BY <2>1, <2>2, <2>5, <1>1, <1>3, <1>4, <1>6 DEF CallInv, RunningInv, request
<1>7. CASE ~(call.status = "running" /\ call.server = s)
  <2>1. call' = call
    BY <1>7 DEF AbortRequests
  <2>2. Types'
    BY <2>1, <1>1 DEF Types, request, sync
  <2>3. call.status = "running" => ~paused'[call.server]
    BY <1>1, <1>7, CallFields DEF CallInv, RunningInv, Types
  <2>4. Current <= Current'
    BY <1>2
  <2> QED
    BY <2>1, <2>2, <2>3, <2>4, <1>1, <1>2, <1>3, UpdateFrame
<1> QED
  BY <1>6, <1>7

(* Every step keeps the invariant.                                         *)
LEMMA NextInv == IInv /\ [Next]_vars => IInv'
<1> SUFFICES ASSUME IInv, [Next]_vars PROVE IInv'
  OBVIOUS
<1>1. CASE Request
  BY <1>1, CallStep, AdmitStep, GenerateStep, MergeStep, AgentStep DEF Request
<1>2. CASE Update
  BY <1>2, BeginUpdateStep, DrainedStep, FinalizeStep, LoadStep, SetStepsStep, ResumeStep,
     AbortStep DEF Update
<1>3. CASE UNCHANGED vars
  BY <1>3, LimitFrame DEF vars, IInv, Types, EngineInv, CallInv, RunningInv, RepliedInv,
     ClientInv, GoesOn, VersionInv, Current
<1> QED
  BY <1>1, <1>2, <1>3 DEF Next

(* In every reachable state the client, its call and the replicas agree on *)
(* limit and versions.                                                     *)
THEOREM Invariance == Spec => []IInv
BY InitInv, NextInv, PTL DEF Spec

-----------------------------------------------------------------------------
(* However often a response is aborted and resumed, and on whichever       *)
(* replicas, the calls of FullyAsyncLLMServerClient.generate together keep *)
(* the caller's token limit.                                               *)
THEOREM LimitKept == Spec => []LimitOverCalls
<1>1. IInv => LimitOverCalls
  <2> SUFFICES ASSUME IInv, original # NoLimit
               PROVE  Len(final) + Len(part) <= original /\ limit >= 0
    BY DEF LimitOverCalls
  <2> USE DEF IInv
  <2>1. Len(final) \in Nat /\ Len(part) \in Nat /\ original \in Nat /\ limit \in Nat
        /\ limit = original - Len(final)
    BY LenProperties, LengthsAssumption DEF Types, ClientInv
  <2>2. CASE call.status \in {"none", "sent"}
    BY <2>1, <2>2, EmptySeq DEF CallInv
  <2>3. CASE call.status \in {"running", "replied"}
    <3>1. GoesOn
      BY <2>3 DEF CallInv, ClientInv
    <3>2. MaxTokens(Len(final)) = original - Len(final)
      BY <3>1, CallLimit
    <3> QED
      BY <3>2, <2>1, <2>3 DEF CallInv, RunningInv, RepliedInv
  <2> QED
    BY <2>2, <2>3, CallFields
<1> QED
  BY <1>1, Invariance, PTL

(* min_global_steps and max_global_steps of a response enclose the         *)
(* versions of the weights that generated it.                              *)
THEOREM VersionsTruthful == Spec => []VersionsEnclosed
<1>1. IInv => VersionsEnclosed
  <2> SUFFICES ASSUME IInv, client = "returned"
               PROVE  /\ \A i \in DOMAIN final : final[i].version \in minSteps..maxSteps
                      /\ final # <<>> => final[Len(final)].version = maxSteps
    BY DEF VersionsEnclosed
  <2>1. DOMAIN final = 1..Len(final) /\ \A i \in 1..Len(final) : final[i] \in Tokens
    BY LenProperties, ElementOfSeq DEF IInv, Types
  <2>2. \A i \in 1..Len(final) : final[i].version \in Int
    BY <2>1 DEF Tokens
  <2> QED
    BY <2>1, <2>2 DEF IInv, VersionInv, Types
<1> QED
  BY <1>1, Invariance, PTL

(* update_weights replaces the weights of a replica only when all of them  *)
(* are paused and nothing runs.                                            *)
THEOREM WeightsReplacedWhenIdle == Spec => UpdatedWhenIdle
<1>1. IInv /\ [Next]_vars =>
        [weights' # weights => call.status # "running" /\ \A s \in Servers : paused[s]]_vars
  <2> SUFFICES ASSUME IInv, Next, weights' # weights
               PROVE  manager = "update"
    BY NothingRuns
  <2>1. CASE Request
    BY <2>1 DEF Request, Call, Admit, GenerateToken, MergeReply, RunAgentLoop, engine
  <2>2. CASE Update
    BY <2>2 DEF Update, BeginUpdate, Drained, Finalize, AbortRequests, LoadWeights,
       SetGlobalSteps, ResumeGeneration, engine
  <2> QED
    BY <2>1, <2>2 DEF Next
<1> QED
  BY <1>1, Invariance, PTL DEF Spec, UpdatedWhenIdle
-----------------------------------------------------------------------------
(* The refinement.  A token of the engine is a token of the abstract call; *)
(* merging moves the part into the merged output and changes no text; the  *)
(* client returns when its last call has completed the response.           *)

(* A token of the call under way is a token of the uninterrupted call.     *)
LEMMA GenerateRefines ==
    ASSUME IInv, NEW eos \in BOOLEAN, GenerateToken(eos) PROVE Uninterrupted!Next
<1> USE DEF IInv
<1> DEFINE text == final \o part
           tok == [after |-> Len(text), version |-> weights[call.server], eos |-> eos]
<1>1. /\ call.status = "running" /\ call.server \in Servers /\ call.given = Len(final)
      /\ client = "calling" /\ RunningInv /\ GoesOn
  BY CallFields DEF GenerateToken, CallInv, ClientInv
<1>2. weights[call.server] = Current /\ Current \in 0..MaxVersion
  BY <1>1, RunningReplica DEF RunningInv
<1>3. /\ final \in Seq(Tokens) /\ part \in Seq(Tokens)
      /\ Len(final) \in Nat /\ Len(part) \in Nat
  BY LenProperties DEF Types
<1>4. /\ text \in Seq(Tokens) /\ Len(text) = Len(final) + Len(part)
      /\ \A i \in 1..Len(text) :
            text[i] = IF i <= Len(final) THEN final[i] ELSE part[i - Len(final)]
  BY <1>3, ConcatProperties
<1>5. tok \in Tokens
  BY <1>2, <1>3, <1>4 DEF Tokens
<1>6. part' = Append(part, tok) /\ UNCHANGED <<final, client, original>>
  BY <1>1, <1>4 DEF GenerateToken, request
<1> HIDE DEF tok
<1>7. final' \o part' = Append(text, tok)
  <2>1. Append(part, tok) = part \o <<tok>> /\ Append(text, tok) = text \o <<tok>>
        /\ <<tok>> \in Seq(Tokens)
    BY <1>3, <1>4, <1>5, AppendIsConcat
  <2> QED
    BY <2>1, <1>3, <1>6, ConcatAssociative
<1>8. text = <<>> \/ (~text[Len(text)].eos /\ text[Len(text)].version <= Current)
  <2>1. CASE part = <<>>
    <3>1. text = final
      BY <2>1, <1>3, ConcatEmptySeq
    <3>2. SUFFICES ASSUME final # <<>>
                   PROVE ~final[Len(final)].eos /\ final[Len(final)].version <= Current
      BY <3>1
    <3>3. Len(final) \in 1..Len(final)
      BY <3>2, <1>3, EmptySeq
    <3>4. final[Len(final)] \in Tokens
      BY <3>3, <1>3, ElementOfSeq
    <3> QED
      BY <3>2, <3>3, <3>4, <1>1, <1>2, SMTT(30) DEF GoesOn, VersionInv, Types, Tokens
  <2>2. CASE part # <<>>
    <3>1. Len(part) \in 1..Len(part)
      BY <2>2, <1>3, EmptySeq
    <3>2. /\ Len(text) \in 1..Len(text) /\ ~(Len(text) <= Len(final))
          /\ Len(text) - Len(final) = Len(part)
      BY <3>1, <1>3, <1>4
    <3>3. text[Len(text)] = part[Len(part)]
      BY <3>2, <1>4
    <3> QED
      BY <3>1, <3>3, <1>1, <1>2 DEF RunningInv
  <2> QED
    BY <2>1, <2>2
<1> HIDE DEF text
<1>9. tok = [after |-> Len(text), version |-> Current, eos |-> eos]
  BY <1>2 DEF tok
<1>10. Uninterrupted!MayFollow(tok)
  BY <1>8, <1>9 DEF Uninterrupted!MayFollow, text
<1>11. Uninterrupted!Emit(tok)
  BY <1>1, <1>6, <1>7, <1>9, <1>10 DEF Uninterrupted!Emit, text, Wanted
<1> QED
  BY <1>2, <1>9, <1>11 DEF Uninterrupted!Next, text

(* Merging a part changes nothing, unless the response is complete: then   *)
(* the uninterrupted call returns.                                         *)
LEMMA MergeRefines ==
    ASSUME PartialRollout, IInv, MergeReply
    PROVE  Uninterrupted!Next \/ UNCHANGED <<Wanted, final \o part, client = "returned">>
<1> DEFINE all == final \o part
<1>1. /\ call.status = "replied" /\ call.reason \in {"completed", "aborted"}
      /\ client = "calling"
  BY CallFields DEF MergeReply, IInv, CallInv
<1>2. /\ final' = all /\ part' = <<>> /\ UNCHANGED original
      /\ client' \in {"ready", "returned"}
      /\ (call.reason = "aborted" /\ ~(original # NoLimit /\ Len(all) >= original))
            => client' = "ready"
  BY DEF MergeReply, CallAgain
<1>3. /\ all \in Seq(Tokens)
      /\ call.reason = "completed" => all # <<>> /\ (Len(all) >= Wanted \/ all[Len(all)].eos)
      /\ call.reason = "aborted" /\ original # NoLimit => Len(all) < original
  BY <1>1, Merged
<1>4. Len(all) \in Nat /\ original \in Nat
  BY <1>3, LenProperties, LengthsAssumption DEF IInv, Types
<1> HIDE DEF all
<1>5. final' \o part' = all
  BY <1>2, <1>3, ConcatEmptySeq
<1>6. Wanted' = Wanted
  BY <1>2 DEF Wanted
<1>7. CASE call.reason = "completed"
  <2>1. CASE client' = "returned"
    BY <2>1, <1>1, <1>3, <1>5, <1>6, <1>7
       DEF Uninterrupted!Next, Uninterrupted!Return, Uninterrupted!Complete, all
  <2>2. CASE client' = "ready"
    BY <2>2, <1>1, <1>5, <1>6 DEF all
  <2> QED
    BY <2>1, <2>2, <1>2
<1>8. CASE call.reason = "aborted"
  BY <1>1, <1>2, <1>3, <1>4, <1>5, <1>6, <1>8 DEF all
<1> QED
  BY <1>1, <1>7, <1>8

(* With partial_rollout, the calls of the client together implement one    *)
(* call that is never interrupted: each token is generated behind all the  *)
(* tokens before it by weights no older than theirs, none is lost or       *)
(* repeated in the merging, and what is returned is complete.              *)
THEOREM ImplementsOneCall ==
    ASSUME PartialRollout PROVE Spec => LikeOneCall
<1>1. Init => Uninterrupted!Init
  <2> SUFFICES ASSUME Init PROVE Uninterrupted!Init
    OBVIOUS
  <2>1. final \o part = <<>>
    BY ConcatEmptySeq, EmptySeq DEF Init
  <2> QED
    BY <2>1, LengthsAssumption DEF Init, Uninterrupted!Init, Wanted
<1>2. IInv /\ [Next]_vars =>
        [Uninterrupted!Next]_<<Wanted, final \o part, client = "returned">>
  <2> SUFFICES ASSUME IInv, [Next]_vars
               PROVE  Uninterrupted!Next \/ UNCHANGED <<Wanted, final \o part, client = "returned">>
    OBVIOUS
  <2>1. ASSUME NEW eos \in BOOLEAN, GenerateToken(eos) PROVE Uninterrupted!Next
    BY <2>1, GenerateRefines
  <2>2. ASSUME MergeReply
        PROVE  Uninterrupted!Next \/ UNCHANGED <<Wanted, final \o part, client = "returned">>
    BY <2>2, MergeRefines
  <2>3. ASSUME Call \/ Admit \/ RunAgentLoop
        PROVE  /\ UNCHANGED <<original, final, part>>
               /\ (client = "returned") = (client' = "returned")
    BY <2>3, CallFields
       DEF Call, Admit, RunAgentLoop, request, IInv, CallInv
  <2>4. ASSUME Update PROVE UNCHANGED <<original, final, part, client>>
    BY <2>4 DEF Update, BeginUpdate, Drained, Finalize, AbortRequests, LoadWeights,
       SetGlobalSteps, ResumeGeneration, request
  <2>5. ASSUME UNCHANGED vars PROVE UNCHANGED <<original, final, part, client>>
    BY <2>5 DEF vars
  <2>6. ASSUME UNCHANGED <<original, final, part>>, (client = "returned") = (client' = "returned")
        PROVE  UNCHANGED <<Wanted, final \o part, client = "returned">>
    BY <2>6 DEF Wanted
  <2> QED
    BY <2>1, <2>2, <2>3, <2>4, <2>5, <2>6 DEF Next, Request
<1> QED
  BY <1>1, <1>2, Invariance, PTL DEF Spec, LikeOneCall, Uninterrupted!Spec
=============================================================================
