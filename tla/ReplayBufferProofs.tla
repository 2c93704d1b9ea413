------------------------- MODULE ReplayBufferProofs -------------------------
(***************************************************************************)
(* Proofs about ReplayBuffer for any number of steps, prompts, sessions    *)
(* and errors, and however listings of the queue, agent loops and the      *)
(* trainer interleave.  With several validation batches, which share one   *)
(* global_steps, batches can get mixed: what a batch holds is proved for   *)
(* at most one.                                                            *)
(***************************************************************************)
EXTENDS ReplayBuffer, TLAPS

(* Every variable has its type, and only prompts of this round are open.   *)
Types ==
    /\ round \in 0..LastRound
    /\ pc \in {"dispatch", "sample", "balance", "train", "clear", "remove",
               "metrics", "forget", "done", "raised", "empty"}
    /\ running \subseteq AllSessions
    /\ raised \subseteq AllPrompts
    /\ open \subseteq Prompts(round)
    /\ errors \in 0..MaxErrors

(* There is nothing yet of a round that is not dispatched.                 *)
KnownInv ==
    \A k \in tq \cup snapshot \cup buffer \cup running :
        k[1] \in 0..round /\ (pc = "dispatch" => k[1] # round)

(* An open prompt is waited for: it is pending, and no listing holds its   *)
(* result.  A session that runs belongs to one, or to a raised prompt.     *)
OpenInv ==
    /\ pc # "sample" => open = {}
    /\ open \subseteq pending /\ open \cap (tq \cup snapshot) = {}
    /\ \A k \in running : PromptOf(k) \in open \cup raised

(* Results are of prompts that were registered, which nothing removes.     *)
DatedInv ==
    /\ pending \subseteq buffer /\ undated = {}
    /\ \A k \in tq \cup snapshot : ~IsSample(k) => k \in buffer
    /\ \A k \in batch \cup trained : IsSample(k)

(* While fit() samples: a listing that holds the result of a prompt holds  *)
(* its samples, and when the result is merged they are in the buffer; what *)
(* is listed or merged of this round is in the queue.                      *)
ListingInv ==
    pc = "sample" =>
        /\ \A u \in Prompts(round) \ raised :
            /\ u \in snapshot => Sessions(u) \cap tq \subseteq snapshot
            /\ u \notin pending => Sessions(u) \cap tq \subseteq buffer
        /\ \A k \in buffer \cup snapshot : (IsSample(k) /\ k[1] = round) => k \in tq
        /\ \A k \in tq : (IsSample(k) /\ k[1] = round) =>
            PromptOf(k) \in Prompts(round) /\ k \in Sessions(PromptOf(k))

(* Which round fit() is in at a place of its loop, and that a training     *)
(* batch finds no older one still held.                                    *)
PlaceInv ==
    /\ pc \in {"balance", "train"} => PartitionOf(round) = "train"
    /\ pc \in {"clear", "remove"} => PartitionOf(round) = "val"
    /\ (PartitionOf(round) = "train" /\ pc \in {"dispatch", "sample", "balance", "train"})
        => trained = {}
    /\ (PartitionOf(round) = "val" /\ StepOf(round) = 0) => trained = {}

(* The samples in the queue of prompts that did not raise belong to a      *)
(* batch that fit() still has to clear.                                    *)
LeftInv ==
    pc # "raised" =>
        \A k \in tq : (IsSample(k) /\ PromptOf(k) \notin raised) =>
            \/ k \in trained /\ pc # "forget"
            \/ pc = "sample" /\ k[1] = round
            \/ pc \in {"balance", "train", "clear"} /\ k \in batch

IInv ==
    /\ Types /\ KnownInv /\ OpenInv /\ DatedInv
    /\ ListingInv /\ BatchExact /\ PlaceInv /\ LeftInv

(* The part of it that holds for any number of validation batches.         *)
BaseInv == Types /\ KnownInv /\ OpenInv /\ DatedInv
-----------------------------------------------------------------------------
(* Rounds and keys.                                                        *)

(* The rounds of fit() are numbered from 0.                                *)
LEMMA Rounds == LastRound \in Nat
<1>1. Steps \in Nat \ {0} /\ ValBatches \in Nat
  BY SizeAssumption
<1>2. Steps * (ValBatches + 1) \in Nat /\ Steps * (ValBatches + 1) >= 1
  BY <1>1
<1> QED
  BY <1>1, <1>2 DEF LastRound

(* The key of a prompt and the keys of its sessions.                       *)
LEMMA PromptKeys ==
    ASSUME NEW r, NEW u \in Prompts(r)
    PROVE  /\ u[1] = r /\ ~IsSample(u)
           /\ \A k \in Sessions(u) : k[1] = r /\ IsSample(k) /\ PromptOf(k) = u
<1>1. PICK i \in 1..BatchSize : u = <<r, i, 0>>
  BY DEF Prompts
<1>2. u[1] = r /\ u[2] = i /\ u[3] = 0
  BY <1>1
<1>3. ASSUME NEW k \in Sessions(u) PROVE k[1] = r /\ IsSample(k) /\ PromptOf(k) = u
  <2>1. PICK s \in 1..(IF PartitionOf(u[1]) = "train" THEN N ELSE NVal) : k = <<u[1], u[2], s>>
    BY DEF Sessions
  <2>2. k[1] = r /\ k[2] = i /\ k[3] = s
    BY <1>2, <2>1
  <2>3. s \in Int /\ s > 0
    BY <2>1, SizeAssumption
  <2> QED
    BY <1>1, <2>2, <2>3 DEF IsSample, PromptOf
<1> QED
  BY <1>2, <1>3 DEF IsSample

(* A session belongs to one prompt of its round.                           *)
LEMMA SessionKeys ==
    ASSUME NEW k \in AllSessions
    PROVE  /\ k[1] \in 0..LastRound /\ IsSample(k)
           /\ PromptOf(k) \in Prompts(k[1]) /\ k \in Sessions(PromptOf(k))
           /\ PromptOf(k) \in AllPrompts
<1>1. PICK u \in AllPrompts : k \in Sessions(u)
  BY DEF AllSessions
<1>2. PICK r \in 0..LastRound : u \in Prompts(r)
  BY DEF AllPrompts
<1>3. k[1] = r /\ IsSample(k) /\ PromptOf(k) = u
  BY <1>1, <1>2, PromptKeys
<1> QED
  BY <1>1, <1>2, <1>3

(* The sessions of the prompts of a round.                                 *)
RoundSessions(r) == UNION {Sessions(u) : u \in Prompts(r)}

(* The keys of a round are among all keys.                                 *)
LEMMA RoundKeys ==
    ASSUME NEW r \in 0..LastRound
    PROVE  /\ Prompts(r) \subseteq AllPrompts /\ RoundSessions(r) \subseteq AllSessions
           /\ \A k \in RoundSessions(r) : k[1] = r /\ PromptOf(k) \in Prompts(r)
<1>1. Prompts(r) \subseteq AllPrompts
  BY DEF AllPrompts
<1>2. RoundSessions(r) \subseteq AllSessions
  BY <1>1 DEF RoundSessions, AllSessions
<1>3. ASSUME NEW k \in RoundSessions(r) PROVE k[1] = r /\ PromptOf(k) \in Prompts(r)
  <2>1. PICK u \in Prompts(r) : k \in Sessions(u)
    BY DEF RoundSessions
  <2> QED
    BY <2>1, PromptKeys
<1> QED
  BY <1>1, <1>2, <1>3

(* The padding of a batch are samples of the round.                        *)
LEMMA PaddingKeys == \A k \in Padding : k[1] = round /\ IsSample(k)
<1> SUFFICES ASSUME NEW k \in Padding PROVE k[1] = round /\ IsSample(k)
  OBVIOUS
<1>1. PICK j \in 1..((-Cardinality(batch)) % Multiple) : k = <<round, 0, j>>
  BY DEF Padding
<1>2. k[1] = round /\ k[3] = j
  BY <1>1
<1>3. j > 0
  OBVIOUS
<1> QED
  BY <1>2, <1>3 DEF IsSample

(* A step of fit() that is not a dispatch stays in the round or enters the *)
(* next one, which it has to dispatch first.                               *)
LEMMA Advances ==
    ASSUME Types, Advance
    PROVE  /\ round' \in 0..LastRound /\ pc' \in {"done", "dispatch"}
           /\ pc' = "done" => round' = round
           /\ pc' = "dispatch" => round' = round + 1
BY Rounds DEF Types, Advance

(* What fit() does, by the place it leaves.                                *)
LEMMA TrainerMoves ==
    ASSUME Types, GetSample \/ Balance \/ TrainStep \/ Clear \/ NextBatch \/ ClearStep \/ NextStep
    PROVE  /\ round' \in 0..LastRound
           /\ pc' \in {"balance", "train", "clear", "remove", "metrics", "forget", "done",
                       "dispatch", "raised", "empty"}
           /\ pc' = "dispatch" => round' = round + 1
           /\ pc' # "dispatch" => round' = round
           /\ pc # "dispatch" /\ UNCHANGED <<workers, snapshot>>
           /\ pc = "sample" => GetSample
<1>1. CASE GetSample
  BY <1>1 DEF GetSample, Types
<1>2. CASE Balance \/ Clear \/ ClearStep
  BY <1>2 DEF Balance, Clear, ClearStep, Types
<1>3. CASE TrainStep
  <2>1. pc = "train" /\ UNCHANGED <<workers, snapshot>>
    BY <1>3 DEF TrainStep
  <2>2. \/ pc' \in {"raised", "metrics"} /\ round' = round
        \/ Advance
    BY <1>3 DEF TrainStep
  <2> QED
    BY <2>1, <2>2, Advances DEF Types
<1>4. CASE NextBatch
  <2>1. pc = "remove" /\ UNCHANGED <<workers, snapshot>>
    BY <1>4 DEF NextBatch
  <2>2. \/ pc' = "metrics" /\ round' = round
        \/ Advance
    BY <1>4 DEF NextBatch
  <2> QED
    BY <2>1, <2>2, Advances DEF Types
<1>5. CASE NextStep
  <2>1. pc = "forget" /\ UNCHANGED <<workers, snapshot>> /\ Advance
    BY <1>5 DEF NextStep
  <2> QED
    BY <2>1, Advances DEF Types
<1> QED
  BY <1>1, <1>2, <1>3, <1>4, <1>5

(* The places fit() moves on from, a dispatch apart.                       *)
Moves == GetSample \/ Balance \/ TrainStep \/ Clear \/ NextBatch \/ ClearStep \/ NextStep

(* What these moves do to the queue and the buffer.                        *)
LEMMA MovesKeys ==
    ASSUME Moves
    PROVE  /\ tq' \subseteq tq \cup Padding /\ (Balance \/ tq' \subseteq tq)
           /\ \A k \in tq : k \notin tq' => k \in batch \cup trained
           /\ buffer' \subseteq buffer /\ \A k \in buffer : k \notin buffer' => k \in batch \cup trained
           /\ pending' \subseteq pending
           /\ \A k \in pending : k \notin pending' => k \in batch \cup trained
           /\ pending' \subseteq pending /\ (pending \subseteq buffer => pending' \subseteq buffer')
           /\ undated' \subseteq undated
BY DEF Moves, GetSample, Balance, TrainStep, Clear, NextBatch, ClearStep, NextStep, KvClear, Remove,
       replay

(* When sample returns, every prompt of the round has ended.               *)
LEMMA SampleEnds ==
    ASSUME BaseInv, GetSample
    PROVE  open = {} /\ \A u \in Prompts(round) : u \notin pending
<1>1. ASSUME NEW u \in Prompts(round), u \in pending PROVE FALSE
  <2>1. u \in buffer /\ u[1] = round
    BY <1>1, PromptKeys DEF BaseInv, DatedInv
  <2>2. u \in Current
    BY <2>1 DEF Current, InPartition
  <2>3. pending \cap Current = {}
    BY DEF GetSample, ShouldWait
  <2> QED
    BY <1>1, <2>2, <2>3
<1>2. open \subseteq Prompts(round) /\ open \subseteq pending
  BY DEF BaseInv, Types, OpenInv
<1> QED
  BY <1>1, <1>2

(* Steps of fit() that only take from the buffer and the queue.            *)
LEMMA MovesBase ==
    ASSUME BaseInv, Moves
    PROVE  BaseInv'
<1>b. Types /\ KnownInv /\ OpenInv /\ DatedInv
  BY DEF BaseInv
<1>m. /\ round' \in 0..LastRound
      /\ pc' \in {"balance", "train", "clear", "remove", "metrics", "forget", "done",
                  "dispatch", "raised", "empty"}
      /\ pc' = "dispatch" => round' = round + 1
      /\ pc' # "dispatch" => round' = round
      /\ pc # "dispatch" /\ UNCHANGED <<workers, snapshot>>
      /\ pc = "sample" => GetSample
  BY <1>b, TrainerMoves DEF Moves
<1>k. /\ tq' \subseteq tq \cup Padding /\ (Balance \/ tq' \subseteq tq)
      /\ buffer' \subseteq buffer /\ \A k \in buffer : k \notin buffer' => k \in batch \cup trained
      /\ pending \subseteq buffer => pending' \subseteq buffer'
      /\ undated' \subseteq undated
  BY MovesKeys
<1>w. open' = open /\ running' = running /\ raised' = raised /\ errors' = errors /\ snapshot' = snapshot
  BY <1>m DEF workers
<1>o. open = {}
  <2>1. CASE pc = "sample"
    BY <2>1, <1>m, SampleEnds
  <2>2. CASE pc # "sample"
    BY <2>2, <1>b DEF OpenInv
  <2> QED
    BY <2>1, <2>2
<1>1. Types'
  BY <1>b, <1>m, <1>w, <1>o DEF Types
<1>2. KnownInv'
  <2> SUFFICES ASSUME NEW k \in tq' \cup snapshot' \cup buffer' \cup running'
               PROVE  k[1] \in 0..round' /\ (pc' = "dispatch" => k[1] # round')
    BY DEF KnownInv
  <2>1. round \in Nat /\ round' \in Nat
    BY <1>b, <1>m DEF Types
  <2>2. CASE k \in tq \cup snapshot \cup buffer \cup running
    <3>1. k[1] \in 0..round
      BY <2>2, <1>b DEF KnownInv
    <3> QED
      BY <3>1, <2>1, <1>m
  <2>3. CASE k \in Padding /\ Balance
    <3>1. k[1] = round
      BY <2>3, PaddingKeys
    <3>2. pc' # "dispatch"
      BY <2>3 DEF Balance
    <3> QED
      BY <3>1, <3>2, <2>1, <1>m
  <2> QED
    BY <2>2, <2>3, <1>k, <1>w
<1>3. OpenInv'
  BY <1>b, <1>w, <1>o DEF OpenInv
<1>4. DatedInv'
  <2>1. ASSUME NEW k \in tq' \cup snapshot', ~IsSample(k) PROVE k \in buffer'
    <3>1. k \in tq \cup snapshot
      BY <2>1, <1>k, <1>w, PaddingKeys
    <3>2. k \in buffer /\ k \notin batch \cup trained
      BY <2>1, <3>1, <1>b DEF DatedInv
    <3> QED
      BY <3>2, <1>k
  <2>2. ASSUME NEW k \in batch' \cup trained' PROVE IsSample(k)
    <3>1. \A x \in batch \cup trained : IsSample(x)
      BY <1>b DEF DatedInv
    <3>2. \/ k \in batch \cup trained
          \/ k \in Padding
          \/ IsSample(k)
      BY <2>2 DEF Moves, GetSample, Balance, TrainStep, Clear, NextBatch, ClearStep, NextStep
    <3> QED
      BY <3>1, <3>2, PaddingKeys
  <2> QED
    BY <2>1, <2>2, <1>b, <1>k DEF DatedInv, IsSample
<1> QED
  BY <1>1, <1>2, <1>3, <1>4 DEF BaseInv

(* A round is registered as a whole.                                       *)
LEMMA DispatchBase ==
    ASSUME BaseInv, Dispatch
    PROVE  BaseInv'
<1>b. Types /\ KnownInv /\ OpenInv /\ DatedInv
  BY DEF BaseInv
<1>1. /\ pc = "dispatch" /\ pc' = "sample" /\ round' = round /\ round \in 0..LastRound
      /\ buffer' = buffer \cup Prompts(round) /\ pending' = pending \cup Prompts(round)
      /\ undated' = undated /\ open' = open \cup Prompts(round)
      /\ running' = running \cup RoundSessions(round)
      /\ UNCHANGED <<batch, trained, raised, errors, tq, snapshot>>
  BY <1>b DEF Dispatch, Register, RoundSessions, Types
<1>2. /\ Prompts(round) \subseteq AllPrompts /\ RoundSessions(round) \subseteq AllSessions
      /\ \A k \in RoundSessions(round) : k[1] = round /\ PromptOf(k) \in Prompts(round)
  BY <1>1, RoundKeys
<1>3. \A u \in Prompts(round) : u[1] = round /\ ~IsSample(u)
  BY PromptKeys
<1>4. open = {} /\ Prompts(round) \cap (tq \cup snapshot) = {}
  BY <1>1, <1>3, <1>b DEF OpenInv, KnownInv
<1>5. Types'
  BY <1>1, <1>2, <1>b DEF Types
<1>6. KnownInv'
  BY <1>1, <1>2, <1>3, <1>b DEF KnownInv
<1>7. OpenInv'
  <2>1. open' \subseteq pending' /\ open' \cap (tq' \cup snapshot') = {}
    BY <1>1, <1>4
  <2>2. ASSUME NEW k \in running' PROVE PromptOf(k) \in open' \cup raised'
    BY <1>1, <1>2, <1>b DEF OpenInv
  <2> QED
    BY <1>1, <2>1, <2>2 DEF OpenInv, PromptOf
<1>8. DatedInv'
  BY <1>1, <1>b DEF DatedInv
<1> QED
  BY <1>5, <1>6, <1>7, <1>8 DEF BaseInv

(* The poll thread lists what is in the queue, and merges what it has      *)
(* listed.                                                                 *)
LEMMA PollBase ==
    ASSUME BaseInv, PollList \/ \E p \in {"train", "val"} : PollAdd(p)
    PROVE  BaseInv'
<1>b. Types /\ KnownInv /\ OpenInv /\ DatedInv
  BY DEF BaseInv
<1>1. CASE PollList
  BY <1>1, <1>b DEF PollList, trainer, workers, replay, BaseInv, Types, KnownInv, OpenInv, DatedInv
<1>2. ASSUME NEW p \in {"train", "val"}, PollAdd(p) PROVE BaseInv'
  <2> DEFINE K == {k \in snapshot : InPartition(k, p)}
  <2>1. /\ K \subseteq snapshot /\ snapshot' = snapshot \ K
        /\ buffer' = buffer \cup K /\ pending' = pending \ K
        /\ undated' = undated \cup {k \in K \ buffer : ~IsSample(k)}
        /\ UNCHANGED <<round, pc, batch, trained, running, open, raised, errors, tq>>
    BY <1>2 DEF PollAdd, Merge, trainer, workers
  <2> HIDE DEF K
  <2>2. undated' = {}
    BY <2>1, <1>b DEF DatedInv
  <2>3. Types'
    BY <2>1, <1>b DEF Types
  <2>4. KnownInv'
    BY <2>1, <1>b DEF KnownInv
  <2>5. OpenInv'
    BY <2>1, <1>b DEF OpenInv
  <2>6. DatedInv'
    BY <2>1, <2>2, <1>b DEF DatedInv
  <2> QED
    BY <2>3, <2>4, <2>5, <2>6 DEF BaseInv
<1> QED
  BY <1>1, <1>2

(* The workers put samples, and close or fail the prompts of this round.   *)
LEMMA WorkersBase ==
    ASSUME BaseInv,
           \/ \E k \in running : SessionEnds(k) \/ SessionRaises(k)
           \/ \E u \in open : PromptEnds(u)
    PROVE  BaseInv'
<1>b. Types /\ KnownInv /\ OpenInv /\ DatedInv
  BY DEF BaseInv
<1>r. round \in Nat /\ MaxErrors \in Nat
  BY <1>b, SizeAssumption DEF Types
<1>s. ASSUME NEW k \in running
      PROVE  /\ PromptOf(k) \in open \cup raised /\ IsSample(k) /\ PromptOf(k) \in AllPrompts
             /\ k[1] \in Nat /\ PromptOf(k) \in Prompts(k[1])
  BY <1>b, SessionKeys DEF Types, OpenInv
<1>1. ASSUME NEW k \in running, SessionEnds(k) PROVE BaseInv'
  <2>1. /\ running' = running \ {k} /\ tq' \in {tq, tq \cup {k}}
        /\ UNCHANGED <<round, pc, batch, trained, open, raised, errors, snapshot, buffer, pending, undated>>
    BY <1>1 DEF SessionEnds, trainer, replay
  <2>2. Types'
    BY <2>1, <1>b DEF Types
  <2>3. KnownInv'
    BY <2>1, <1>1, <1>b DEF KnownInv
  <2>4. k \notin open
    <3>1. \A u \in open : ~IsSample(u)
      BY <1>b, PromptKeys DEF Types
    <3> QED
      BY <3>1, <1>s
  <2>5. OpenInv'
    BY <2>1, <2>4, <1>b DEF OpenInv
  <2>6. DatedInv'
    BY <2>1, <1>s, <1>b DEF DatedInv
  <2> QED
    BY <2>2, <2>3, <2>5, <2>6 DEF BaseInv
<1>2. ASSUME NEW k \in running, SessionRaises(k) PROVE BaseInv'
  <2>1. /\ running' = running \ {k} /\ raised' = raised \cup {PromptOf(k)} /\ errors < MaxErrors
        /\ errors' = errors + 1
        /\ UNCHANGED <<round, pc, batch, trained, open, tq, snapshot, buffer, pending, undated>>
    BY <1>2 DEF SessionRaises, trainer, replay
  <2>2. Types'
    BY <2>1, <1>b, <1>r, <1>s DEF Types
  <2>3. KnownInv'
    BY <2>1, <1>b DEF KnownInv
  <2>4. OpenInv'
    BY <2>1, <1>b DEF OpenInv, PromptOf
  <2>5. DatedInv'
    BY <2>1, <1>b DEF DatedInv
  <2> QED
    BY <2>2, <2>3, <2>4, <2>5 DEF BaseInv
<1>3. ASSUME NEW u \in open, PromptEnds(u) PROVE BaseInv'
  <2>1. /\ open' = open \ {u} /\ tq' = tq \cup {u}
        /\ Sessions(u) \cap running = {} \/ u \in raised
        /\ UNCHANGED <<round, pc, batch, trained, running, raised, errors, snapshot, buffer, pending, undated>>
    BY <1>3 DEF PromptEnds, PutResult, Gathered, trainer, replay
  <2>2. u \in Prompts(round) /\ u[1] = round /\ ~IsSample(u) /\ pc = "sample" /\ u \in buffer
    BY <1>b, PromptKeys DEF Types, OpenInv, DatedInv
  <2>3. Types'
    BY <2>1, <1>b DEF Types
  <2>4. KnownInv'
    BY <2>1, <2>2, <1>b, <1>r DEF KnownInv
  <2>5. OpenInv'
    <3>1. ASSUME NEW k \in running PROVE PromptOf(k) \in open' \cup raised
      <4>1. PromptOf(k) \in open \cup raised /\ k \in Sessions(PromptOf(k))
        BY <1>s, <1>b, SessionKeys DEF Types
      <4> QED
        BY <2>1, <4>1
    <3> QED
      BY <2>1, <2>2, <3>1, <1>b DEF OpenInv, PromptOf
  <2>6. DatedInv'
    BY <2>1, <2>2, <1>b DEF DatedInv
  <2> QED
    BY <2>3, <2>4, <2>5, <2>6 DEF BaseInv
<1> QED
  BY <1>1, <1>2, <1>3

(* Every step keeps the part for any number of validation batches.         *)
LEMMA BaseStep ==
    ASSUME BaseInv, [Next]_vars
    PROVE  BaseInv'
<1>1. CASE UNCHANGED vars
  BY <1>1 DEF vars, trainer, workers, replay, BaseInv, Types, KnownInv, OpenInv, DatedInv
<1>2. CASE Next
  BY <1>2, MovesBase, DispatchBase, PollBase, WorkersBase DEF Next, Trainer, Moves
<1> QED
  BY <1>1, <1>2

(* At first nothing is registered.                                         *)
LEMMA BaseInit == Init => BaseInv
<1>1. 0 \in 0..LastRound /\ 0 \in 0..MaxErrors
  BY Rounds, SizeAssumption
<1> QED
  BY <1>1 DEF Init, BaseInv, Types, KnownInv, OpenInv, DatedInv

(* The invariant that does not depend on the number of validation batches. *)
THEOREM BaseInvariance == Spec => []BaseInv
BY BaseInit, BaseStep, PTL DEF Spec

(* Types are kept, and sample never meets an entry without global_steps:   *)
(* however late a listing is merged, it finds its prompts registered.      *)
THEOREM TypeCorrect == Spec => []TypeOK
<1>1. ASSUME BaseInv PROVE TypeOK
  <2>1. Types /\ DatedInv
    BY <1>1 DEF BaseInv
  <2>2. open \subseteq AllPrompts
    BY <2>1, RoundKeys DEF Types
  <2> QED
    BY <2>1, <2>2 DEF Types, DatedInv, TypeOK
<1> QED
  BY <1>1, BaseInvariance, PTL
-----------------------------------------------------------------------------
(* With at most one validation batch, a partition and a step name a round. *)

(* Quotient and remainder by one and by two.                               *)
LEMMA Division ==
    ASSUME NEW a \in Nat
    PROVE  /\ a % 1 = 0 /\ a \div 1 = a
           /\ a % 2 \in {0, 1} /\ a \div 2 \in Nat /\ a = 2 * (a \div 2) + (a % 2)
<1>1. a % 1 = 0 /\ a \div 1 = a
  OBVIOUS
<1>2. a % 2 \in {0, 1} /\ a \div 2 \in Nat
  OBVIOUS
<1>3. a = 2 * (a \div 2) + (a % 2)
  OBVIOUS
<1> QED
  BY <1>1, <1>2, <1>3

(* With at most one validation batch, partition and step of a round        *)
(* determine its number.                                                   *)
LEMMA RoundFacts ==
    ASSUME ValBatches <= 1, NEW a \in Nat
    PROVE  /\ PartitionOf(a) \in {"train", "val"} /\ StepOf(a) \in Nat
           /\ PartitionOf(a) = "val" =>
                /\ ValBatches = 1 /\ a % (ValBatches + 1) = ValBatches - 1 /\ a = 2 * StepOf(a)
           /\ PartitionOf(a) = "train" =>
                IF ValBatches = 0 THEN a = StepOf(a) - 1 ELSE a = 2 * StepOf(a) - 1
<1>d. /\ a % 1 = 0 /\ a \div 1 = a
      /\ a % 2 \in {0, 1} /\ a \div 2 \in Nat /\ a = 2 * (a \div 2) + (a % 2)
  BY Division
<1>1. CASE ValBatches = 0
  <2>1. a % (ValBatches + 1) = 0 /\ a \div (ValBatches + 1) = a
    BY <1>1, <1>d
  <2> QED
    BY <1>1, <2>1 DEF PartitionOf, StepOf
<1>2. CASE ValBatches = 1
  <2>1. a % (ValBatches + 1) = a % 2 /\ a \div (ValBatches + 1) = a \div 2
    BY <1>2
  <2>2. CASE a % 2 = 0
    <3>1. PartitionOf(a) = "val" /\ StepOf(a) = a \div 2
      BY <1>2, <1>d, <2>1, <2>2 DEF PartitionOf, StepOf
    <3> QED
      BY <1>2, <1>d, <2>1, <2>2, <3>1
  <2>3. CASE a % 2 = 1
    <3>1. PartitionOf(a) = "train" /\ StepOf(a) = a \div 2 + 1
      BY <1>2, <1>d, <2>1, <2>3 DEF PartitionOf, StepOf
    <3> QED
      BY <1>2, <1>d, <2>3, <3>1
  <2> QED
    BY <1>d, <2>2, <2>3
<1>3. ValBatches \in Nat
  BY SizeAssumption
<1> QED
  BY <1>1, <1>2, <1>3

(* So two rounds with the same partition and step are the same.            *)
LEMMA SameRound ==
    ASSUME ValBatches <= 1, NEW a \in Nat, NEW b \in Nat,
           PartitionOf(a) = PartitionOf(b), StepOf(a) = StepOf(b)
    PROVE  a = b
<1>1. CASE PartitionOf(a) = "val"
  BY <1>1, RoundFacts
<1>2. CASE PartitionOf(a) = "train"
  BY <1>2, RoundFacts
<1> QED
  BY <1>1, <1>2, RoundFacts

(* After a training round comes a validation, that of its step.            *)
LEMMA AfterTraining ==
    ASSUME ValBatches = 1, NEW a \in Nat, PartitionOf(a) = "train"
    PROVE  PartitionOf(a + 1) = "val" /\ StepOf(a + 1) # 0
<1>1. a = 2 * StepOf(a) - 1 /\ StepOf(a) \in Nat
  BY RoundFacts
<1>2. /\ a + 1 \in Nat /\ PartitionOf(a + 1) \in {"train", "val"} /\ StepOf(a + 1) \in Nat
      /\ PartitionOf(a + 1) = "val" => a + 1 = 2 * StepOf(a + 1)
      /\ PartitionOf(a + 1) = "train" => a + 1 = 2 * StepOf(a + 1) - 1
  BY RoundFacts
<1> QED
  BY <1>1, <1>2

-----------------------------------------------------------------------------
(* Besides the moves of fit(), the steps of the poll thread and of the     *)
(* workers.                                                                *)
Others ==
    \/ PollList
    \/ \E p \in {"train", "val"} : PollAdd(p)
    \/ \E k \in running : SessionEnds(k) \/ SessionRaises(k)
    \/ \E u \in open : PromptEnds(u)

(* The poll thread and the workers only add to the queue.                  *)
LEMMA OthersKeep ==
    ASSUME Others \/ UNCHANGED vars
    PROVE  /\ round' = round /\ pc' = pc /\ batch' = batch /\ trained' = trained
           /\ raised \subseteq raised' /\ tq \subseteq tq'
BY DEF Others, PollList, PollAdd, SessionEnds, SessionRaises, PromptEnds, PutResult, trainer,
       workers, vars

(* A step is of fit(), of the poll thread or of the workers.               *)
LEMMA KindsOfStep ==
    ASSUME [Next]_vars
    PROVE  Dispatch \/ Moves \/ Others \/ UNCHANGED vars
BY DEF Next, Trainer, Moves, Others

(* The session of a prompt that neither is open nor raised does not run.   *)
LEMMA NoLateSession ==
    ASSUME BaseInv, NEW u \in Prompts(round), u \notin open, u \notin raised
    PROVE  Sessions(u) \cap running = {}
<1> SUFFICES ASSUME NEW k \in Sessions(u), k \in running PROVE FALSE
  OBVIOUS
<1>1. PromptOf(k) = u
  BY PromptKeys
<1>2. PromptOf(k) \in open \cup raised
  BY DEF BaseInv, OpenInv
<1> QED
  BY <1>1, <1>2

(* Parts of ListingInv, of a prompt and of a key.                          *)
Listed(u) ==
    /\ u \in snapshot => Sessions(u) \cap tq \subseteq snapshot
    /\ u \notin pending => Sessions(u) \cap tq \subseteq buffer
OfRound(k) == (IsSample(k) /\ k[1] = round) => PromptOf(k) \in Prompts(round) /\ k \in Sessions(PromptOf(k))

(* What is listed or merged of this round is in the queue: nothing removes *)
(* it before the batch is sampled.                                         *)
LEMMA ListingStep ==
    ASSUME BaseInv, ListingInv, [Next]_vars
    PROVE  ListingInv'
<1> SUFFICES ASSUME pc' = "sample"
             PROVE  /\ round' = round
                    /\ \A u \in Prompts(round) \ raised' : Listed(u)'
                    /\ \A k \in buffer' \cup snapshot' : (IsSample(k) /\ k[1] = round) => k \in tq'
                    /\ \A k \in tq' : OfRound(k)
  BY DEF ListingInv, Listed, OfRound
<1>b. Types /\ KnownInv /\ OpenInv /\ DatedInv
  BY DEF BaseInv
<1>k. \A u \in Prompts(round) : u[1] = round /\ ~IsSample(u)
  BY PromptKeys
<1>l. ASSUME NEW u \in Prompts(round), NEW k \in Sessions(u)
      PROVE  k[1] = round /\ IsSample(k) /\ PromptOf(k) = u
  BY PromptKeys
<1>1. CASE Dispatch
  <2>1. /\ pc = "dispatch" /\ round' = round /\ buffer' = buffer \cup Prompts(round)
        /\ pending' = pending \cup Prompts(round) /\ tq' = tq /\ snapshot' = snapshot
    BY <1>1 DEF Dispatch, Register
  <2>2. \A k \in tq \cup snapshot \cup buffer : k[1] # round
    BY <2>1, <1>b DEF KnownInv
  <2>3. \A u \in Prompts(round) : u \notin snapshot' /\ u \in pending'
    BY <2>1, <2>2, <1>k
  <2>4. \A u \in Prompts(round) : Listed(u)'
    BY <2>3 DEF Listed
  <2> QED
    BY <2>1, <2>2, <2>4, <1>k DEF OfRound
<1>2. CASE Moves
  BY <1>2, <1>b, TrainerMoves DEF Moves
<1>3. CASE Others \/ UNCHANGED vars
  <2>1. round' = round /\ pc = "sample" /\ raised \subseteq raised'
    BY <1>3, OthersKeep
  <2>2. /\ \A u \in Prompts(round) \ raised : Listed(u)
        /\ \A k \in buffer \cup snapshot : (IsSample(k) /\ k[1] = round) => k \in tq
        /\ \A k \in tq : OfRound(k)
    BY <2>1 DEF ListingInv, Listed, OfRound
  <2>3. CASE PollList
    <3>1. snapshot' = tq /\ tq' = tq /\ buffer' = buffer /\ pending' = pending
      BY <2>3 DEF PollList, replay
    <3>2. ASSUME NEW u \in Prompts(round) \ raised' PROVE Listed(u)'
      <4>1. Listed(u)
        BY <2>1, <2>2
      <4>2. Sessions(u)' = Sessions(u)
        BY DEF Sessions
      <4> QED
        BY <3>1, <4>1, <4>2 DEF Listed
    <3> QED
      BY <2>1, <2>2, <3>1, <3>2
  <2>4. ASSUME NEW p \in {"train", "val"}, PollAdd(p)
        PROVE  /\ \A u \in Prompts(round) \ raised' : Listed(u)'
               /\ \A k \in buffer' \cup snapshot' : (IsSample(k) /\ k[1] = round) => k \in tq'
               /\ \A k \in tq' : OfRound(k)
    <3> DEFINE K == {k \in snapshot : InPartition(k, p)}
    <3>1. /\ snapshot' = snapshot \ K /\ buffer' = buffer \cup K /\ pending' = pending \ K /\ tq' = tq
          /\ raised' = raised
      BY <2>4 DEF PollAdd, Merge, workers
    <3>2. ASSUME NEW u \in Prompts(round) \ raised' PROVE Listed(u)'
      <4>1. Listed(u)
        BY <2>1, <2>2
      <4>2. Sessions(u)' = Sessions(u)
        BY DEF Sessions
      <4>3. ASSUME NEW k \in Sessions(u), k \in snapshot, u \in snapshot PROVE k \in K <=> u \in K
        BY <4>3, <1>k, <1>l DEF InPartition
      <4> HIDE DEF K
      <4>4. u \in snapshot' => Sessions(u) \cap tq' \subseteq snapshot'
        BY <3>1, <4>1, <4>3 DEF Listed
      <4>5. u \notin pending' => Sessions(u) \cap tq' \subseteq buffer'
        <5>1. CASE u \notin pending
          BY <3>1, <4>1, <5>1 DEF Listed
        <5>2. CASE u \in K
          <6>1. u \in snapshot
            BY <5>2 DEF K
          <6> QED
            BY <3>1, <4>1, <4>3, <5>2, <6>1 DEF Listed
        <5> QED
          BY <3>1, <5>1, <5>2
      <4> QED
        BY <4>2, <4>4, <4>5 DEF Listed
    <3> QED
      BY <2>2, <3>1, <3>2
  <2>5. ASSUME NEW x \in running, SessionEnds(x) \/ SessionRaises(x)
        PROVE  /\ \A u \in Prompts(round) \ raised' : Listed(u)'
               /\ \A k \in buffer' \cup snapshot' : (IsSample(k) /\ k[1] = round) => k \in tq'
               /\ \A k \in tq' : OfRound(k)
    <3>1. /\ snapshot' = snapshot /\ buffer' = buffer /\ pending' = pending
          /\ tq' = tq \/ tq' = tq \cup {x}
      BY <2>5 DEF SessionEnds, SessionRaises, replay
    <3>2. /\ PromptOf(x) \in Prompts(x[1]) /\ x \in Sessions(PromptOf(x))
          /\ PromptOf(x) \in open \cup raised
      BY <1>b, SessionKeys DEF Types, OpenInv
    <3>3. OfRound(x)
      BY <3>2 DEF OfRound
    <3>4. ASSUME NEW u \in Prompts(round) \ raised' PROVE Listed(u)'
      <4>1. Listed(u) /\ u \notin raised
        BY <2>1, <2>2
      <4>2. Sessions(u)' = Sessions(u)
        BY DEF Sessions
      <4>3. x \in Sessions(u) => u \in pending /\ u \notin snapshot
        BY <3>2, <4>1, <1>l, <1>b DEF OpenInv
      <4> QED
        BY <3>1, <4>1, <4>2, <4>3 DEF Listed
    <3> QED
      BY <2>2, <3>1, <3>3, <3>4
  <2>6. ASSUME NEW x \in open, PromptEnds(x)
        PROVE  /\ \A u \in Prompts(round) \ raised' : Listed(u)'
               /\ \A k \in buffer' \cup snapshot' : (IsSample(k) /\ k[1] = round) => k \in tq'
               /\ \A k \in tq' : OfRound(k)
    <3>1. /\ snapshot' = snapshot /\ buffer' = buffer /\ pending' = pending
          /\ tq' = tq \cup {x}
      BY <2>6 DEF PromptEnds, PutResult, replay
    <3>2. ~IsSample(x)
      BY <1>b, <1>k DEF Types
    <3>3. ASSUME NEW u \in Prompts(round) \ raised' PROVE Listed(u)'
      <4>1. Listed(u)
        BY <2>1, <2>2
      <4>2. Sessions(u)' = Sessions(u)
        BY DEF Sessions
      <4>3. x \notin Sessions(u)
        BY <3>2, <1>l
      <4> QED
        BY <3>1, <4>1, <4>2, <4>3 DEF Listed
    <3> QED
      BY <2>2, <3>1, <3>2, <3>3 DEF OfRound
  <2>7. CASE UNCHANGED vars
    <3>1. /\ snapshot' = snapshot /\ buffer' = buffer /\ pending' = pending /\ tq' = tq
      BY <2>7 DEF vars, replay
    <3>2. ASSUME NEW u \in Prompts(round) \ raised' PROVE Listed(u)'
      <4>1. Listed(u)
        BY <2>1, <2>2
      <4>2. Sessions(u)' = Sessions(u)
        BY DEF Sessions
      <4> QED
        BY <3>1, <4>1, <4>2 DEF Listed
    <3> QED
      BY <2>1, <2>2, <3>1, <3>2
  <2> QED
    BY <1>3, <2>1, <2>3, <2>4, <2>5, <2>6, <2>7 DEF Others
<1> QED
  BY <1>1, <1>2, <1>3, KindsOfStep

(* The parts of BatchExact, after a step.                                  *)
LEMMA BatchStep ==
    ASSUME ValBatches <= 1, BaseInv, ListingInv, BatchExact, [Next]_vars
    PROVE  BatchExact'
<1> SUFFICES ASSUME pc' = "balance" \/ pc' = "clear"
             PROVE  /\ round' = round
                    /\ open' = {}
                    /\ \A k \in batch' : k[1] = round
                    /\ batch' \subseteq tq'
                    /\ \A u \in Prompts(round) \ raised' :
                            Sessions(u) \cap (tq' \cup running') \subseteq batch'
  <2>1. Prompts(round)' = {<<round', i, 0>> : i \in 1..BatchSize} /\ \A u : Sessions(u)' = Sessions(u)
    BY DEF Prompts, Sessions
  <2> QED
    BY <2>1 DEF BatchExact, Prompts
<1>b. Types /\ KnownInv /\ OpenInv /\ DatedInv
  BY DEF BaseInv
<1>1. CASE Dispatch
  BY <1>1 DEF Dispatch
<1>2. CASE Moves
  <2>1. GetSample
    <3>1. ASSUME Advance PROVE FALSE
      BY <3>1 DEF Advance
    <3> QED
      BY <1>2, <3>1 DEF Moves, Balance, TrainStep, Clear, NextBatch, ClearStep, NextStep
  <2>2. open = {} /\ \A u \in Prompts(round) : u \notin pending
    BY <2>1, SampleEnds
  <2>3. /\ pc = "sample" /\ batch' = {k \in Current : IsSample(k)}
        /\ round' = round /\ tq' = tq /\ running' = running /\ open' = open /\ raised' = raised
    BY <2>1 DEF GetSample, workers
  <2>4. ASSUME NEW k \in Current PROVE k[1] = round /\ k \in buffer
    <3>1. k \in buffer /\ PartitionOf(k[1]) = PartitionOf(round) /\ StepOf(k[1]) = StepOf(round)
      BY DEF Current, InPartition
    <3>2. k[1] \in Nat /\ round \in Nat
      BY <3>1, <1>b DEF KnownInv, Types
    <3> QED
      BY <3>1, <3>2, SameRound
  <2>5. ASSUME NEW k \in batch' PROVE k[1] = round /\ k \in tq
    BY <2>3, <2>4 DEF ListingInv
  <2>6. ASSUME NEW u \in Prompts(round) \ raised PROVE Sessions(u) \cap (tq \cup running) \subseteq batch'
    <3>1. Sessions(u) \cap running = {}
      BY <2>2, NoLateSession
    <3>2. Sessions(u) \cap tq \subseteq buffer
      BY <2>2, <2>3 DEF ListingInv
    <3>3. ASSUME NEW k \in Sessions(u), k \in tq PROVE k \in batch'
      <4>1. k \in buffer /\ k[1] = round /\ IsSample(k)
        BY <3>2, <3>3, PromptKeys
      <4> QED
        BY <2>3, <4>1 DEF Current, InPartition
    <3> QED
      BY <3>1, <3>3
  <2> QED
    BY <2>2, <2>3, <2>5, <2>6
<1>3. CASE Others \/ UNCHANGED vars
  <2>1. /\ round' = round /\ pc' = pc /\ batch' = batch /\ raised \subseteq raised' /\ tq \subseteq tq'
    BY <1>3, OthersKeep
  <2>2. open = {}
    BY <2>1, <1>b DEF OpenInv
  <2>3. /\ \A k \in batch : k[1] = round
        /\ batch \subseteq tq
        /\ \A u \in Prompts(round) \ raised : Sessions(u) \cap (tq \cup running) \subseteq batch
    BY <2>1 DEF BatchExact
  <2>4. open' = open /\ tq' \cup running' \subseteq tq \cup running
    BY <1>3, <2>2 DEF Others, PollList, PollAdd, SessionEnds, SessionRaises, vars, workers
  <2> QED
    BY <2>1, <2>2, <2>3, <2>4
<1> QED
  BY <1>1, <1>2, <1>3, KindsOfStep

(* The places of the loop of fit(), in order.                              *)
LEMMA PlaceStep ==
    ASSUME ValBatches <= 1, BaseInv, PlaceInv, [Next]_vars
    PROVE  PlaceInv'
<1>n. round \in Nat /\ ValBatches \in Nat
  BY SizeAssumption DEF BaseInv, Types
<1>f. /\ PartitionOf(round) \in {"train", "val"} /\ StepOf(round) \in Nat
      /\ PartitionOf(round) = "val" =>
            ValBatches = 1 /\ round % (ValBatches + 1) = ValBatches - 1
  BY <1>n, RoundFacts
<1>0. ASSUME pc' \in {"balance", "train"} => PartitionOf(round') = "train",
             pc' \in {"clear", "remove"} => PartitionOf(round') = "val",
             (PartitionOf(round') = "train" /\ pc' \in {"dispatch", "sample", "balance", "train"})
                => trained' = {},
             (PartitionOf(round') = "val" /\ StepOf(round') = 0) => trained' = {}
      PROVE  PlaceInv'
  <2>1. PartitionOf(round)' = PartitionOf(round') /\ StepOf(round)' = StepOf(round')
    BY DEF PartitionOf, StepOf
  <2> QED
    BY <1>0, <2>1 DEF PlaceInv
<1>1. CASE Dispatch
  <2>1. pc = "dispatch" /\ pc' = "sample" /\ round' = round /\ trained' = trained
    BY <1>1 DEF Dispatch
  <2> QED
    BY <1>0, <2>1 DEF PlaceInv
<1>2. CASE Others \/ UNCHANGED vars
  <2>1. round' = round /\ pc' = pc /\ trained' = trained
    BY <1>2, OthersKeep
  <2> QED
    BY <1>0, <2>1 DEF PlaceInv
<1>3. CASE GetSample
  <2>1. /\ pc = "sample" /\ round' = round /\ trained' = trained
        /\ \/ pc' = "raised"
           \/ pc' = "balance" /\ PartitionOf(round) = "train"
           \/ pc' = "clear" /\ PartitionOf(round) # "train"
    BY <1>3 DEF GetSample
  <2> QED
    BY <1>0, <1>f, <2>1 DEF PlaceInv
<1>4. CASE Balance \/ Clear \/ ClearStep
  <2>1. /\ round' = round /\ trained' = trained
        /\ \/ pc = "balance" /\ pc' \in {"train", "empty"}
           \/ pc = "clear" /\ pc' \in {"remove", "raised", "empty"}
           \/ pc = "metrics" /\ pc' \in {"forget", "raised"}
    BY <1>4 DEF Balance, Clear, ClearStep
  <2> QED
    BY <1>0, <2>1 DEF PlaceInv
<1>5. CASE TrainStep
  <2>1. /\ pc = "train" /\ trained' = batch
        /\ \/ pc' \in {"raised", "metrics"} /\ round' = round
           \/ ValBatches # 0 /\ Advance
    BY <1>5 DEF TrainStep
  <2>2. PartitionOf(round) = "train"
    BY <2>1 DEF PlaceInv
  <2>3. CASE pc' \in {"raised", "metrics"} /\ round' = round
    BY <1>0, <2>2, <2>3
  <2>4. CASE ValBatches # 0 /\ Advance
    <3>1. \/ pc' = "done" /\ round' = round
          \/ pc' = "dispatch" /\ round' = round + 1
      BY <2>4 DEF Advance
    <3>2. ValBatches = 1
      BY <2>4, <1>n
    <3>3. PartitionOf(round + 1) = "val" /\ StepOf(round + 1) # 0
      BY <3>2, <2>2, <1>n, AfterTraining
    <3> QED
      BY <1>0, <2>2, <3>1, <3>3
  <2> QED
    BY <2>1, <2>3, <2>4
<1>6. CASE NextBatch
  <2>1. /\ pc = "remove" /\ trained' = trained
        /\ \/ pc' = "metrics" /\ round' = round
           \/ ~ValidationEnds /\ Advance
    BY <1>6 DEF NextBatch
  <2>2. PartitionOf(round) = "val"
    BY <2>1 DEF PlaceInv
  <2>3. CASE pc' = "metrics" /\ round' = round
    BY <1>0, <2>1, <2>2, <2>3 DEF PlaceInv
  <2>4. CASE ~ValidationEnds /\ Advance
    <3>1. StepOf(round) = 0
      BY <2>2, <2>4, <1>f DEF ValidationEnds
    <3>2. trained' = {}
      BY <2>1, <2>2, <3>1 DEF PlaceInv
    <3>3. pc' \in {"done", "dispatch"}
      BY <2>4 DEF Advance
    <3> QED
      BY <1>0, <3>2, <3>3
  <2> QED
    BY <2>1, <2>3, <2>4
<1>7. CASE NextStep
  <2>1. trained' = {} /\ pc' \in {"done", "dispatch"}
    BY <1>7 DEF NextStep, Advance
  <2> QED
    BY <1>0, <2>1
<1> QED
  BY <1>1, <1>2, <1>3, <1>4, <1>5, <1>6, <1>7, KindsOfStep DEF Moves

(* Why a sample is still in the queue, as LeftInv has it, after a step.    *)
LEMMA LeftStep ==
    ASSUME ValBatches <= 1, BaseInv, ListingInv, PlaceInv, LeftInv, BatchExact', [Next]_vars
    PROVE  LeftInv'
<1> SUFFICES ASSUME pc' # "raised", NEW k \in tq', IsSample(k), PromptOf(k) \notin raised'
             PROVE  \/ k \in trained' /\ pc' # "forget"
                    \/ pc' = "sample" /\ k[1] = round'
                    \/ pc' \in {"balance", "train", "clear"} /\ k \in batch'
  BY DEF LeftInv, IsSample, PromptOf
<1>b. Types /\ KnownInv /\ OpenInv /\ DatedInv
  BY DEF BaseInv
<1>i. ASSUME pc # "raised", k \in tq, PromptOf(k) \notin raised
      PROVE  \/ k \in trained /\ pc # "forget"
             \/ pc = "sample" /\ k[1] = round
             \/ pc \in {"balance", "train", "clear"} /\ k \in batch
  BY <1>i DEF LeftInv
<1>1. CASE Dispatch
  <2>1. pc = "dispatch" /\ pc' = "sample" /\ trained' = trained /\ tq' = tq /\ raised' = raised
    BY <1>1 DEF Dispatch
  <2> QED
    BY <1>i, <2>1
<1>2. CASE Others \/ UNCHANGED vars
  <2>1. round' = round /\ pc' = pc /\ batch' = batch /\ trained' = trained /\ raised \subseteq raised'
    BY <1>2, OthersKeep
  <2>2. CASE k \in tq
    BY <1>i, <2>1, <2>2
  <2>3. CASE k \notin tq
    <3>1. k \in running \/ k \in open
      BY <1>2, <2>3 DEF Others, PollList, PollAdd, SessionEnds, SessionRaises, PromptEnds,
                        PutResult, vars
    <3>2. k \notin open
      BY <1>b, PromptKeys DEF Types
    <3>3. k \in running /\ PromptOf(k) \in open
      BY <2>1, <3>1, <3>2, <1>b DEF OpenInv
    <3>4. pc = "sample" /\ PromptOf(k) \in Prompts(round)
      BY <3>3, <1>b DEF OpenInv, Types
    <3>5. PromptOf(k)[1] = round
      BY <3>4, PromptKeys
    <3>6. k[1] = round
      BY <3>5 DEF PromptOf
    <3> QED
      BY <2>1, <3>4, <3>6
  <2> QED
    BY <2>2, <2>3
<1>3. CASE GetSample
  <2>1. /\ pc = "sample" /\ round' = round /\ tq' = tq /\ raised' = raised /\ trained' = trained
        /\ pc' \in {"balance", "clear"}
    BY <1>3 DEF GetSample, workers
  <2>2. CASE k \in trained
    BY <2>1, <2>2
  <2>3. CASE k[1] = round
    <3>1. PromptOf(k) \in Prompts(round) /\ k \in Sessions(PromptOf(k))
      BY <2>1, <2>3 DEF ListingInv
    <3>2. \A u \in Prompts(round) \ raised' : Sessions(u) \cap (tq' \cup running') \subseteq batch'
      <4>1. Prompts(round)' = Prompts(round) /\ \A u : Sessions(u)' = Sessions(u)
        BY <2>1 DEF Prompts, Sessions
      <4> QED
        BY <2>1, <4>1 DEF BatchExact
    <3>3. k \in batch'
      BY <3>1, <3>2
    <3> QED
      BY <2>1, <3>3
  <2> QED
    BY <1>i, <2>1, <2>2, <2>3
<1>4. CASE Balance
  <2>1. /\ pc = "balance" /\ batch' = batch \cup Padding /\ tq' = tq \cup Padding
        /\ trained' = trained /\ raised' = raised
        /\ pc' = "train" \/ (pc' = "empty" /\ batch' = {})
    BY <1>4 DEF Balance, Partitionable, workers
  <2> QED
    BY <1>i, <2>1
<1>5. CASE TrainStep
  <2>1. /\ pc = "train" /\ trained' = batch /\ tq' = tq /\ raised' = raised
    BY <1>5 DEF TrainStep, workers
  <2>2. pc' # "forget"
    BY <1>5 DEF TrainStep, Advance
  <2>3. trained = {}
    BY <2>1 DEF PlaceInv
  <2> QED
    BY <1>i, <2>1, <2>2, <2>3
<1>6. CASE Clear
  <2>1. /\ pc = "clear" /\ trained' = trained /\ raised' = raised /\ pc' \in {"remove", "empty"}
        /\ tq' = tq \ batch
    BY <1>6 DEF Clear, KvClear, workers
  <2> QED
    BY <1>i, <2>1
<1>7. CASE NextBatch
  <2>1. /\ pc = "remove" /\ tq' = tq /\ trained' = trained /\ raised' = raised
        /\ pc' # "forget"
    BY <1>7 DEF NextBatch, Advance, workers
  <2> QED
    BY <1>i, <2>1
<1>8. CASE ClearStep
  <2>1. /\ pc = "metrics" /\ pc' = "forget" /\ tq' = tq \ trained /\ raised' = raised
    BY <1>8 DEF ClearStep, KvClear, workers
  <2> QED
    BY <1>i, <2>1
<1>9. CASE NextStep
  <2>1. pc = "forget" /\ tq' = tq /\ raised' = raised
    BY <1>9 DEF NextStep, workers
  <2> QED
    BY <1>i, <2>1
<1> QED
  BY <1>1, <1>2, <1>3, <1>4, <1>5, <1>6, <1>7, <1>8, <1>9, KindsOfStep DEF Moves

(* The inductive invariant: with at most one validation batch a listing of *)
(* the queue, however old when it is merged, never splits a prompt from    *)
(* its samples, and what a batch is made of is in the queue.               *)
THEOREM Invariance ==
    ASSUME ValBatches <= 1
    PROVE  Spec => []IInv
<1>1. Init => IInv
  <2> SUFFICES ASSUME Init PROVE IInv
    OBVIOUS
  <2>1. BaseInv
    BY BaseInit
  <2>2. ListingInv /\ BatchExact /\ PlaceInv /\ LeftInv
    BY DEF Init, ListingInv, BatchExact, PlaceInv, LeftInv
  <2> QED
    BY <2>1, <2>2 DEF IInv, BaseInv
<1>2. IInv /\ [Next]_vars => IInv'
  <2> SUFFICES ASSUME IInv, [Next]_vars PROVE IInv'
    OBVIOUS
  <2>1. BaseInv /\ ListingInv /\ BatchExact /\ PlaceInv /\ LeftInv
    BY DEF IInv, BaseInv
  <2>2. BaseInv'
    BY <2>1, BaseStep
  <2>3. ListingInv' /\ BatchExact' /\ PlaceInv'
    BY <2>1, ListingStep, BatchStep, PlaceStep
  <2>4. LeftInv'
    BY <2>1, <2>3, LeftStep
  <2> QED
    BY <2>2, <2>3, <2>4 DEF IInv, BaseInv
<1> QED
  BY <1>1, <1>2, PTL DEF Spec

(* A batch that is trained on or validated is exact: no prompt of it is    *)
(* open, it holds only samples of its round, all of them in the queue, and *)
(* all samples of every prompt of which no session raised.                 *)
THEOREM BatchesExact ==
    ASSUME ValBatches <= 1
    PROVE  Spec => []BatchExact
BY Invariance, PTL DEF IInv

(* The samples of a run without errors leave the queue with their batch.   *)
THEOREM QueueDrains ==
    ASSUME ValBatches <= 1
    PROVE  Spec => []QueueDrained
<1>1. IInv => QueueDrained
  BY DEF IInv, LeftInv, QueueDrained
<1> QED
  BY <1>1, Invariance, PTL
=============================================================================
