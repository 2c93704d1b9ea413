------------------------- MODULE RewardLimiterProofs -------------------------
(***************************************************************************)
(* Proofs about RewardLimiter for any requests, any length of a second,    *)
(* any buckets, any number of slots and threads, and whatever reward       *)
(* functions hang: a bucket lets through no more than it refills and one   *)
(* burst.                                                                  *)
(***************************************************************************)
EXTENDS RewardLimiter, SequenceTheorems, TLAPS

(* What a bucket may let through at once.                                  *)
Burst(b) == Max({Second, cost[b]})

(* Every variable has its type; a request at a bucket is at one there is.  *)
Types ==
    /\ cost \in Seq(Nat \ {0}) /\ isAsync \in BOOLEAN
    /\ tokens \in [Buckets -> Int] /\ elapsed \in [Buckets -> Nat] /\ meter \in [Buckets -> Nat]
    /\ pc \in [Requests -> {"new", "decoding", "bucket", "queued", "computing", "scored"}]
    /\ stage \in [Requests -> Nat] /\ paid \in [Requests -> BOOLEAN] /\ sleep \in [Requests -> Nat]
    /\ \A r \in Requests : pc[r] \in {"new", "decoding"} => stage[r] = 1
    /\ \A r \in Requests : pc[r] = "bucket" => stage[r] \in Buckets

(* A bucket has what it has not let through, and no request is let through *)
(* twice for what it refills.                                              *)
BucketInv ==
    \A b \in Buckets :
        /\ meter[b] + Refilled(b) <= Burst(b) /\ meter[b] <= Burst(b)
        /\ cost[b] <= Second => tokens[b] >= 0

(* Only requests that cost more than a full bucket take tokens ahead.      *)
Ahead(r, b) == pc[r] = "bucket" /\ stage[r] = b /\ paid[r]

(* A request that sleeps for tokens it has taken wakes when the bucket has *)
(* recovered from it and what was let through before has drained.          *)
AheadInv ==
    \A r \in Requests :
        /\ paid[r] => pc[r] = "bucket"
        /\ \A b \in Buckets : Ahead(r, b) =>
            /\ cost[b] > Second
            /\ sleep[r] + tokens[b] + elapsed[b] <= 0
            /\ meter[b] <= sleep[r]

(* Requests that sleep for their tokens wake at least one refill apart.    *)
ApartInv ==
    \A b \in Buckets : \A r, q \in Requests :
        (r # q /\ Ahead(r, b) /\ Ahead(q, b)) =>
            sleep[r] + cost[b] <= sleep[q] \/ sleep[q] + cost[b] <= sleep[r]

IInv == Types /\ BucketInv /\ AheadInv /\ ApartInv
-----------------------------------------------------------------------------
(* Min and Max of the community modules, on two numbers.                   *)
LEMMA MinOf ==
    ASSUME NEW x \in Int, NEW y \in Int
    PROVE  Min({x, y}) = IF x <= y THEN x ELSE y
<1>1. CASE x <= y
  BY <1>1 DEF Min
<1>2. CASE ~(x <= y)
  BY <1>2 DEF Min
<1> QED
  BY <1>1, <1>2

(* The maximum of two numbers.                                             *)
LEMMA MaxOf ==
    ASSUME NEW x \in Int, NEW y \in Int
    PROVE  Max({x, y}) = IF x <= y THEN y ELSE x
<1>1. CASE x <= y
  BY <1>1 DEF Max
<1>2. CASE ~(x <= y)
  BY <1>2 DEF Max
<1> QED
  BY <1>1, <1>2

(* What a bucket holds once it is refilled.                                *)
Cap(x) == IF Second <= x THEN Second ELSE x

(* The numbers of one bucket.                                              *)
LEMMA Numbers ==
    ASSUME Types, NEW b \in Buckets
    PROVE  /\ Second \in Nat /\ Second >= 1 /\ cost[b] \in Nat /\ cost[b] >= 1
           /\ tokens[b] \in Int /\ elapsed[b] \in Nat /\ meter[b] \in Nat
           /\ Refilled(b) = Cap(tokens[b] + elapsed[b]) /\ Refilled(b) \in Int
           /\ Burst(b) = IF Second <= cost[b] THEN cost[b] ELSE Second
<1>1. /\ Second \in Nat /\ Second >= 1 /\ cost[b] \in Nat /\ cost[b] >= 1
      /\ tokens[b] \in Int /\ elapsed[b] \in Nat /\ meter[b] \in Nat
  <2>1. cost[b] \in Nat \ {0}
    BY ElementOfSeq, LenProperties DEF Types, Buckets
  <2> QED
    BY <2>1, LimiterAssumption DEF Types
<1>2. Refilled(b) = Cap(tokens[b] + elapsed[b])
  BY <1>1, MinOf DEF Refilled, Cap
<1>3. Burst(b) = IF Second <= cost[b] THEN cost[b] ELSE Second
  BY <1>1, MaxOf DEF Burst
<1> QED
  BY <1>1, <1>2, <1>3 DEF Cap

(* What a request that is at a bucket does there.                          *)
LEMMA AtItsBucket ==
    ASSUME Types, NEW r \in Requests, pc[r] = "bucket"
    PROVE  stage[r] \in Buckets /\ stage[r] \in Nat /\ Buckets = 1..Len(cost) /\ Len(cost) \in Nat
<1>1. Buckets = 1..Len(cost) /\ Len(cost) \in Nat
  BY LenProperties DEF Types, Buckets
<1> QED
  BY <1>1 DEF Types

(* Deployments do not change.                                              *)
LEMMA ConfigKept ==
    ASSUME [Next]_vars
    PROVE  cost' = cost /\ isAsync' = isAsync /\ Buckets' = Buckets
BY DEF Next, vars, config, Tick, Arrive, Acquire, Overdraw, SleptForTokens, TakeTokens, TryLater,
       StartJob, Decoded, Compute, Score,
       TimeoutExpires, StrayEnds, Buckets

(* Every step keeps the types.                                             *)
LEMMA TypesStep ==
    ASSUME Types, [Next]_vars
    PROVE  Types'
<1>c. cost' = cost /\ isAsync' = isAsync /\ Buckets' = Buckets
  BY ConfigKept
<1>l. Buckets = 1..Len(cost) /\ Len(cost) \in Nat
  BY LenProperties DEF Types, Buckets
<1>1. CASE Tick
  <2>1. elapsed' \in [Buckets -> Nat] /\ meter' \in [Buckets -> Nat] /\ sleep' \in [Requests -> Nat]
    <3>1. \A b \in Buckets : elapsed[b] \in Nat /\ meter[b] \in Nat
      BY DEF Types
    <3>2. \A r \in Requests : sleep[r] \in Nat
      BY DEF Types
    <3> QED
      BY <1>1, <3>1, <3>2 DEF Tick
  <2> QED
    BY <1>1, <1>c, <2>1 DEF Tick, Types
<1>2. ASSUME NEW r \in Requests, Overdraw(r) PROVE Types'
  <2>1. stage[r] \in Buckets
    BY <1>2, AtItsBucket DEF Overdraw, AtBucket
  <2>2. /\ tokens' = [tokens EXCEPT ![stage[r]] = Refilled(stage[r]) - cost[stage[r]]]
        /\ elapsed' = [elapsed EXCEPT ![stage[r]] = 0]
        /\ sleep' = [sleep EXCEPT ![r] = cost[stage[r]] - Refilled(stage[r])]
        /\ paid' = [paid EXCEPT ![r] = TRUE]
        /\ cost[stage[r]] > Second
        /\ UNCHANGED <<pc, stage, meter>>
    BY <1>2 DEF Overdraw, Refill, WaitTime
  <2>3. Refilled(stage[r]) - cost[stage[r]] \in Int /\ cost[stage[r]] - Refilled(stage[r]) \in Nat
    <3>1. /\ Second \in Nat /\ cost[stage[r]] \in Nat /\ Refilled(stage[r]) \in Int
          /\ tokens[stage[r]] \in Int /\ elapsed[stage[r]] \in Nat
          /\ Refilled(stage[r]) = Cap(tokens[stage[r]] + elapsed[stage[r]])
      BY <2>1, Numbers
    <3>2. Refilled(stage[r]) <= Second
      BY <3>1 DEF Cap
    <3> QED
      BY <2>2, <3>1, <3>2
  <2> QED
    BY <1>c, <2>1, <2>2, <2>3 DEF Types
<1>3. ASSUME NEW r \in Requests, SleptForTokens(r) PROVE Types'
  <2>1. stage[r] \in Buckets /\ stage[r] \in Nat
    BY <1>3, AtItsBucket DEF SleptForTokens, AtBucket
  <2>2. cost[stage[r]] \in Nat /\ meter[stage[r]] \in Nat
    BY <2>1, Numbers
  <2>3. /\ pc' = [pc EXCEPT ![r] = Place(stage[r])]
        /\ stage' = [stage EXCEPT ![r] = @ + 1]
        /\ meter' = [meter EXCEPT ![stage[r]] = @ + cost[stage[r]]]
        /\ paid' = [paid EXCEPT ![r] = FALSE]
        /\ UNCHANGED <<tokens, elapsed, sleep>>
    BY <1>3 DEF SleptForTokens, PassedTo, bucket
  <2>4. /\ Place(stage[r]) \in {"bucket", "queued"}
        /\ Place(stage[r]) = "bucket" => stage[r] + 1 \in Buckets
    BY <1>l, <2>1 DEF Place
  <2>5. /\ meter' \in [Buckets -> Nat] /\ tokens' \in [Buckets -> Int]
        /\ elapsed' \in [Buckets -> Nat]
    BY <2>1, <2>2, <2>3 DEF Types
  <2>6. /\ pc' \in [Requests -> {"new", "decoding", "bucket", "queued", "computing", "scored"}]
        /\ stage' \in [Requests -> Nat] /\ paid' \in [Requests -> BOOLEAN]
        /\ sleep' \in [Requests -> Nat]
    BY <2>1, <2>3, <2>4 DEF Types
  <2>7. ASSUME NEW q \in Requests
        PROVE  /\ pc'[q] \in {"new", "decoding"} => stage'[q] = 1
               /\ pc'[q] = "bucket" => stage'[q] \in Buckets
    <3>1. CASE q = r
      BY <2>1, <2>3, <2>4, <3>1 DEF Types
    <3>2. CASE q # r
      BY <2>3, <3>2 DEF Types
    <3> QED
      BY <3>1, <3>2
  <2>8. cost' \in Seq(Nat \ {0}) /\ isAsync' \in BOOLEAN
    BY <1>c DEF Types
  <2> QED
    BY <1>c, <2>5, <2>6, <2>7, <2>8 DEF Types
<1>4. ASSUME NEW r \in Requests, TakeTokens(r) PROVE Types'
  <2>1. stage[r] \in Buckets /\ stage[r] \in Nat
    BY <1>4, AtItsBucket DEF TakeTokens, AtBucket
  <2>2. cost[stage[r]] \in Nat /\ meter[stage[r]] \in Nat /\ Refilled(stage[r]) \in Int
    BY <2>1, Numbers
  <2>3. /\ pc' = [pc EXCEPT ![r] = Place(stage[r])]
        /\ stage' = [stage EXCEPT ![r] = @ + 1]
        /\ meter' = [meter EXCEPT ![stage[r]] = @ + cost[stage[r]]]
        /\ tokens' = [tokens EXCEPT ![stage[r]] = Refilled(stage[r]) - cost[stage[r]]]
        /\ elapsed' = [elapsed EXCEPT ![stage[r]] = 0]
        /\ UNCHANGED <<paid, sleep>>
    BY <1>4 DEF TakeTokens, PassedTo, Refill
  <2>4. /\ Place(stage[r]) \in {"bucket", "queued"}
        /\ Place(stage[r]) = "bucket" => stage[r] + 1 \in Buckets
    BY <1>l, <2>1 DEF Place
  <2>5. /\ meter' \in [Buckets -> Nat] /\ tokens' \in [Buckets -> Int]
        /\ elapsed' \in [Buckets -> Nat]
    BY <2>1, <2>2, <2>3, SMTT(30) DEF Types
  <2>6. /\ pc' \in [Requests -> {"new", "decoding", "bucket", "queued", "computing", "scored"}]
        /\ stage' \in [Requests -> Nat] /\ paid' \in [Requests -> BOOLEAN]
        /\ sleep' \in [Requests -> Nat]
    BY <2>1, <2>3, <2>4 DEF Types
  <2>7. ASSUME NEW q \in Requests
        PROVE  /\ pc'[q] \in {"new", "decoding"} => stage'[q] = 1
               /\ pc'[q] = "bucket" => stage'[q] \in Buckets
    <3>1. CASE q = r
      BY <2>1, <2>3, <2>4, <3>1 DEF Types
    <3>2. CASE q # r
      BY <2>3, <3>2 DEF Types
    <3> QED
      BY <3>1, <3>2
  <2>8. cost' \in Seq(Nat \ {0}) /\ isAsync' \in BOOLEAN
    BY <1>c DEF Types
  <2> QED
    BY <1>c, <2>5, <2>6, <2>7, <2>8 DEF Types
<1>5. ASSUME NEW r \in Requests, TryLater(r) PROVE Types'
  <2>1. stage[r] \in Buckets
    BY <1>5, AtItsBucket DEF TryLater, AtBucket
  <2>2. cost[stage[r]] \in Nat /\ Refilled(stage[r]) \in Int
    BY <2>1, Numbers
  <2>3. /\ tokens' = [tokens EXCEPT ![stage[r]] = Refilled(stage[r]) - 0]
        /\ elapsed' = [elapsed EXCEPT ![stage[r]] = 0]
        /\ sleep' = [sleep EXCEPT ![r] = cost[stage[r]] - Refilled(stage[r])]
        /\ Refilled(stage[r]) < cost[stage[r]]
        /\ UNCHANGED <<pc, stage, paid, meter>>
    BY <1>5 DEF TryLater, Refill, WaitTime
  <2>4. Refilled(stage[r]) - 0 \in Int /\ cost[stage[r]] - Refilled(stage[r]) \in Nat
    BY <2>2, <2>3
  <2> QED
    BY <1>c, <2>1, <2>3, <2>4 DEF Types
<1>6. ASSUME NEW r \in Requests, Decoded(r) PROVE Types'
  <2>1. Place(0) \in {"bucket", "queued"} /\ (Place(0) = "bucket" => 1 \in Buckets)
    BY <1>l DEF Place
  <2> QED
    BY <1>6, <1>c, <2>1 DEF Decoded, Types, bucket
<1>7. ASSUME NEW r \in Requests,
             Arrive(r) \/ Compute(r) \/ Score(r) \/ TimeoutExpires(r) \/ StrayEnds(r)
      PROVE  Types'
  BY <1>7, <1>c DEF Arrive, Compute, Score, TimeoutExpires, Expires, StrayEnds, Types, bucket
<1>8. CASE StartJob \/ UNCHANGED vars
  BY <1>8, <1>c DEF StartJob, vars, bucket, Types
<1> QED
  BY <1>1, <1>2, <1>3, <1>4, <1>5, <1>6, <1>7, <1>8 DEF Next, Acquire
-----------------------------------------------------------------------------
(* The steps, bucket by bucket and request by request.                     *)

(* A request that costs more than a full bucket takes its tokens ahead and *)
(* sleeps until the bucket has recovered.                                  *)
LEMMA OverdrawEffect ==
    ASSUME Types, NEW r \in Requests, Overdraw(r)
    PROVE  /\ stage[r] \in Buckets /\ pc[r] = "bucket" /\ ~paid[r] /\ cost[stage[r]] > Second
           /\ \A b \in Buckets :
                /\ tokens'[b] = IF b = stage[r] THEN Refilled(b) - cost[b] ELSE tokens[b]
                /\ elapsed'[b] = IF b = stage[r] THEN 0 ELSE elapsed[b]
                /\ meter'[b] = meter[b]
           /\ \A q \in Requests :
                /\ sleep'[q] = IF q = r THEN cost[stage[r]] - Refilled(stage[r]) ELSE sleep[q]
                /\ paid'[q] = (q = r \/ paid[q])
                /\ pc'[q] = pc[q] /\ stage'[q] = stage[q]
<1>1. stage[r] \in Buckets
  BY AtItsBucket DEF Overdraw, AtBucket
<1>2. /\ tokens' = [tokens EXCEPT ![stage[r]] = Refilled(stage[r]) - cost[stage[r]]]
      /\ elapsed' = [elapsed EXCEPT ![stage[r]] = 0]
      /\ sleep' = [sleep EXCEPT ![r] = cost[stage[r]] - Refilled(stage[r])]
      /\ paid' = [paid EXCEPT ![r] = TRUE]
      /\ cost[stage[r]] > Second /\ pc[r] = "bucket" /\ ~paid[r]
      /\ pc' = pc /\ stage' = stage /\ meter' = meter
  BY DEF Overdraw, Refill, WaitTime, AtBucket
<1>3. ASSUME NEW b \in Buckets
      PROVE  /\ tokens'[b] = IF b = stage[r] THEN Refilled(b) - cost[b] ELSE tokens[b]
             /\ elapsed'[b] = IF b = stage[r] THEN 0 ELSE elapsed[b]
             /\ meter'[b] = meter[b]
  BY <1>2 DEF Types
<1>4. ASSUME NEW q \in Requests
      PROVE  /\ sleep'[q] = IF q = r THEN cost[stage[r]] - Refilled(stage[r]) ELSE sleep[q]
             /\ paid'[q] = (q = r \/ paid[q])
             /\ pc'[q] = pc[q] /\ stage'[q] = stage[q]
  BY <1>2 DEF Types
<1> QED
  BY <1>1, <1>2, <1>3, <1>4

(* It is let through when it wakes.                                        *)
LEMMA SleptEffect ==
    ASSUME Types, NEW r \in Requests, SleptForTokens(r)
    PROVE  /\ stage[r] \in Buckets /\ pc[r] = "bucket" /\ paid[r] /\ sleep[r] = 0
           /\ \A b \in Buckets :
                /\ tokens'[b] = tokens[b] /\ elapsed'[b] = elapsed[b]
                /\ meter'[b] = IF b = stage[r] THEN meter[b] + cost[b] ELSE meter[b]
           /\ \A q \in Requests :
                /\ sleep'[q] = sleep[q] /\ paid'[q] = (q # r /\ paid[q])
                /\ q # r => pc'[q] = pc[q] /\ stage'[q] = stage[q]
<1>1. stage[r] \in Buckets
  BY AtItsBucket DEF SleptForTokens, AtBucket
<1>2. /\ meter' = [meter EXCEPT ![stage[r]] = @ + cost[stage[r]]]
      /\ paid' = [paid EXCEPT ![r] = FALSE]
      /\ pc[r] = "bucket" /\ paid[r] /\ sleep[r] = 0
      /\ tokens' = tokens /\ elapsed' = elapsed /\ sleep' = sleep
  BY DEF SleptForTokens, PassedTo, bucket, AtBucket
<1>3. /\ pc' = [pc EXCEPT ![r] = Place(stage[r])] /\ stage' = [stage EXCEPT ![r] = @ + 1]
  BY DEF SleptForTokens, PassedTo
<1>4. ASSUME NEW b \in Buckets
      PROVE  meter'[b] = IF b = stage[r] THEN meter[b] + cost[b] ELSE meter[b]
  BY <1>2 DEF Types
<1>5. ASSUME NEW q \in Requests
      PROVE  /\ paid'[q] = (q # r /\ paid[q])
             /\ q # r => pc'[q] = pc[q] /\ stage'[q] = stage[q]
  BY <1>2, <1>3 DEF Types
<1> QED
  BY <1>1, <1>2, <1>4, <1>5

(* A request that costs no more than the bucket holds takes its tokens and *)
(* is let through.                                                         *)
LEMMA TakeEffect ==
    ASSUME Types, NEW r \in Requests, TakeTokens(r)
    PROVE  /\ stage[r] \in Buckets /\ pc[r] = "bucket"
           /\ cost[stage[r]] <= Second /\ Refilled(stage[r]) >= cost[stage[r]]
           /\ \A b \in Buckets :
                /\ tokens'[b] = IF b = stage[r] THEN Refilled(b) - cost[b] ELSE tokens[b]
                /\ elapsed'[b] = IF b = stage[r] THEN 0 ELSE elapsed[b]
                /\ meter'[b] = IF b = stage[r] THEN meter[b] + cost[b] ELSE meter[b]
           /\ \A q \in Requests :
                /\ sleep'[q] = sleep[q] /\ paid'[q] = paid[q]
                /\ q # r => pc'[q] = pc[q] /\ stage'[q] = stage[q]
<1>1. stage[r] \in Buckets
  BY AtItsBucket DEF TakeTokens, AtBucket
<1>2. /\ meter' = [meter EXCEPT ![stage[r]] = @ + cost[stage[r]]]
      /\ tokens' = [tokens EXCEPT ![stage[r]] = Refilled(stage[r]) - cost[stage[r]]]
      /\ elapsed' = [elapsed EXCEPT ![stage[r]] = 0]
      /\ pc[r] = "bucket" /\ cost[stage[r]] <= Second /\ Refilled(stage[r]) >= cost[stage[r]]
      /\ paid' = paid /\ sleep' = sleep
  BY DEF TakeTokens, PassedTo, Refill, AtBucket
<1>3. /\ pc' = [pc EXCEPT ![r] = Place(stage[r])] /\ stage' = [stage EXCEPT ![r] = @ + 1]
  BY DEF TakeTokens, PassedTo
<1>4. ASSUME NEW b \in Buckets
      PROVE  /\ tokens'[b] = IF b = stage[r] THEN Refilled(b) - cost[b] ELSE tokens[b]
             /\ elapsed'[b] = IF b = stage[r] THEN 0 ELSE elapsed[b]
             /\ meter'[b] = IF b = stage[r] THEN meter[b] + cost[b] ELSE meter[b]
  BY <1>2 DEF Types
<1>5. ASSUME NEW q \in Requests PROVE q # r => pc'[q] = pc[q] /\ stage'[q] = stage[q]
  BY <1>3 DEF Types
<1> QED
  BY <1>1, <1>2, <1>4, <1>5

(* Otherwise it waits for the missing tokens and tries again.              *)
LEMMA TryEffect ==
    ASSUME Types, NEW r \in Requests, TryLater(r)
    PROVE  /\ stage[r] \in Buckets /\ pc[r] = "bucket" /\ cost[stage[r]] <= Second
           /\ \A b \in Buckets :
                /\ tokens'[b] = IF b = stage[r] THEN Refilled(b) ELSE tokens[b]
                /\ elapsed'[b] = IF b = stage[r] THEN 0 ELSE elapsed[b]
                /\ meter'[b] = meter[b]
           /\ \A q \in Requests :
                /\ q # r => sleep'[q] = sleep[q]
                /\ paid'[q] = paid[q] /\ pc'[q] = pc[q] /\ stage'[q] = stage[q]
<1>1. stage[r] \in Buckets
  BY AtItsBucket DEF TryLater, AtBucket
<1>2. /\ tokens' = [tokens EXCEPT ![stage[r]] = Refilled(stage[r]) - 0]
      /\ elapsed' = [elapsed EXCEPT ![stage[r]] = 0]
      /\ sleep' = [sleep EXCEPT ![r] = cost[stage[r]] - Refilled(stage[r])]
      /\ cost[stage[r]] <= Second /\ pc[r] = "bucket"
      /\ pc' = pc /\ stage' = stage /\ meter' = meter /\ paid' = paid
  BY DEF TryLater, Refill, WaitTime, AtBucket
<1>3. Refilled(stage[r]) \in Int
  BY <1>1, Numbers
<1>4. ASSUME NEW b \in Buckets
      PROVE  /\ tokens'[b] = IF b = stage[r] THEN Refilled(b) ELSE tokens[b]
             /\ elapsed'[b] = IF b = stage[r] THEN 0 ELSE elapsed[b]
             /\ meter'[b] = meter[b]
  BY <1>2, <1>3 DEF Types
<1>5. ASSUME NEW q \in Requests, q # r PROVE sleep'[q] = sleep[q]
  BY <1>2, <1>5 DEF Types
<1> QED
  BY <1>1, <1>2, <1>4, <1>5

(* The steps in front of the buckets and behind them.                      *)
LEMMA OtherEffect ==
    ASSUME Types, AheadInv, NEW r \in Requests,
           \/ Arrive(r) \/ Decoded(r) \/ Compute(r) \/ Score(r)
           \/ TimeoutExpires(r) \/ StrayEnds(r)
    PROVE  /\ tokens' = tokens /\ elapsed' = elapsed /\ meter' = meter
           /\ sleep' = sleep /\ paid' = paid /\ stage' = stage
           /\ \A q \in Requests : paid[q] => pc'[q] = pc[q]
<1>1. /\ tokens' = tokens /\ elapsed' = elapsed /\ meter' = meter
      /\ sleep' = sleep /\ paid' = paid /\ stage' = stage
  BY DEF Arrive, Decoded, Compute, Score, TimeoutExpires, StrayEnds, bucket
<1>2. \A q \in Requests : paid[q] => pc[q] = "bucket"
  BY DEF AheadInv
<1>3. \/ pc' = pc
      \/ pc[r] # "bucket" /\ \E v : pc' = [pc EXCEPT ![r] = v]
  BY DEF Arrive, Decoded, Compute, Score, TimeoutExpires, Expires, StrayEnds
<1>4. ASSUME NEW q \in Requests, paid[q] PROVE pc'[q] = pc[q]
  BY <1>2, <1>3, <1>4 DEF Types
<1> QED
  BY <1>1, <1>4

(* Every step, from the point of view of the buckets.                      *)
LEMMA Steps ==
    ASSUME Types, [Next]_vars, AheadInv
    PROVE  \/ Tick
           \/ \E r \in Requests : Overdraw(r)
           \/ \E r \in Requests : SleptForTokens(r)
           \/ \E r \in Requests : TakeTokens(r)
           \/ \E r \in Requests : TryLater(r)
           \/ /\ tokens' = tokens /\ elapsed' = elapsed /\ meter' = meter
              /\ sleep' = sleep /\ paid' = paid /\ stage' = stage
              /\ \A q \in Requests : paid[q] => pc'[q] = pc[q]
<1>1. CASE StartJob \/ UNCHANGED vars
  BY <1>1 DEF StartJob, vars, bucket
<1>2. CASE \E r \in Requests : \/ Arrive(r) \/ Decoded(r) \/ Compute(r) \/ Score(r)
                              \/ TimeoutExpires(r) \/ StrayEnds(r)
  BY <1>2, OtherEffect
<1> QED
  BY <1>1, <1>2 DEF Next, Acquire

(* The refilled tokens and the burst of a bucket after a step.             *)
LEMMA NumbersNext ==
    ASSUME Types, [Next]_vars, NEW b \in Buckets
    PROVE  /\ tokens'[b] \in Int /\ elapsed'[b] \in Nat /\ meter'[b] \in Nat
           /\ Refilled(b)' = Cap(tokens'[b] + elapsed'[b])
           /\ Burst(b)' = Burst(b)
<1>1. Types' /\ cost' = cost /\ Buckets' = Buckets
  BY TypesStep, ConfigKept
<1>2. tokens'[b] \in Int /\ elapsed'[b] \in Nat /\ meter'[b] \in Nat /\ Second \in Nat
  BY <1>1, LimiterAssumption DEF Types
<1>3. tokens'[b] + elapsed'[b] \in Int
  BY <1>2
<1>4. Refilled(b)' = Cap(tokens'[b] + elapsed'[b])
  BY <1>2, <1>3, MinOf DEF Refilled, Cap
<1> QED
  BY <1>1, <1>2, <1>4 DEF Burst

(* No bucket lets through more than it has held.                           *)
LEMMA BucketStep ==
    ASSUME Types, BucketInv, AheadInv, [Next]_vars
    PROVE  BucketInv'
<1>c. cost' = cost /\ Buckets' = Buckets
  BY ConfigKept
<1> SUFFICES ASSUME NEW b \in Buckets
             PROVE  /\ meter'[b] + Refilled(b)' <= Burst(b)' /\ meter'[b] <= Burst(b)'
                    /\ cost[b] <= Second => tokens'[b] >= 0
  BY <1>c DEF BucketInv
<1>n. /\ Second \in Nat /\ Second >= 1 /\ cost[b] \in Nat /\ cost[b] >= 1
      /\ tokens[b] \in Int /\ elapsed[b] \in Nat /\ meter[b] \in Nat
      /\ Refilled(b) = Cap(tokens[b] + elapsed[b]) /\ Refilled(b) \in Int
      /\ Burst(b) = IF Second <= cost[b] THEN cost[b] ELSE Second
  BY Numbers
<1>m. /\ tokens'[b] \in Int /\ elapsed'[b] \in Nat /\ meter'[b] \in Nat
      /\ Refilled(b)' = Cap(tokens'[b] + elapsed'[b])
      /\ Burst(b)' = Burst(b)
  BY NumbersNext
<1>i. /\ meter[b] + Refilled(b) <= Burst(b) /\ meter[b] <= Burst(b)
      /\ cost[b] <= Second => tokens[b] >= 0
  BY DEF BucketInv
<1>0. CASE tokens'[b] = tokens[b] /\ elapsed'[b] = elapsed[b] /\ meter'[b] = meter[b]
  BY <1>0, <1>n, <1>m, <1>i
<1>1. CASE Tick
  <2>1. /\ tokens'[b] = tokens[b]
        /\ elapsed'[b] = IF tokens[b] + elapsed[b] <= Second THEN elapsed[b] + 1 ELSE elapsed[b]
        /\ meter'[b] = IF meter[b] > 0 THEN meter[b] - 1 ELSE 0
    BY <1>1 DEF Tick
  <2> QED
    BY <2>1, <1>n, <1>m, <1>i DEF Cap
<1>2. ASSUME NEW r \in Requests, Overdraw(r)
      PROVE  /\ meter'[b] + Refilled(b)' <= Burst(b)' /\ meter'[b] <= Burst(b)'
             /\ cost[b] <= Second => tokens'[b] >= 0
  <2>1. CASE b = stage[r]
    <3>1. /\ tokens'[b] = Refilled(b) - cost[b] /\ elapsed'[b] = 0 /\ meter'[b] = meter[b]
          /\ cost[b] > Second
      BY <1>2, <2>1, OverdrawEffect
    <3> QED
      BY <3>1, <1>n, <1>m, <1>i DEF Cap
  <2>2. CASE b # stage[r]
    BY <1>0, <1>2, <2>2, OverdrawEffect
  <2> QED
    BY <2>1, <2>2
<1>3. ASSUME NEW r \in Requests, SleptForTokens(r)
      PROVE  /\ meter'[b] + Refilled(b)' <= Burst(b)' /\ meter'[b] <= Burst(b)'
             /\ cost[b] <= Second => tokens'[b] >= 0
  <2>1. CASE b = stage[r]
    <3>1. /\ tokens'[b] = tokens[b] /\ elapsed'[b] = elapsed[b] /\ meter'[b] = meter[b] + cost[b]
          /\ Ahead(r, b) /\ sleep[r] = 0
      BY <1>3, <2>1, SleptEffect DEF Ahead
    <3>2. /\ cost[b] > Second /\ sleep[r] + tokens[b] + elapsed[b] <= 0 /\ meter[b] <= sleep[r]
      BY <3>1 DEF AheadInv
    <3> QED
      BY <3>1, <3>2, <1>n, <1>m DEF Cap
  <2>2. CASE b # stage[r]
    BY <1>0, <1>3, <2>2, SleptEffect
  <2> QED
    BY <2>1, <2>2
<1>4. ASSUME NEW r \in Requests, TakeTokens(r)
      PROVE  /\ meter'[b] + Refilled(b)' <= Burst(b)' /\ meter'[b] <= Burst(b)'
             /\ cost[b] <= Second => tokens'[b] >= 0
  <2>1. CASE b = stage[r]
    <3>1. /\ tokens'[b] = Refilled(b) - cost[b] /\ elapsed'[b] = 0
          /\ meter'[b] = meter[b] + cost[b]
          /\ cost[b] <= Second /\ Refilled(b) >= cost[b]
      BY <1>4, <2>1, TakeEffect
    <3> QED
      BY <3>1, <1>n, <1>m, <1>i DEF Cap
  <2>2. CASE b # stage[r]
    BY <1>0, <1>4, <2>2, TakeEffect
  <2> QED
    BY <2>1, <2>2
<1>5. ASSUME NEW r \in Requests, TryLater(r)
      PROVE  /\ meter'[b] + Refilled(b)' <= Burst(b)' /\ meter'[b] <= Burst(b)'
             /\ cost[b] <= Second => tokens'[b] >= 0
  <2>1. CASE b = stage[r]
    <3>1. tokens'[b] = Refilled(b) /\ elapsed'[b] = 0 /\ meter'[b] = meter[b]
      BY <1>5, <2>1, TryEffect
    <3> QED
      BY <3>1, <1>n, <1>m, <1>i DEF Cap
  <2>2. CASE b # stage[r]
    BY <1>0, <1>5, <2>2, TryEffect
  <2> QED
    BY <2>1, <2>2
<1> QED
  BY <1>0, <1>1, <1>2, <1>3, <1>4, <1>5, Steps

(* Of a request that sleeps for its tokens after a step.                   *)
AheadFacts(q, b) ==
    /\ cost[b] > Second
    /\ sleep'[q] + tokens'[b] + elapsed'[b] <= 0
    /\ meter'[b] <= sleep'[q]

(* Time, and what others take, keep a sleeper until the bucket has         *)
(* recovered.                                                              *)
LEMMA AheadStep ==
    ASSUME Types, BucketInv, AheadInv, ApartInv, [Next]_vars
    PROVE  AheadInv'
<1>c. cost' = cost /\ Buckets' = Buckets
  BY ConfigKept
<1> SUFFICES ASSUME NEW q \in Requests
             PROVE  /\ paid'[q] => pc'[q] = "bucket"
                    /\ \A b \in Buckets : Ahead(q, b)' => AheadFacts(q, b)
  BY <1>c DEF AheadInv, AheadFacts
<1>p. paid[q] => pc[q] = "bucket"
  BY DEF AheadInv
<1>a. ASSUME NEW b \in Buckets, NEW r \in Requests, Ahead(r, b)
      PROVE  /\ cost[b] > Second /\ sleep[r] + tokens[b] + elapsed[b] <= 0 /\ meter[b] <= sleep[r]
  BY <1>a DEF AheadInv
<1>0. CASE /\ tokens' = tokens /\ elapsed' = elapsed /\ meter' = meter
           /\ sleep' = sleep /\ paid' = paid /\ stage' = stage
           /\ \A x \in Requests : paid[x] => pc'[x] = pc[x]
  <2>1. ASSUME NEW b \in Buckets, Ahead(q, b)' PROVE AheadFacts(q, b)
    <3>1. Ahead(q, b)
      BY <1>0, <2>1 DEF Ahead
    <3> QED
      BY <1>0, <1>a, <3>1 DEF AheadFacts
  <2> QED
    BY <1>0, <1>p, <2>1
<1>1. CASE Tick
  <2>1. paid' = paid /\ pc' = pc /\ stage' = stage
    BY <1>1 DEF Tick
  <2>2. ASSUME NEW b \in Buckets, Ahead(q, b)' PROVE AheadFacts(q, b)
    <3>1. Ahead(q, b)
      BY <2>1, <2>2 DEF Ahead
    <3>2. sleep[q] # 0
      BY <1>1, <3>1 DEF Tick, AtBucket, Ahead
    <3>3. /\ sleep'[q] = (IF sleep[q] > 0 THEN sleep[q] - 1 ELSE 0) /\ tokens'[b] = tokens[b]
          /\ elapsed'[b] = IF tokens[b] + elapsed[b] <= Second THEN elapsed[b] + 1 ELSE elapsed[b]
          /\ meter'[b] = IF meter[b] > 0 THEN meter[b] - 1 ELSE 0
      BY <1>1 DEF Tick
    <3>4. /\ Second \in Nat /\ tokens[b] \in Int /\ elapsed[b] \in Nat /\ meter[b] \in Nat
          /\ sleep[q] \in Nat
      BY Numbers DEF Types
    <3>5. /\ cost[b] > Second /\ sleep[q] + tokens[b] + elapsed[b] <= 0 /\ meter[b] <= sleep[q]
      BY <3>1, <1>a
    <3> QED
      BY <3>2, <3>3, <3>4, <3>5 DEF AheadFacts
  <2> QED
    BY <2>1, <2>2, <1>p
<1>2. ASSUME NEW r \in Requests, Overdraw(r)
      PROVE  /\ paid'[q] => pc'[q] = "bucket"
             /\ \A b \in Buckets : Ahead(q, b)' => AheadFacts(q, b)
  <2>1. paid'[q] => pc'[q] = "bucket"
    BY <1>2, <1>p, OverdrawEffect
  <2>2. ASSUME NEW b \in Buckets, Ahead(q, b)' PROVE AheadFacts(q, b)
    <3>n. /\ Second \in Nat /\ cost[b] \in Nat /\ tokens[b] \in Int /\ elapsed[b] \in Nat
          /\ meter[b] \in Nat /\ Refilled(b) = Cap(tokens[b] + elapsed[b]) /\ Refilled(b) \in Int
          /\ Burst(b) = (IF Second <= cost[b] THEN cost[b] ELSE Second) /\ sleep[q] \in Nat
      BY Numbers DEF Types
    <3>i. meter[b] + Refilled(b) <= Burst(b)
      BY DEF BucketInv
    <3>1. CASE q = r
      <4>1. b = stage[r]
        BY <1>2, <2>2, <3>1, OverdrawEffect DEF Ahead
      <4>2. /\ tokens'[b] = Refilled(b) - cost[b] /\ elapsed'[b] = 0 /\ meter'[b] = meter[b]
            /\ sleep'[q] = cost[b] - Refilled(b) /\ cost[b] > Second
        BY <1>2, <3>1, <4>1, OverdrawEffect
      <4> QED
        BY <4>2, <3>n, <3>i DEF AheadFacts
    <3>2. CASE q # r
      <4>1. Ahead(q, b) /\ sleep'[q] = sleep[q] /\ meter'[b] = meter[b]
        BY <1>2, <2>2, <3>2, OverdrawEffect DEF Ahead
      <4>2. /\ cost[b] > Second /\ sleep[q] + tokens[b] + elapsed[b] <= 0 /\ meter[b] <= sleep[q]
        BY <4>1, <1>a
      <4>3. \/ tokens'[b] = Refilled(b) - cost[b] /\ elapsed'[b] = 0
            \/ tokens'[b] = tokens[b] /\ elapsed'[b] = elapsed[b]
        BY <1>2, OverdrawEffect
      <4> QED
        BY <4>1, <4>2, <4>3, <3>n DEF AheadFacts, Cap
    <3> QED
      BY <3>1, <3>2
  <2> QED
    BY <2>1, <2>2
<1>3. ASSUME NEW r \in Requests, SleptForTokens(r)
      PROVE  /\ paid'[q] => pc'[q] = "bucket"
             /\ \A b \in Buckets : Ahead(q, b)' => AheadFacts(q, b)
  <2>1. paid'[q] => pc'[q] = "bucket"
    BY <1>3, <1>p, SleptEffect
  <2>2. ASSUME NEW b \in Buckets, Ahead(q, b)' PROVE AheadFacts(q, b)
    <3>n. /\ cost[b] \in Nat /\ cost[b] >= 1 /\ tokens[b] \in Int /\ elapsed[b] \in Nat
          /\ meter[b] \in Nat /\ sleep[q] \in Nat
      BY Numbers DEF Types
    <3>1. q # r /\ Ahead(q, b)
      BY <1>3, <2>2, SleptEffect DEF Ahead
    <3>2. /\ cost[b] > Second /\ sleep[q] + tokens[b] + elapsed[b] <= 0 /\ meter[b] <= sleep[q]
      BY <3>1, <1>a
    <3>3. tokens'[b] = tokens[b] /\ elapsed'[b] = elapsed[b] /\ sleep'[q] = sleep[q]
      BY <1>3, SleptEffect
    <3>4. CASE b = stage[r]
      <4>1. Ahead(r, b) /\ sleep[r] = 0 /\ meter'[b] = meter[b] + cost[b]
        BY <1>3, <3>4, SleptEffect DEF Ahead
      <4>2. meter[b] <= sleep[r]
        BY <4>1, <1>a
      <4>3. sleep[r] + cost[b] <= sleep[q] \/ sleep[q] + cost[b] <= sleep[r]
        BY <4>1, <3>1 DEF ApartInv
      <4> QED
        BY <3>n, <3>2, <3>3, <4>1, <4>2, <4>3 DEF AheadFacts
    <3>5. CASE b # stage[r]
      <4>1. meter'[b] = meter[b]
        BY <1>3, <3>5, SleptEffect
      <4> QED
        BY <4>1, <3>2, <3>3 DEF AheadFacts
    <3> QED
      BY <3>4, <3>5
  <2> QED
    BY <2>1, <2>2
<1>4. ASSUME NEW r \in Requests, TakeTokens(r)
      PROVE  /\ paid'[q] => pc'[q] = "bucket"
             /\ \A b \in Buckets : Ahead(q, b)' => AheadFacts(q, b)
  <2>0. Second \in Nat /\ stage[r] \in Buckets /\ cost[stage[r]] \in Nat /\ cost[stage[r]] <= Second
    BY <1>4, TakeEffect, Numbers
  <2>1. ~paid[r]
    <3> SUFFICES ASSUME paid[r] PROVE FALSE
      OBVIOUS
    <3>1. Ahead(r, stage[r])
      BY <1>4, TakeEffect DEF Ahead
    <3>2. cost[stage[r]] > Second
      BY <2>0, <3>1, <1>a
    <3> QED
      BY <2>0, <3>2
  <2>2. paid'[q] => pc'[q] = "bucket" /\ q # r
    BY <1>4, <1>p, <2>1, TakeEffect
  <2>3. ASSUME NEW b \in Buckets, Ahead(q, b)' PROVE AheadFacts(q, b)
    <3>1. Ahead(q, b) /\ sleep'[q] = sleep[q]
      BY <1>4, <2>2, <2>3, TakeEffect DEF Ahead
    <3>2. /\ cost[b] > Second /\ sleep[q] + tokens[b] + elapsed[b] <= 0 /\ meter[b] <= sleep[q]
      BY <3>1, <1>a
    <3>3. b # stage[r]
      BY <3>2, <2>0
    <3>4. tokens'[b] = tokens[b] /\ elapsed'[b] = elapsed[b] /\ meter'[b] = meter[b]
      BY <1>4, <3>3, TakeEffect
    <3> QED
      BY <3>1, <3>2, <3>4 DEF AheadFacts
  <2> QED
    BY <2>2, <2>3
<1>5. ASSUME NEW r \in Requests, TryLater(r)
      PROVE  /\ paid'[q] => pc'[q] = "bucket"
             /\ \A b \in Buckets : Ahead(q, b)' => AheadFacts(q, b)
  <2>0. Second \in Nat /\ stage[r] \in Buckets /\ cost[stage[r]] \in Nat /\ cost[stage[r]] <= Second
    BY <1>5, TryEffect, Numbers
  <2>1. ~paid[r]
    <3> SUFFICES ASSUME paid[r] PROVE FALSE
      OBVIOUS
    <3>1. Ahead(r, stage[r])
      BY <1>5, TryEffect DEF Ahead
    <3>2. cost[stage[r]] > Second
      BY <2>0, <3>1, <1>a
    <3> QED
      BY <2>0, <3>2
  <2>2. paid'[q] => pc'[q] = "bucket" /\ q # r
    BY <1>5, <1>p, <2>1, TryEffect
  <2>3. ASSUME NEW b \in Buckets, Ahead(q, b)' PROVE AheadFacts(q, b)
    <3>1. Ahead(q, b) /\ sleep'[q] = sleep[q]
      BY <1>5, <2>2, <2>3, TryEffect DEF Ahead
    <3>2. /\ cost[b] > Second /\ sleep[q] + tokens[b] + elapsed[b] <= 0 /\ meter[b] <= sleep[q]
      BY <3>1, <1>a
    <3>3. b # stage[r]
      BY <3>2, <2>0
    <3>4. tokens'[b] = tokens[b] /\ elapsed'[b] = elapsed[b] /\ meter'[b] = meter[b]
      BY <1>5, <3>3, TryEffect
    <3> QED
      BY <3>1, <3>2, <3>4 DEF AheadFacts
  <2> QED
    BY <2>2, <2>3
<1> QED
  BY <1>0, <1>1, <1>2, <1>3, <1>4, <1>5, Steps

(* Besides Overdraw, no step makes a request take tokens ahead, and only   *)
(* the clock shortens the sleep of one that did.                           *)
LEMMA StillAhead ==
    ASSUME Types, AheadInv, NEW b \in Buckets, NEW q \in Requests, Ahead(q, b)',
           \/ \E r \in Requests : SleptForTokens(r) \/ TakeTokens(r) \/ TryLater(r)
           \/ /\ tokens' = tokens /\ elapsed' = elapsed /\ meter' = meter
              /\ sleep' = sleep /\ paid' = paid /\ stage' = stage
              /\ \A x \in Requests : paid[x] => pc'[x] = pc[x]
    PROVE  Ahead(q, b) /\ sleep'[q] = sleep[q]
<1>1. ASSUME NEW r \in Requests, SleptForTokens(r) PROVE Ahead(q, b) /\ sleep'[q] = sleep[q]
  BY <1>1, SleptEffect DEF Ahead
<1>2. ASSUME NEW r \in Requests, pc[r] = "bucket", stage[r] \in Buckets,
             cost[stage[r]] <= Second, paid[r]
      PROVE  FALSE
  <2>1. Ahead(r, stage[r])
    BY <1>2 DEF Ahead
  <2>2. cost[stage[r]] > Second
    BY <1>2, <2>1 DEF AheadInv
  <2>3. Second \in Nat /\ cost[stage[r]] \in Nat
    BY <1>2, Numbers
  <2> QED
    BY <1>2, <2>2, <2>3
<1>3. ASSUME NEW r \in Requests, TakeTokens(r) PROVE Ahead(q, b) /\ sleep'[q] = sleep[q]
  <2>1. ~paid[r]
    BY <1>2, <1>3, TakeEffect
  <2>2. paid'[q] = paid[q] /\ paid'[q]
    BY <1>3, TakeEffect DEF Ahead
  <2>3. q # r
    BY <2>1, <2>2
  <2> QED
    BY <1>3, <2>3, TakeEffect DEF Ahead
<1>4. ASSUME NEW r \in Requests, TryLater(r) PROVE Ahead(q, b) /\ sleep'[q] = sleep[q]
  <2>1. ~paid[r]
    BY <1>2, <1>4, TryEffect
  <2>2. paid'[q] = paid[q] /\ paid'[q]
    BY <1>4, TryEffect DEF Ahead
  <2>3. q # r
    BY <2>1, <2>2
  <2> QED
    BY <1>4, <2>3, TryEffect DEF Ahead
<1>5. CASE /\ tokens' = tokens /\ elapsed' = elapsed /\ meter' = meter
           /\ sleep' = sleep /\ paid' = paid /\ stage' = stage
           /\ \A x \in Requests : paid[x] => pc'[x] = pc[x]
  BY <1>5 DEF Ahead
<1> QED
  BY <1>1, <1>3, <1>4, <1>5

(* The clock shortens all sleeps alike, and a request that takes tokens    *)
(* ahead sleeps for those that others have taken ahead too.                *)
LEMMA ApartStep ==
    ASSUME Types, AheadInv, ApartInv, [Next]_vars
    PROVE  ApartInv'
<1>c. cost' = cost /\ Buckets' = Buckets
  BY ConfigKept
<1> SUFFICES ASSUME NEW b \in Buckets, NEW x \in Requests, NEW y \in Requests,
                    x # y, Ahead(x, b)', Ahead(y, b)'
             PROVE  sleep'[x] + cost[b] <= sleep'[y] \/ sleep'[y] + cost[b] <= sleep'[x]
  BY <1>c DEF ApartInv
<1>n. /\ Second \in Nat /\ cost[b] \in Nat /\ tokens[b] \in Int /\ elapsed[b] \in Nat
      /\ Refilled(b) = Cap(tokens[b] + elapsed[b]) /\ Refilled(b) \in Int
      /\ sleep[x] \in Nat /\ sleep[y] \in Nat
  BY Numbers DEF Types
<1>0. ASSUME Ahead(x, b), Ahead(y, b)
      PROVE  sleep[x] + cost[b] <= sleep[y] \/ sleep[y] + cost[b] <= sleep[x]
  BY <1>0 DEF ApartInv
<1>1. CASE Tick
  <2>1. Ahead(x, b) /\ Ahead(y, b)
    BY <1>1 DEF Tick, Ahead
  <2>2. sleep[x] # 0 /\ sleep[y] # 0
    BY <1>1, <2>1 DEF Tick, AtBucket, Ahead
  <2>3. /\ sleep'[x] = IF sleep[x] > 0 THEN sleep[x] - 1 ELSE 0
        /\ sleep'[y] = IF sleep[y] > 0 THEN sleep[y] - 1 ELSE 0
    BY <1>1 DEF Tick
  <2> QED
    BY <1>n, <1>0, <2>1, <2>2, <2>3
<1>2. ASSUME NEW r \in Requests, Overdraw(r)
      PROVE  sleep'[x] + cost[b] <= sleep'[y] \/ sleep'[y] + cost[b] <= sleep'[x]
  <2>1. ASSUME NEW v \in Requests, NEW w \in Requests, v = r, w # r, Ahead(v, b)', Ahead(w, b)'
        PROVE  sleep'[w] + cost[b] <= sleep'[v]
    <3>1. b = stage[r] /\ Ahead(w, b)
      BY <1>2, <2>1, OverdrawEffect DEF Ahead
    <3>2. sleep'[v] = cost[b] - Refilled(b) /\ sleep'[w] = sleep[w]
      BY <1>2, <2>1, <3>1, OverdrawEffect
    <3>3. sleep[w] + tokens[b] + elapsed[b] <= 0 /\ sleep[w] \in Nat
      BY <3>1 DEF AheadInv, Types
    <3> QED
      BY <3>2, <3>3, <1>n DEF Cap
  <2>2. CASE x # r /\ y # r
    <3>1. Ahead(x, b) /\ Ahead(y, b) /\ sleep'[x] = sleep[x] /\ sleep'[y] = sleep[y]
      BY <1>2, <2>2, OverdrawEffect DEF Ahead
    <3> QED
      BY <3>1, <1>0
  <2> QED
    BY <2>1, <2>2
<1>3. CASE \/ \E r \in Requests : SleptForTokens(r) \/ TakeTokens(r) \/ TryLater(r)
           \/ /\ tokens' = tokens /\ elapsed' = elapsed /\ meter' = meter
              /\ sleep' = sleep /\ paid' = paid /\ stage' = stage
              /\ \A z \in Requests : paid[z] => pc'[z] = pc[z]
  <2>1. Ahead(x, b) /\ Ahead(y, b) /\ sleep'[x] = sleep[x] /\ sleep'[y] = sleep[y]
    BY <1>3, StillAhead
  <2> QED
    BY <2>1, <1>0
<1> QED
  BY <1>1, <1>2, <1>3, Steps

(* At first every bucket is full and nobody has come.                      *)
LEMMA InitInv == Init => IInv
<1> SUFFICES ASSUME Init PROVE IInv
  OBVIOUS
<1>1. Types
  <2>1. cost \in Seq(Nat \ {0})
    BY LimiterAssumption DEF Init
  <2> QED
    BY <2>1, LimiterAssumption DEF Init, Types
<1>2. BucketInv
  <2> SUFFICES ASSUME NEW b \in Buckets
               PROVE  /\ meter[b] + Refilled(b) <= Burst(b) /\ meter[b] <= Burst(b)
                      /\ cost[b] <= Second => tokens[b] >= 0
    BY DEF BucketInv
  <2>1. tokens[b] = Second /\ elapsed[b] = 0 /\ meter[b] = 0
    BY DEF Init
  <2>2. /\ Second \in Nat /\ cost[b] \in Nat
        /\ Refilled(b) = Cap(tokens[b] + elapsed[b])
        /\ Burst(b) = IF Second <= cost[b] THEN cost[b] ELSE Second
    BY <1>1, Numbers
  <2> QED
    BY <2>1, <2>2 DEF Cap
<1>3. \A r \in Requests : paid[r] = FALSE
  BY DEF Init
<1>4. AheadInv /\ ApartInv
  BY <1>3 DEF AheadInv, ApartInv, Ahead
<1> QED
  BY <1>1, <1>2, <1>4 DEF IInv

(* The inductive invariant: what a bucket has let through and what it      *)
(* holds add up to a burst, and requests that took tokens ahead wake a     *)
(* full refill apart.                                                      *)
THEOREM Invariance == Spec => []IInv
<1>1. Init => IInv
  BY InitInv
<1>2. IInv /\ [Next]_vars => IInv'
  BY TypesStep, BucketStep, AheadStep, ApartStep DEF IInv
<1> QED
  BY <1>1, <1>2, PTL DEF Spec

(* Whatever a request costs and however requests race for tokens, taken    *)
(* ahead or not, a bucket lets through at most its refill and one burst.   *)
THEOREM RateLimited == Spec => []RateKept
<1>1. IInv => RateKept
  BY DEF IInv, BucketInv, RateKept, Burst
<1> QED
  BY <1>1, Invariance, PTL
=============================================================================
