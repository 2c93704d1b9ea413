------------------------- MODULE LoadBalancerProofs -------------------------
(***************************************************************************)
(* Proofs about LoadBalancer for any conversations, servers and cache      *)
(* size, while hybrid servers come and go: no server is over-counted, and  *)
(* the routing cache is the tail of the history of calls, so that a        *)
(* conversation stays with its server.                                     *)
(***************************************************************************)
EXTENDS LoadBalancer, FiniteSetTheorems, SequenceTheorems, TLAPS

Entries == [conv: Conversations, server: Servers]

(* The counts and the conversations.                                       *)
PoolInv ==
    /\ inflight \in [Active -> Nat]
    /\ Standalone \subseteq Active /\ Active \subseteq Servers
    /\ pc \in [Conversations -> {"idle", "generating", "releasing"}]
    /\ server \in [Conversations -> Servers \cup {NoServer}]

Length(cached, calls) == IF calls < CacheSize THEN cached = calls ELSE cached = CacheSize

(* The cache holds the conversations routed last, each with the server of  *)
(* its latest call, in the order of their calls.                           *)
CacheInv ==
    /\ cache \in Seq(Entries) /\ routed \in Seq(Conversations)
    /\ \A i, j \in 1..Len(routed) : routed[i] = routed[j] => i = j
    /\ Length(Len(cache), Len(routed))
    /\ \A i \in 1..Len(cache) :
        /\ cache[i].conv = routed[Len(routed) - Len(cache) + i]
        /\ cache[i].server = server[cache[i].conv]

IInv == PoolInv /\ NeverOverCounts /\ CacheInv
-----------------------------------------------------------------------------
(* RemoveAt of the community modules, by index.                            *)
LEMMA Removed ==
    ASSUME NEW S, NEW q \in Seq(S), NEW k \in 1..Len(q)
    PROVE  /\ RemoveAt(q, k) \in Seq(S)
           /\ Len(RemoveAt(q, k)) = Len(q) - 1
           /\ \A i \in 1..(Len(q) - 1) : RemoveAt(q, k)[i] = IF i < k THEN q[i] ELSE q[i + 1]
<1> DEFINE n == Len(q)
           a == SubSeq(q, 1, k - 1)
           b == SubSeq(q, k + 1, n)
<1>1. n \in Nat /\ k \in 1..n /\ \A i \in 1..n : q[i] \in S
  BY LenProperties, ElementOfSeq
<1>2. /\ a \in Seq(S) /\ Len(a) = k - 1 /\ \A i \in 1..(k - 1) : a[i] = q[i]
  <2>1. \A i \in 1..(k - 1) : q[i] \in S
    BY <1>1
  <2>2. /\ a \in Seq(S) /\ Len(a) = IF 1 <= k - 1 THEN k - 1 - 1 + 1 ELSE 0
        /\ \A i \in 1..(k - 1 - 1 + 1) : a[i] = q[1 + i - 1]
    BY <1>1, <2>1, SubSeqProperties
  <2>3. Len(a) = k - 1
    BY <1>1, <2>2
  <2>4. ASSUME NEW i \in 1..(k - 1) PROVE a[i] = q[i]
    <3>1. i \in 1..(k - 1 - 1 + 1) /\ 1 + i - 1 = i
      BY <1>1
    <3>2. a[i] = q[1 + i - 1]
      BY <2>2, <3>1
    <3> QED
      BY <3>1, <3>2
  <2> QED
    BY <2>2, <2>3, <2>4
<1>3. /\ b \in Seq(S) /\ Len(b) = n - k /\ \A i \in 1..(n - k) : b[i] = q[k + i]
  <2>1. \A i \in (k + 1)..n : q[i] \in S
    BY <1>1
  <2>2. /\ b \in Seq(S) /\ Len(b) = IF k + 1 <= n THEN n - (k + 1) + 1 ELSE 0
        /\ \A i \in 1..(n - (k + 1) + 1) : b[i] = q[k + 1 + i - 1]
    BY <1>1, <2>1, SubSeqProperties
  <2>3. Len(b) = n - k
    <3>1. CASE k + 1 <= n
      BY <1>1, <2>2, <3>1
    <3>2. CASE ~(k + 1 <= n)
      BY <1>1, <2>2, <3>2
    <3> QED
      BY <3>1, <3>2
  <2>4. ASSUME NEW i \in 1..(n - k) PROVE b[i] = q[k + i]
    <3>1. i \in 1..(n - (k + 1) + 1) /\ k + 1 + i - 1 = k + i
      BY <1>1
    <3>2. b[i] = q[k + 1 + i - 1]
      BY <2>2, <3>1
    <3> QED
      BY <3>1, <3>2
  <2> QED
    BY <2>2, <2>3, <2>4
<1>4. RemoveAt(q, k) = a \o b
  BY DEF RemoveAt
<1> HIDE DEF a, b
<1>5. /\ a \o b \in Seq(S) /\ Len(a \o b) = Len(a) + Len(b)
      /\ \A i \in 1..(Len(a) + Len(b)) :
            (a \o b)[i] = IF i <= Len(a) THEN a[i] ELSE b[i - Len(a)]
  BY <1>2, <1>3, ConcatProperties
<1>6. ASSUME NEW i \in 1..(n - 1) PROVE (a \o b)[i] = IF i < k THEN q[i] ELSE q[i + 1]
  <2>1. i \in 1..(Len(a) + Len(b))
    BY <1>1, <1>2, <1>3
  <2>2. CASE i < k
    BY <1>1, <1>2, <1>5, <2>1, <2>2
  <2>3. CASE ~(i < k)
    <3>1. ~(i <= Len(a)) /\ i - Len(a) \in 1..(n - k) /\ k + (i - Len(a)) = i + 1
      BY <1>1, <1>2, <2>3
    <3>2. (a \o b)[i] = b[i - Len(a)]
      BY <1>5, <2>1, <3>1
    <3>3. b[i - Len(a)] = q[k + (i - Len(a))]
      BY <1>3, <3>1
    <3> QED
      BY <2>3, <3>1, <3>2, <3>3
  <2> QED
    BY <2>2, <2>3
<1>7. Len(a \o b) = n - 1
  BY <1>1, <1>2, <1>3, <1>5
<1> QED
  BY <1>4, <1>5, <1>6, <1>7

(* The only index at which something holds is the first one.               *)
LEMMA OnlyOne ==
    ASSUME NEW k \in Nat
    PROVE  Min({k}) = k
BY DEF Min

(* A conversation leaves the history of calls.                             *)
LEMMA RoutedRemoved ==
    ASSUME CacheInv, NEW c \in Conversations
    PROVE  /\ \A k \in 1..Len(routed) : routed[k] = c => RemoveFirst(routed, c) = RemoveAt(routed, k)
           /\ (\A k \in 1..Len(routed) : routed[k] # c) => RemoveFirst(routed, c) = routed
<1>1. ASSUME NEW k \in 1..Len(routed), routed[k] = c
      PROVE  RemoveFirst(routed, c) = RemoveAt(routed, k)
  <2>1. {i \in 1..Len(routed) : routed[i] = c} = {k}
    BY <1>1 DEF CacheInv
  <2>2. k \in Nat
    BY <1>1
  <2>3. SelectInSeq(routed, LAMBDA v : v = c) = k
    BY <2>1, <2>2, OnlyOne DEF SelectInSeq
  <2> QED
    BY <1>1, <2>3 DEF RemoveFirst
<1>2. ASSUME \A k \in 1..Len(routed) : routed[k] # c PROVE RemoveFirst(routed, c) = routed
  BY <1>2 DEF RemoveFirst
<1> QED
  BY <1>1, <1>2

(* Its entry leaves the cache.                                             *)
LEMMA CacheRemoved ==
    ASSUME CacheInv, NEW c \in Conversations
    PROVE  /\ \A k \in 1..Len(cache) : cache[k].conv = c => Without(c) = RemoveAt(cache, k)
           /\ (\A k \in 1..Len(cache) : cache[k].conv # c) => Without(c) = cache
<1>1. ASSUME NEW k \in 1..Len(cache), cache[k].conv = c
      PROVE  Without(c) = RemoveAt(cache, k)
  <2>1. ASSUME NEW i \in 1..Len(cache), cache[i].conv = c PROVE i = k
    <3>1. Len(cache) \in Nat /\ Len(routed) \in Nat /\ Len(cache) <= Len(routed)
      BY LenProperties, CacheAssumption DEF CacheInv, Length
    <3>2. /\ Len(routed) - Len(cache) + i \in 1..Len(routed)
          /\ Len(routed) - Len(cache) + k \in 1..Len(routed)
      BY <3>1
    <3>3. Len(routed) - Len(cache) + i = Len(routed) - Len(cache) + k
      BY <1>1, <2>1, <3>2, SMTT(30) DEF CacheInv
    <3> QED
      BY <3>1, <3>3
  <2>2. {i \in 1..Len(cache) : cache[i].conv = c} = {k}
    BY <1>1, <2>1
  <2>3. k \in Nat
    BY <1>1
  <2>4. SelectInSeq(cache, LAMBDA e : e.conv = c) = k
    BY <2>2, <2>3, OnlyOne DEF SelectInSeq
  <2> QED
    BY <1>1, <2>4 DEF Without, RemoveFirstMatch
<1>2. ASSUME \A k \in 1..Len(cache) : cache[k].conv # c PROVE Without(c) = cache
  BY <1>2 DEF Without, RemoveFirstMatch
<1> QED
  BY <1>1, <1>2

(* What the cache keeps besides the entry it stores next.                  *)
Kept(c) == IF Len(Without(c)) >= CacheSize THEN Tail(Without(c)) ELSE Without(c)

(* The entries kept are those of the conversations routed last, of the     *)
(* history without the conversation that is routed now.                    *)
KeptTail(kept, r, c) ==
    /\ kept \in Seq(Entries) /\ r \in Seq(Conversations)
    /\ \A i, j \in 1..Len(r) : r[i] = r[j] => i = j
    /\ \A i \in 1..Len(r) : r[i] # c
    /\ Length(Len(kept) + 1, Len(r) + 1)
    /\ \A i \in 1..Len(kept) :
        /\ kept[i].conv = r[Len(r) - Len(kept) + i]
        /\ kept[i].server = server[kept[i].conv]

(* The tail of a sequence, by index.                                       *)
LEMMA TailOf ==
    ASSUME NEW S, NEW q \in Seq(S), Len(q) >= 1
    PROVE  /\ Tail(q) \in Seq(S) /\ Len(Tail(q)) = Len(q) - 1
           /\ \A i \in 1..(Len(q) - 1) : Tail(q)[i] = q[i + 1]
<1>1. q # <<>>
  BY EmptySeq
<1> QED
  BY <1>1, HeadTailProperties

(* The sizes of the cache and of the history, and what their entries are.  *)
LEMMA Sizes ==
    ASSUME CacheInv
    PROVE  /\ Len(cache) \in Nat /\ Len(routed) \in Nat /\ Len(cache) <= Len(routed)
           /\ Len(cache) <= CacheSize
           /\ Len(cache) < CacheSize => Len(cache) = Len(routed)
           /\ \A i \in 1..Len(cache) : Len(routed) - Len(cache) + i \in 1..Len(routed)
<1>1. /\ Len(cache) \in Nat /\ Len(routed) \in Nat /\ CacheSize \in Nat
  BY LenProperties, CacheAssumption DEF CacheInv
<1>2. /\ Len(cache) <= Len(routed) /\ Len(cache) <= CacheSize
      /\ Len(cache) < CacheSize => Len(cache) = Len(routed)
  BY <1>1 DEF CacheInv, Length
<1> QED
  BY <1>1, <1>2

(* Removing the routed conversation from both leaves a tail.               *)
LEMMA KeepsTail ==
    ASSUME CacheInv, NEW c \in Conversations
    PROVE  KeptTail(Kept(c), RemoveFirst(routed, c), c)
<1> DEFINE n == Len(cache)
           R == Len(routed)
           o == R - n
           r == RemoveFirst(routed, c)
           kept == Kept(c)
<1>1. /\ n \in Nat /\ R \in Nat /\ n <= R /\ n <= CacheSize /\ (n < CacheSize => n = R)
      /\ CacheSize \in Nat /\ CacheSize >= 1 /\ o \in Nat
  BY Sizes, CacheAssumption
<1>2. /\ cache \in Seq(Entries) /\ routed \in Seq(Conversations)
      /\ \A i, j \in 1..R : routed[i] = routed[j] => i = j
  BY DEF CacheInv
<1>3. \A i \in 1..n : /\ cache[i].conv = routed[o + i]
                      /\ cache[i].server = server[cache[i].conv]
  BY DEF CacheInv
<1>r. /\ \A k \in 1..R : routed[k] = c => r = RemoveAt(routed, k)
      /\ (\A k \in 1..R : routed[k] # c) => r = routed
  BY RoutedRemoved
<1>w. /\ \A k \in 1..n : cache[k].conv = c => Without(c) = RemoveAt(cache, k)
      /\ (\A k \in 1..n : cache[k].conv # c) => Without(c) = cache
  BY CacheRemoved
<1> HIDE DEF n, R, o, r, kept
<1>d. /\ n = Len(cache) /\ R = Len(routed) /\ o = R - n
  BY DEF n, R, o
<1>4. ASSUME NEW k \in 1..R, routed[k] = c PROVE KeptTail(kept, r, c)
  <2>1. r = RemoveAt(routed, k)
    BY <1>4, <1>r
  <2>2. /\ r \in Seq(Conversations) /\ Len(r) = R - 1
        /\ \A i \in 1..(R - 1) : r[i] = IF i < k THEN routed[i] ELSE routed[i + 1]
    BY <2>1, <1>2, <1>d, Removed
  <2>3. /\ \A i, j \in 1..(R - 1) : r[i] = r[j] => i = j
        /\ \A i \in 1..(R - 1) : r[i] # c
    BY <2>2, <1>1, <1>2, <1>4, SMTT(30)
  <2>4. CASE k > o
    <3>0. k - o \in 1..n /\ o + (k - o) = k
      BY <2>4, <1>1, <1>d, <1>4
    <3>1. k - o \in 1..n /\ cache[k - o].conv = c
      BY <3>0, <1>3, <1>4
    <3>2. Without(c) = RemoveAt(cache, k - o)
      BY <3>1, <1>w
    <3>3. /\ Without(c) \in Seq(Entries) /\ Len(Without(c)) = n - 1
          /\ \A i \in 1..(n - 1) : Without(c)[i] = IF i < k - o THEN cache[i] ELSE cache[i + 1]
      <4>1. PICK m \in 1..n : m = k - o
        BY <3>1
      <4>2. m \in 1..Len(cache)
        BY <4>1, <1>d
      <4>3. /\ RemoveAt(cache, m) \in Seq(Entries)
            /\ Len(RemoveAt(cache, m)) = Len(cache) - 1
            /\ \A i \in 1..(Len(cache) - 1) :
                    RemoveAt(cache, m)[i] = IF i < m THEN cache[i] ELSE cache[i + 1]
        BY <4>2, <1>2, Removed
      <4>4. RemoveAt(cache, m) = Without(c)
        BY <4>1, <3>2
      <4> QED
        BY <4>1, <4>3, <4>4, <1>d
    <3>4. kept = Without(c)
      BY <3>3, <1>1 DEF kept, Kept
    <3>5. ASSUME NEW i \in 1..(n - 1)
          PROVE  kept[i].conv = r[(R - 1) - (n - 1) + i] /\ kept[i].server = server[kept[i].conv]
      <4>1. (R - 1) - (n - 1) + i = o + i /\ o + i \in 1..(R - 1) /\ i \in 1..n /\ i + 1 \in 1..n
            /\ (o + i) + 1 = o + (i + 1)
        BY <1>1, <1>d
      <4>2. CASE i < k - o
        <5>1. o + i < k
          BY <4>2, <1>1, <4>1
        <5>2. kept[i] = cache[i] /\ r[o + i] = routed[o + i]
          BY <3>3, <3>4, <2>2, <4>1, <4>2, <5>1
        <5> QED
          BY <5>2, <4>1, <1>3
      <4>3. CASE ~(i < k - o)
        <5>1. ~(o + i < k)
          BY <4>3, <1>1, <4>1
        <5>2. kept[i] = cache[i + 1] /\ r[o + i] = routed[o + (i + 1)]
          BY <3>3, <3>4, <2>2, <4>1, <4>3, <5>1
        <5> QED
          BY <5>2, <4>1, <1>3
      <4> QED
        BY <4>2, <4>3
    <3>6. n - 1 \in Nat /\ Length(n - 1 + 1, R - 1 + 1)
      BY <3>1, <1>1 DEF Length
    <3> QED
      BY <2>2, <2>3, <3>3, <3>4, <3>5, <3>6 DEF KeptTail
  <2>5. CASE ~(k > o)
    <3>1. n = CacheSize /\ n >= 1
      BY <2>5, <1>1, <1>d
    <3>2. \A i \in 1..n : cache[i].conv # c
      <4> SUFFICES ASSUME NEW i \in 1..n, cache[i].conv = c PROVE FALSE
        OBVIOUS
      <4>1. o + i \in 1..R /\ o + i # k
        BY <2>5, <1>1, <1>d
      <4>2. routed[o + i] = c
        BY <1>3
      <4> QED
        BY <4>1, <4>2, <1>2, <1>4
    <3>3. Without(c) = cache
      BY <3>2, <1>w
    <3>4. kept = Tail(cache)
      BY <3>1, <3>3, <1>1, <1>d DEF kept, Kept
    <3>5. /\ kept \in Seq(Entries) /\ Len(kept) = n - 1
          /\ \A i \in 1..(n - 1) : kept[i] = cache[i + 1]
      BY <3>1, <3>4, <1>2, <1>d, TailOf
    <3>6. ASSUME NEW i \in 1..(n - 1)
          PROVE  kept[i].conv = r[(R - 1) - (n - 1) + i] /\ kept[i].server = server[kept[i].conv]
      <4>1. (R - 1) - (n - 1) + i = o + i /\ o + i \in 1..(R - 1) /\ i + 1 \in 1..n
            /\ (o + i) + 1 = o + (i + 1) /\ ~(o + i < k)
        BY <1>1, <1>d, <2>5
      <4>2. kept[i] = cache[i + 1] /\ r[o + i] = routed[o + (i + 1)]
        BY <3>5, <2>2, <4>1
      <4> QED
        BY <4>2, <4>1, <1>3
    <3>7. Length(n - 1 + 1, R - 1 + 1)
      BY <3>1, <1>1 DEF Length
    <3> QED
      BY <2>2, <2>3, <3>5, <3>6, <3>7 DEF KeptTail
  <2> QED
    BY <2>4, <2>5
<1>5. ASSUME \A k \in 1..R : routed[k] # c PROVE KeptTail(kept, r, c)
  <2>1. r = routed
    BY <1>5, <1>r
  <2>2. \A i \in 1..n : cache[i].conv # c
    <3> SUFFICES ASSUME NEW i \in 1..n PROVE cache[i].conv # c
      OBVIOUS
    <3>1. o + i \in 1..R
      BY <1>1, <1>d
    <3> QED
      BY <3>1, <1>3, <1>5
  <2>3. Without(c) = cache
    BY <2>2, <1>w
  <2>4. CASE n < CacheSize
    <3>1. kept = cache /\ n = R
      BY <2>3, <2>4, <1>1, <1>d DEF kept, Kept
    <3>2. Length(n + 1, R + 1)
      BY <2>4, <1>1, <3>1 DEF Length
    <3> QED
      BY <2>1, <3>1, <3>2, <1>2, <1>3, <1>5, <1>d DEF KeptTail
  <2>5. CASE ~(n < CacheSize)
    <3>1. n = CacheSize /\ n >= 1 /\ kept = Tail(cache)
      BY <2>3, <2>5, <1>1, <1>d DEF kept, Kept
    <3>2. /\ kept \in Seq(Entries) /\ Len(kept) = n - 1
          /\ \A i \in 1..(n - 1) : kept[i] = cache[i + 1]
      BY <3>1, <1>2, <1>d, TailOf
    <3>3. ASSUME NEW i \in 1..(n - 1)
          PROVE  kept[i].conv = r[R - (n - 1) + i] /\ kept[i].server = server[kept[i].conv]
      <4>1. R - (n - 1) + i = o + (i + 1) /\ i + 1 \in 1..n
        BY <1>1, <1>d
      <4> QED
        BY <4>1, <3>2, <2>1, <1>3
    <3>4. Length(n - 1 + 1, R + 1)
      BY <3>1, <1>1 DEF Length
    <3> QED
      BY <2>1, <3>2, <3>3, <3>4, <1>2, <1>5, <1>d DEF KeptTail
  <2> QED
    BY <2>4, <2>5
<1> QED
  BY <1>4, <1>5 DEF r, kept

(* A call puts its conversation last in the cache and in the history.      *)
LEMMA StoreStep ==
    ASSUME CacheInv, PoolInv, NEW c \in Conversations, NEW s \in Servers,
           cache' = Store(c, s), server' = [server EXCEPT ![c] = s],
           routed' = Append(RemoveFirst(routed, c), c)
    PROVE  CacheInv'
<1> DEFINE kept == Kept(c)
           r == RemoveFirst(routed, c)
           e == [conv |-> c, server |-> s]
           n == Len(kept)
           R == Len(r)
<1>1. cache' = Append(kept, e) /\ routed' = Append(r, c)
  BY DEF Store, Kept
<1>2. KeptTail(kept, r, c)
  BY KeepsTail
<1> HIDE DEF kept, r
<1>3. /\ kept \in Seq(Entries) /\ r \in Seq(Conversations)
      /\ \A i, j \in 1..R : r[i] = r[j] => i = j
      /\ \A i \in 1..R : r[i] # c
      /\ Length(n + 1, R + 1)
      /\ \A i \in 1..n : kept[i].conv = r[R - n + i] /\ kept[i].server = server[kept[i].conv]
  BY <1>2 DEF KeptTail
<1>4. n \in Nat /\ R \in Nat /\ n <= R
  BY <1>3, LenProperties, CacheAssumption DEF Length
<1>5. e \in Entries
  BY DEF Entries
<1>6. /\ cache' \in Seq(Entries) /\ Len(cache') = n + 1 /\ cache'[n + 1] = e
      /\ \A i \in 1..n : cache'[i] = kept[i]
  BY <1>1, <1>3, <1>5, AppendProperties
<1>7. /\ routed' \in Seq(Conversations) /\ Len(routed') = R + 1 /\ routed'[R + 1] = c
      /\ \A i \in 1..R : routed'[i] = r[i]
  BY <1>1, <1>3, AppendProperties
<1> HIDE DEF n, R, e
<1>8. ASSUME NEW i \in 1..(n + 1)
      PROVE  cache'[i].conv = routed'[R + 1 - (n + 1) + i] /\ cache'[i].server = server'[cache'[i].conv]
  <2>1. CASE i = n + 1
    <3>1. R + 1 - (n + 1) + i = R + 1
      BY <1>4, <2>1
    <3>2. cache'[i].conv = c /\ cache'[i].server = s /\ server'[c] = s
      BY <1>6, <2>1 DEF e, PoolInv
    <3> QED
      BY <3>1, <3>2, <1>7
  <2>2. CASE i # n + 1
    <3>1. i \in 1..n /\ R + 1 - (n + 1) + i = R - n + i /\ R - n + i \in 1..R
      BY <1>4, <2>2
    <3>2. kept[i].conv = r[R - n + i] /\ kept[i].server = server[kept[i].conv]
      BY <1>3, <3>1
    <3>3. r[R - n + i] # c /\ r[R - n + i] \in Conversations
      BY <1>3, <3>1, ElementOfSeq DEF R
    <3>4. server'[r[R - n + i]] = server[r[R - n + i]]
      BY <3>3 DEF PoolInv
    <3> QED
      BY <3>1, <3>2, <3>4, <1>6, <1>7
  <2> QED
    BY <2>1, <2>2
<1>9. ASSUME NEW i \in 1..(R + 1), NEW j \in 1..(R + 1), routed'[i] = routed'[j] PROVE i = j
  <2>1. (i = R + 1 \/ i \in 1..R) /\ (j = R + 1 \/ j \in 1..R)
    BY <1>4
  <2> QED
    BY <1>3, <1>7, <1>9, <2>1
<1>10. Length(Len(cache'), Len(routed'))
  BY <1>3, <1>6, <1>7
<1>11. \A i, j \in 1..Len(routed') : routed'[i] = routed'[j] => i = j
  BY <1>7, <1>9
<1>12. \A i \in 1..Len(cache') :
        /\ cache'[i].conv = routed'[Len(routed') - Len(cache') + i]
        /\ cache'[i].server = server'[cache'[i].conv]
  <2>1. PICK a : a = Len(cache')
    OBVIOUS
  <2>2. PICK b : b = Len(routed')
    OBVIOUS
  <2>3. a = n + 1 /\ b = R + 1
    BY <1>6, <1>7, <2>1, <2>2
  <2>4. ASSUME NEW i \in 1..a PROVE b - a + i = R + 1 - (n + 1) + i /\ i \in 1..(n + 1)
    BY <1>4, <2>3
  <2>5. \A i \in 1..a : /\ cache'[i].conv = routed'[b - a + i]
                         /\ cache'[i].server = server'[cache'[i].conv]
    BY <1>8, <2>4, Zenon
  <2> QED
    BY <2>1, <2>2, <2>5, Zenon
<1> QED
  BY <1>6, <1>7, <1>10, <1>11, <1>12, Zenon DEF CacheInv, Length, Entries, Servers

-----------------------------------------------------------------------------
(* The calls a server has: the set whose size Load is.                     *)
Calls(s) == {c \in Conversations : server[c] = s /\ pc[c] # "idle"}

(* The calls on a server are finitely many, and its load is their number.  *)
LEMMA CallsFinite ==
    ASSUME NEW s
    PROVE  IsFiniteSet(Calls(s)) /\ Load(s) = Cardinality(Calls(s)) /\ Load(s) \in Nat
<1>1. IsFiniteSet(Conversations) /\ Calls(s) \subseteq Conversations
  BY PoolAssumption DEF Calls
<1>2. IsFiniteSet(Calls(s))
  BY <1>1, FS_Subset
<1>3. Load(s) = Cardinality(Calls(s))
  BY DEF Load, Calls
<1> QED
  BY <1>2, <1>3, FS_CardinalityType

(* The server a conversation is given is active.                           *)
LEMMA CandidatesActive ==
    ASSUME NEW c \in Conversations
    PROVE  Candidates(c) \subseteq Active
BY DEF Candidates, LeastLoaded

(* The counts, the phases and the servers keep their types.                *)
LEMMA PoolStep ==
    ASSUME PoolInv, [Next]_vars
    PROVE  PoolInv'
<1>1. ASSUME NEW c \in Conversations, Acquire(c) PROVE PoolInv'
  <2>1. PICK s \in Candidates(c) : /\ inflight' = [inflight EXCEPT ![s] = @ + 1]
                                   /\ server' = [server EXCEPT ![c] = s]
    BY <1>1 DEF Acquire
  <2>2. s \in Active
    BY <2>1, CandidatesActive
  <2>3. inflight' \in [Active -> Nat] /\ DOMAIN inflight' = Active
    BY <2>1, <2>2 DEF PoolInv, Active
  <2> QED
    BY <1>1, <2>1, <2>2, <2>3 DEF PoolInv, Acquire, Active
<1>2. ASSUME NEW c \in Conversations, Generated(c) PROVE PoolInv'
  BY <1>2 DEF PoolInv, Generated, Active
<1>3. ASSUME NEW c \in Conversations, Release(c) PROVE PoolInv'
  <2>1. inflight' \in [Active -> Nat] /\ DOMAIN inflight' = Active
    BY <1>3 DEF PoolInv, Release, Decrement, Active
  <2> QED
    BY <1>3, <2>1 DEF PoolInv, Release, Active
<1>4. ASSUME NEW S \in SUBSET Hybrid, AddServers(S) PROVE PoolInv'
  <2>1. inflight' \in [Active \cup S -> Nat] /\ DOMAIN inflight' = Active \cup S
    BY <1>4 DEF PoolInv, AddServers, Active
  <2> QED
    BY <1>4, <2>1 DEF PoolInv, AddServers, Active, Servers
<1>5. ASSUME NEW S \in SUBSET Hybrid, RemoveServers(S) PROVE PoolInv'
  <2>1. inflight' \in [Active \ S -> Nat] /\ DOMAIN inflight' = Active \ S
    BY <1>5 DEF PoolInv, RemoveServers, Active
  <2> QED
    BY <1>5, <2>1, PoolAssumption DEF PoolInv, RemoveServers, Active, Servers
<1>6. CASE UNCHANGED vars
  BY <1>6 DEF PoolInv, vars, Active
<1> QED
  BY <1>1, <1>2, <1>3, <1>4, <1>5, <1>6 DEF Next

(* A count changes with the set of calls it counts, or is reset below it.  *)
LEMMA CountStep ==
    ASSUME PoolInv, NeverOverCounts, [Next]_vars
    PROVE  NeverOverCounts'
<1> SUFFICES ASSUME NEW t \in Active' PROVE inflight'[t] <= Load(t)'
  BY DEF NeverOverCounts
<1> DEFINE B == Calls(t)
           Bn == Calls(t)'
<1>f. /\ IsFiniteSet(B) /\ Load(t) = Cardinality(B) /\ Load(t) \in Nat
  BY CallsFinite
<1>g. /\ Load(t)' = Cardinality(Bn) /\ Load(t)' \in Nat
  <2>1. Bn \subseteq Conversations
    BY DEF Calls
  <2>2. IsFiniteSet(Bn)
    BY <2>1, PoolAssumption, FS_Subset
  <2>3. Load(t)' = Cardinality(Bn)
    BY DEF Load, Calls
  <2> QED
    BY <2>2, <2>3, FS_CardinalityType
<1>i. t \in Active => inflight[t] <= Load(t) /\ inflight[t] \in Nat
  BY DEF NeverOverCounts, PoolInv
<1>1. ASSUME NEW c \in Conversations, Acquire(c) PROVE inflight'[t] <= Load(t)'
  <2>1. PICK s \in Candidates(c) : /\ inflight' = [inflight EXCEPT ![s] = @ + 1]
                                   /\ server' = [server EXCEPT ![c] = s]
    BY <1>1 DEF Acquire
  <2>2. s \in Active /\ t \in Active
    BY <2>1, CandidatesActive DEF Active
  <2>3. pc[c] = "idle" /\ pc' = [pc EXCEPT ![c] = "generating"]
    BY <1>1 DEF Acquire
  <2>4. c \notin B
    BY <2>3 DEF Calls
  <2>5. CASE t = s
    <3>1. Bn = B \cup {c}
      BY <2>1, <2>3, <2>5 DEF Calls, PoolInv
    <3>2. Cardinality(Bn) = Cardinality(B) + 1
      BY <3>1, <2>4, <1>f, FS_AddElement
    <3>3. inflight'[t] = inflight[t] + 1
      BY <2>1, <2>2, <2>5 DEF PoolInv
    <3> HIDE DEF B, Bn
    <3> QED
      BY <3>2, <3>3, <1>f, <1>g, <1>i, <2>2
  <2>6. CASE t # s
    <3>1. Bn = B
      BY <2>1, <2>3, <2>4, <2>6 DEF Calls, PoolInv
    <3>2. inflight'[t] = inflight[t]
      BY <2>1, <2>2, <2>6 DEF PoolInv
    <3> HIDE DEF B, Bn
    <3> QED
      BY <3>1, <3>2, <1>f, <1>g, <1>i, <2>2
  <2> QED
    BY <2>5, <2>6
<1>2. ASSUME NEW c \in Conversations, Generated(c) PROVE inflight'[t] <= Load(t)'
  <2>1. Bn = B
    BY <1>2 DEF Calls, Generated, PoolInv
  <2>2. inflight'[t] = inflight[t] /\ t \in Active
    BY <1>2 DEF Generated, Active
  <2> HIDE DEF B, Bn
  <2> QED
    BY <2>1, <2>2, <1>f, <1>g, <1>i
<1>3. ASSUME NEW c \in Conversations, Release(c) PROVE inflight'[t] <= Load(t)'
  <2>1. pc[c] = "releasing" /\ pc' = [pc EXCEPT ![c] = "idle"] /\ server' = server
    BY <1>3 DEF Release
  <2>2. inflight' = IF server[c] \in Active /\ inflight[server[c]] > 0
                    THEN [inflight EXCEPT ![server[c]] = @ - 1] ELSE inflight
    BY <1>3 DEF Release, Decrement
  <2>3. t \in Active
    BY <2>2 DEF Active
  <2>4. CASE t = server[c]
    <3>1. c \in B /\ Bn = B \ {c}
      BY <2>1, <2>4 DEF Calls, PoolInv
    <3>2. Cardinality(Bn) = Cardinality(B) - 1
      BY <3>1, <1>f, FS_RemoveElement
    <3>3. inflight'[t] = IF inflight[t] > 0 THEN inflight[t] - 1 ELSE inflight[t]
      BY <2>2, <2>3, <2>4 DEF PoolInv
    <3> HIDE DEF B, Bn
    <3> QED
      BY <3>2, <3>3, <1>f, <1>g, <1>i, <2>3
  <2>5. CASE t # server[c]
    <3>1. Bn = B
      BY <2>1, <2>5 DEF Calls, PoolInv
    <3>2. inflight'[t] = inflight[t]
      BY <2>2, <2>3, <2>5 DEF PoolInv
    <3> HIDE DEF B, Bn
    <3> QED
      BY <3>1, <3>2, <1>f, <1>g, <1>i, <2>3
  <2> QED
    BY <2>4, <2>5
<1>4. ASSUME NEW S \in SUBSET Hybrid, AddServers(S) PROVE inflight'[t] <= Load(t)'
  <2>1. Bn = B
    BY <1>4 DEF Calls, AddServers
  <2>2. CASE t \in S
    <3>1. inflight'[t] = 0
      BY <1>4, <2>2 DEF AddServers
    <3> HIDE DEF B, Bn
    <3> QED
      BY <3>1, <1>g
  <2>3. CASE t \notin S
    <3>1. inflight'[t] = inflight[t] /\ t \in Active
      BY <1>4, <2>3 DEF AddServers, Active
    <3> HIDE DEF B, Bn
    <3> QED
      BY <2>1, <3>1, <1>f, <1>g, <1>i
  <2> QED
    BY <2>2, <2>3
<1>5. ASSUME NEW S \in SUBSET Hybrid, RemoveServers(S) PROVE inflight'[t] <= Load(t)'
  <2>1. Bn = B
    BY <1>5 DEF Calls, RemoveServers
  <2>2. inflight'[t] = inflight[t] /\ t \in Active
    BY <1>5 DEF RemoveServers, Active
  <2> HIDE DEF B, Bn
  <2> QED
    BY <2>1, <2>2, <1>f, <1>g, <1>i
<1>6. CASE UNCHANGED vars
  <2>1. Bn = B
    BY <1>6 DEF Calls, vars
  <2>2. inflight'[t] = inflight[t] /\ t \in Active
    BY <1>6 DEF vars, Active
  <2> HIDE DEF B, Bn
  <2> QED
    BY <2>1, <2>2, <1>f, <1>g, <1>i
<1> QED
  BY <1>1, <1>2, <1>3, <1>4, <1>5, <1>6 DEF Next

(* Only a call changes the cache, the history or the server of a           *)
(* conversation.                                                           *)
LEMMA CacheStep ==
    ASSUME PoolInv, CacheInv, [Next]_vars
    PROVE  CacheInv'
<1>1. ASSUME NEW c \in Conversations, Acquire(c) PROVE CacheInv'
  <2>1. PICK s \in Candidates(c) : /\ cache' = Store(c, s)
                                   /\ server' = [server EXCEPT ![c] = s]
    BY <1>1 DEF Acquire
  <2>2. s \in Servers
    BY <2>1, CandidatesActive DEF PoolInv
  <2>3. routed' = Append(RemoveFirst(routed, c), c)
    BY <1>1 DEF Acquire
  <2> QED
    BY <2>1, <2>2, <2>3, StoreStep
<1>2. CASE UNCHANGED <<cache, server, routed>>
  BY <1>2 DEF CacheInv
<1>3. (\E c \in Conversations : Acquire(c)) \/ UNCHANGED <<cache, server, routed>>
  BY DEF Next, vars, Generated, Release, AddServers, RemoveServers
<1> QED
  BY <1>1, <1>2, <1>3

(* At first nothing is routed.                                             *)
LEMMA InitInv == Init => IInv
<1> SUFFICES ASSUME Init PROVE IInv
  OBVIOUS
<1>1. PoolInv
  BY DEF Init, PoolInv, Active, Servers
<1>2. \A s \in Active : inflight[s] = 0 /\ Load(s) \in Nat
  BY CallsFinite DEF Init, Active
<1>3. NeverOverCounts
  BY <1>2 DEF NeverOverCounts
<1>4. CacheInv
  BY CacheAssumption DEF Init, CacheInv, Length
<1> QED
  BY <1>1, <1>3, <1>4 DEF IInv

(* The inductive invariant: the counts, and the cache as the tail of the   *)
(* history of calls, whatever servers come and go.                         *)
THEOREM Invariance == Spec => []IInv
<1>1. Init => IInv
  BY InitInv
<1>2. IInv /\ [Next]_vars => IInv'
  BY PoolStep, CountStep, CacheStep DEF IInv
<1> QED
  BY <1>1, <1>2, PTL DEF Spec

(* Types are kept, the routing cache never exceeds its size and never      *)
(* holds two entries of one conversation.                                  *)
THEOREM TypeCorrect == Spec => []TypeOK
<1>1. ASSUME IInv PROVE TypeOK
  <2>1. PoolInv /\ CacheInv
    BY <1>1 DEF IInv
  <2>2. /\ Standalone \subseteq Active /\ Active \subseteq Servers
        /\ \A s \in Active : inflight[s] \in Nat
        /\ pc \in [Conversations -> {"idle", "generating", "releasing"}]
        /\ server \in [Conversations -> Servers \cup {NoServer}]
    BY <2>1 DEF PoolInv
  <2>3. Len(cache) <= CacheSize
    BY <2>1, Sizes
  <2>4. routed \in Seq(Conversations) /\ DOMAIN cache = 1..Len(cache)
    BY <2>1, LenProperties DEF CacheInv
  <2>5. ASSUME NEW i \in 1..Len(cache), NEW j \in 1..Len(cache), cache[i].conv = cache[j].conv
        PROVE  i = j
    <3>1. /\ Len(routed) - Len(cache) + i \in 1..Len(routed)
          /\ Len(routed) - Len(cache) + j \in 1..Len(routed)
          /\ Len(routed) \in Nat /\ Len(cache) \in Nat
      BY <2>1, Sizes
    <3>2. routed[Len(routed) - Len(cache) + i] = routed[Len(routed) - Len(cache) + j]
      BY <2>1, <2>5 DEF CacheInv
    <3>3. Len(routed) - Len(cache) + i = Len(routed) - Len(cache) + j
      BY <2>1, <3>1, <3>2 DEF CacheInv
    <3> QED
      BY <3>1, <3>3
  <2> QED
    BY <2>2, <2>3, <2>4, <2>5 DEF TypeOK
<1> QED
  BY <1>1, Invariance, PTL

(* No server is ever counted busier than it is, although its calls may     *)
(* outlive its stay in the pool and be released after it has come back.    *)
THEOREM NeverOver == Spec => []NeverOverCounts
BY Invariance, PTL DEF IInv

(* A conversation among the last CacheSize that were routed finds its      *)
(* server in the cache.                                                    *)
LEMMA StillCached ==
    ASSUME CacheInv, NEW c \in Conversations, RoutedLately(c)
    PROVE  Cached(c) = {server[c]}
<1>1. PICK k \in 1..Len(routed) : routed[k] = c /\ k > Len(routed) - CacheSize
  BY LenProperties DEF RoutedLately, CacheInv
<1>2. /\ Len(cache) \in Nat /\ Len(routed) \in Nat /\ Len(cache) <= Len(routed)
      /\ Len(cache) <= CacheSize /\ (Len(cache) < CacheSize => Len(cache) = Len(routed))
      /\ CacheSize \in Nat
  BY Sizes, CacheAssumption
<1>3. PICK m \in 1..Len(cache) : Len(routed) - Len(cache) + m = k
  <2>1. k - (Len(routed) - Len(cache)) \in 1..Len(cache)
    BY <1>1, <1>2
  <2> QED
    BY <1>2, <2>1
<1>4. cache[m].conv = c
  BY <1>1, <1>3 DEF CacheInv
<1>5. \A i \in 1..Len(cache) : cache[i].conv = c => cache[i].server = server[c]
  BY DEF CacheInv
<1>6. DOMAIN cache = 1..Len(cache)
  BY LenProperties DEF CacheInv
<1> QED
  BY <1>3, <1>4, <1>5, <1>6 DEF Cached

(* A conversation routed lately returns to its server while that server is *)
(* active, for every cache size and every way servers come and go.         *)
THEOREM Sticky == Spec => StickySession
<1> DEFINE Stays(c) ==
        (pc[c] = "idle" /\ pc'[c] = "generating" /\ RoutedLately(c) /\ server[c] \in Active)
            => server'[c] = server[c]
<1>1. ASSUME IInv, [Next]_vars, NEW c \in Conversations PROVE Stays(c)
  <2> SUFFICES ASSUME pc[c] = "idle", pc'[c] = "generating", RoutedLately(c), server[c] \in Active
               PROVE  server'[c] = server[c]
    OBVIOUS
  <2>1. PoolInv /\ CacheInv
    BY <1>1 DEF IInv
  <2>2. Acquire(c)
    <3>1. \A d \in Conversations : Acquire(d) => d = c
      BY <2>1 DEF Acquire, PoolInv
    <3>2. \A d \in Conversations : ~Generated(d) /\ ~Release(d)
      BY <2>1 DEF Generated, Release, PoolInv
    <3>3. pc' # pc
      OBVIOUS
    <3> QED
      BY <1>1, <3>1, <3>2, <3>3 DEF Next, vars, AddServers, RemoveServers
  <2>3. Cached(c) = {server[c]}
    BY <2>1, StillCached
  <2>4. Candidates(c) = {server[c]}
    BY <2>3 DEF Candidates
  <2> QED
    BY <2>1, <2>2, <2>4 DEF Acquire, PoolInv
<1>2. IInv /\ [Next]_vars => [\A c \in Conversations : Stays(c)]_vars
  BY <1>1
<1> QED
  BY <1>2, Invariance, PTL DEF Spec, StickySession
=============================================================================
