---------------------------- MODULE LoadBalancer ----------------------------
(***************************************************************************)
(* GlobalRequestLoadBalancer and its clients (LLMServerClient) of          *)
(* verl/workers/rollout/llm_server.py, with the hybrid replicas that       *)
(* FullyAsyncLLMServerManager adds and removes while requests run          *)
(* (verl/experimental/fully_async_policy/fully_async_rollouter.py).        *)
(*                                                                         *)
(* The balancer is a Ray actor that runs one method at a time.  A          *)
(* conversation makes one call after the other under one sticky id: it     *)
(* acquires a server, generates there, and sends a release it does not     *)
(* wait for, which reaches the balancer before its next acquire.           *)
(***************************************************************************)
EXTENDS Integers, Sequences, SequencesExt, FiniteSets

CONSTANTS
    Conversations,   \* sticky request ids
    Standalone,      \* servers of the initial pool
    Hybrid,          \* servers that come and go
    CacheSize        \* max_cache_size of the routing cache

ASSUME PoolAssumption ==
    /\ Standalone # {}
    /\ Standalone \cap Hybrid = {}
    /\ IsFiniteSet(Conversations)
ASSUME CacheAssumption == CacheSize \in Nat \ {0}

Servers == Standalone \cup Hybrid

VARIABLES
    inflight,   \* _inflight_requests, a function on the active servers
    cache,      \* _request_id_to_server, least recently used entry first
    pc,         \* per conversation: "idle", "generating" or "releasing"
    server,     \* per conversation: the server of its latest call
    routed      \* history: the conversations in the order of their latest call

vars == <<inflight, cache, pc, server, routed>>

NoServer == "none"
Active == DOMAIN inflight

(* The calls that run, or have run and are not yet released, on a server.  *)
Load(s) == Cardinality({c \in Conversations : server[c] = s /\ pc[c] # "idle"})

-----------------------------------------------------------------------------
(* The LRU cache: reading or writing an entry makes it the latest.         *)

Without(c) == RemoveFirstMatch(cache, LAMBDA e : e.conv = c)
Cached(c) == {cache[i].server : i \in {j \in DOMAIN cache : cache[j].conv = c}}
MutEvictLatest(c, s) ==
    LET rest == Without(c)
        kept == IF Len(rest) >= CacheSize THEN Front(rest) ELSE rest
    IN  Append(kept, [conv |-> c, server |-> s])
Store(c, s) ==
    LET rest == Without(c)
        kept == IF Len(rest) >= CacheSize THEN Tail(rest) ELSE rest
    IN  Append(kept, [conv |-> c, server |-> s])

LeastLoaded == {s \in Active : \A t \in Active : inflight[s] <= inflight[t]}

(* The server of a sticky conversation if it is still active, else one of  *)
(* the least loaded ones.                                                  *)
Candidates(c) ==
    IF Cached(c) \cap Active # {} THEN Cached(c) \cap Active ELSE LeastLoaded

(* acquire_server.                                                         *)
Acquire(c) ==
    /\ pc[c] = "idle"
    /\ \E s \in Candidates(c) :
        /\ inflight' = [inflight EXCEPT ![s] = @ + 1]
        /\ cache' = Store(c, s)
        /\ server' = [server EXCEPT ![c] = s]
    /\ pc' = [pc EXCEPT ![c] = "generating"]
    /\ routed' = Append(RemoveFirst(routed, c), c)

(* server.generate returns or raises; the finally clause sends a release.  *)
Generated(c) ==
    /\ pc[c] = "generating"
    /\ pc' = [pc EXCEPT ![c] = "releasing"]
    /\ UNCHANGED <<inflight, cache, server, routed>>

MutNoFloor(s) == inflight' = [inflight EXCEPT ![s] = @ - 1]
MutNoRelease(s) == UNCHANGED inflight
Decrement(s) ==
    inflight' = IF s \in Active /\ inflight[s] > 0
                THEN [inflight EXCEPT ![s] = @ - 1] ELSE inflight

(* release_server.                                                         *)
Release(c) ==
    /\ pc[c] = "releasing"
    /\ Decrement(server[c])
    /\ pc' = [pc EXCEPT ![c] = "idle"]
    /\ UNCHANGED <<cache, server, routed>>

(* add_servers and remove_servers, for sets of hybrid replicas; the        *)
(* manager skips replicas that are active already, or not active.          *)
AddServers(S) ==
    /\ S # {} /\ S \cap Active = {}
    /\ inflight' = [s \in Active \cup S |-> IF s \in S THEN 0 ELSE inflight[s]]
    /\ UNCHANGED <<cache, pc, server, routed>>

RemoveServers(S) ==
    /\ S # {} /\ S \subseteq Active
    /\ inflight' = [s \in Active \ S |-> inflight[s]]
    /\ UNCHANGED <<cache, pc, server, routed>>

-----------------------------------------------------------------------------
Init ==
    /\ inflight = [s \in Standalone |-> 0]
    /\ cache = <<>>
    /\ pc = [c \in Conversations |-> "idle"]
    /\ server = [c \in Conversations |-> NoServer]
    /\ routed = <<>>

Next ==
    \/ \E c \in Conversations : Acquire(c) \/ Generated(c) \/ Release(c)
    \/ \E S \in SUBSET Hybrid : AddServers(S) \/ RemoveServers(S)

Spec == Init /\ [][Next]_vars

-----------------------------------------------------------------------------
(* Counts are natural numbers of servers of the pool, and the routing      *)
(* cache holds at most one entry of a conversation and CacheSize in all.   *)
TypeOK ==
    /\ Standalone \subseteq Active /\ Active \subseteq Servers
    /\ \A s \in Active : inflight[s] \in Nat
    /\ Len(cache) <= CacheSize
    /\ \A i, j \in DOMAIN cache : cache[i].conv = cache[j].conv => i = j
    /\ pc \in [Conversations -> {"idle", "generating", "releasing"}]
    /\ server \in [Conversations -> Servers \cup {NoServer}]
    /\ routed \in Seq(Conversations)

(* A count never exceeds the calls a server really has, although servers   *)
(* leave and come back while their calls run: a server that is idle is     *)
(* never avoided for ever as if it were busy.                              *)
NeverOverCounts == \A s \in Active : inflight[s] <= Load(s)

RoutedLately(c) ==
    \E i \in DOMAIN routed : routed[i] = c /\ i > Len(routed) - CacheSize

(* One of the CacheSize conversations routed last returns to the server of *)
(* its latest call whenever that server is active, whatever calls, evicted *)
(* entries and leaving or returning servers came in between.               *)
StickySession ==
    [][\A c \in Conversations :
        (pc[c] = "idle" /\ pc'[c] = "generating" /\ RoutedLately(c) /\ server[c] \in Active)
            => server'[c] = server[c]]_vars
=============================================================================
