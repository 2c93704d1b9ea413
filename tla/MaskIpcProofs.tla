---------------------------- MODULE MaskIpcProofs ----------------------------
(***************************************************************************)
(* Proofs about MaskIpc for any ranks, sockets, rows and lengths: a mask   *)
(* that generate() returns labels every token right, whatever was lost,    *)
(* late or sent more than once; while nothing is lost or late, responses   *)
(* are exact, and with one rank generate() raises for none of them and     *)
(* leaves nothing in the stores.                                           *)
(***************************************************************************)
EXTENDS MaskIpc, SequenceTheorems, WellFoundedInduction, TLAPS

Event == [pos: Nat, token: Token]
StopMessage == [type: {"OPS1"}, pos: Nat]
RowMessage == [type: {"OPD"}, evs: Seq(Event), acts: Nat]
Message == StopMessage \cup RowMessage

(* The head of what the workers have sampled.                              *)
HeadOf(toks) ==
    /\ toks \in Seq(Token) /\ Len(toks) <= Len(sampled)
    /\ \A i \in 1..Len(toks) : toks[i] = sampled[i]

(* The latest row is the end of what was sampled, and all of what was      *)
(* published has been sampled.                                             *)
RowInv ==
    /\ sampled \in Seq(Token) /\ row \in Seq(Token) /\ Len(row) <= Len(sampled)
    /\ \A i \in 1..Len(row) : row[i] = sampled[Len(sampled) - Len(row) + i]
    /\ seen \in Nat /\ seen <= Len(Response(sampled))

(* An event says of a position what was sampled there.                     *)
Truthful(e) == e.pos \in 1..Len(sampled) /\ e.token = sampled[e.pos]

EventsInv == events \in Seq(Event) /\ \A i \in 1..Len(events) : Truthful(events[i])

ChannelInv ==
    /\ channel \in Seq(Message)
    /\ \A i \in 1..Len(channel) :
        channel[i].type = "OPD" =>
            \A j \in 1..Len(channel[i].evs) : Truthful(channel[i].evs[j])
    /\ stops \subseteq Nat

(* What generate() holds is a head of what was sampled.                    *)
HeadInv ==
    /\ HeadOf(raw) /\ HeadOf(tokens)
    /\ pc \in {"generate", "stop_poll"} => tokens = <<>>
    /\ pc # "returned" => mask = <<>>

IInv == RowInv /\ EventsInv /\ ChannelInv /\ HeadInv /\ MaskSound

(* The stop token was sampled at position p.                               *)
StopAt(p) == p \in 1..Len(sampled) /\ sampled[p].kind = "stop"

PhaseInv ==
    /\ deployment \in Deployments
    /\ phase \in [Ranks -> {"idle", "forward", "rejected"}]
    /\ pc = "generate" => raw = <<>>

(* Only the latest row can hold the end of the response, the stop token is *)
(* not its first token, and until the driver has finished the row nothing  *)
(* of it has been published.                                               *)
ShapeInv ==
    /\ Len(sampled) > 0 => Len(row) > 0
    /\ \A r \in Ranks : phase[r] # "idle" => Len(row) > 0
    /\ Before < MaxTokens
    /\ \A i \in 1..Before : sampled[i].kind \notin {"eos", "stop"}
    /\ \A i \in 1..Len(row) : row[i].kind = "stop" => i = Len(row) /\ i > 1
    /\ phase[Driver] # "idle" => seen <= Before /\ Len(raw) <= Before

IsStop(k) == k \in 1..Len(channel) /\ channel[k].type = "OPS1"

(* A stop event says where the stop token is.                              *)
StopInv ==
    /\ \A p \in stops : StopAt(p)
    /\ \A k \in 1..Len(channel) : IsStop(k) => StopAt(channel[k].pos)

(* From the rejection sampler of the driver on, the event of a stop token  *)
(* is on its way or in the store, until generate() takes it.               *)
StopSentInv ==
    (/\ Reliable /\ pc \in {"generate", "stop_poll"}
     /\ phase[Driver] # "forward" /\ StopAt(Len(sampled))) =>
        stops # {} \/ \E k \in 1..Len(channel) : IsStop(k)

ExactInv == PhaseInv /\ ShapeInv /\ StopInv /\ StopSentInv /\ ResponseExact

(* What follows is for one rank and a socket that keeps its datagrams.     *)
Single == Reliable /\ Ranks = {Driver}

(* The number of tokens whose labels have been sent.                       *)
Labelled == IF phase[Driver] = "idle" THEN Len(sampled) ELSE Before

(* A message brings the labels of the positions from + 1 to to.            *)
Brings(msg, from, to) ==
    IF msg.type = "OPS1" THEN to = from
    ELSE to = from + Len(msg.evs) /\ \A j \in 1..Len(msg.evs) : msg.evs[j].pos = from + j

(* The messages ch bring the labels of the positions first + 1 to last one *)
(* after the other, message k from f[k] to f[k + 1], and each begins at    *)
(* most b tokens into the response.                                        *)
Chained(ch, first, last, b, f) ==
    /\ f \in [1..(Len(ch) + 1) -> Nat]
    /\ f[1] = first /\ f[Len(ch) + 1] = last
    /\ \A k \in 1..Len(ch) : f[k] <= b /\ Brings(ch[k], f[k], f[k + 1])

InPlace == \A i \in 1..Len(events) : events[i].pos = i

(* Until generate() pops the stores, the labels in the stores and those in *)
(* the socket are consecutive, without a gap or a double, and every        *)
(* datagram on its way starts in front of the latest row or with it.       *)
ChainInv ==
    (Single /\ pc \notin {"returned", "raised"}) =>
        InPlace /\ \E f : Chained(channel, Len(events), Labelled, Before, f)

(* There is one stop event at most.                                        *)
OnceInv ==
    Single =>
        /\ \A i, j \in 1..Len(channel) : IsStop(i) /\ IsStop(j) => i = j
        /\ stops # {} => \A k \in 1..Len(channel) : ~IsStop(k)
        /\ phase[Driver] = "forward" => stops = {} /\ \A k \in 1..Len(channel) : ~IsStop(k)

(* A response that has ended takes the last datagrams with it.             *)
DrainInv ==
    (Single /\ Ended(raw)) =>
        /\ pc = "mask_poll" => stops = {} /\ \A k \in 1..Len(channel) : ~IsStop(k)
        /\ pc = "returned" =>
            /\ stops = {} /\ events = <<>> /\ channel = <<>>
            /\ phase[Driver] = "idle"

(* Without the export no datagram brings actions.                          *)
ActionInv ==
    ~ExportAction =>
        /\ actions = 0
        /\ \A k \in 1..Len(channel) : channel[k].type = "OPD" => channel[k].acts = 0

SingleInv == ChainInv /\ OnceInv /\ DrainInv /\ ActionInv

(* A reliable deployment has one rank: with more of them the wait for the  *)
(* mask counts copies, and copies of labels arrive after the response.     *)
OneReliableRank == \A d \in Deployments : d.reliable => d.ranks = {Driver}
-----------------------------------------------------------------------------
(* Min of the community modules is the least element of a set of numbers.  *)
LEMMA MinLeast ==
    ASSUME NEW S \in SUBSET Nat, S # {}
    PROVE  Min(S) \in S /\ \A j \in S : Min(S) <= j
<1> DEFINE R == {ss \in Nat \X Nat : ss[1] < ss[2]}
<1>1. IsWellFoundedOn(R, Nat)
  <2>1. R = OpToRel(<, Nat)
    BY Zenon DEF OpToRel
  <2> QED
    BY <2>1, NatLessThanWellFounded, Zenon
<1>2. PICK x \in S : \A y \in S : ~(<<y, x>> \in R)
  <2> HIDE DEF R
  <2> QED
    BY <1>1, WFMin
<1>3. ASSUME NEW y \in S PROVE x <= y
  <2>1. <<y, x>> \in Nat \X Nat /\ <<y, x>>[1] = y /\ <<y, x>>[2] = x
    OBVIOUS
  <2>2. ~(y < x)
    BY <2>1, <1>2, Zenon
  <2> QED
    BY <2>2
<1> QED
  BY <1>3 DEF Min

(* The first n elements of a sequence.                                     *)
LEMMA Heads ==
    ASSUME NEW S, NEW q \in Seq(S), NEW n \in Nat, n <= Len(q)
    PROVE  /\ SubSeq(q, 1, n) \in Seq(S) /\ Len(SubSeq(q, 1, n)) = n
           /\ \A i \in 1..n : SubSeq(q, 1, n)[i] = q[i]
<1>1. Len(q) \in Nat /\ \A i \in 1..n : q[i] \in S
  BY LenProperties, ElementOfSeq
<1>2. /\ SubSeq(q, 1, n) \in Seq(S)
      /\ Len(SubSeq(q, 1, n)) = IF 1 <= n THEN n - 1 + 1 ELSE 0
      /\ \A i \in 1..(n - 1 + 1) : SubSeq(q, 1, n)[i] = q[1 + i - 1]
  BY <1>1, SubSeqProperties
<1>3. Len(SubSeq(q, 1, n)) = n
  BY <1>2
<1>4. ASSUME NEW i \in 1..n PROVE SubSeq(q, 1, n)[i] = q[i]
  <2>1. i \in 1..(n - 1 + 1) /\ 1 + i - 1 = i
    OBVIOUS
  <2>2. SubSeq(q, 1, n)[i] = q[1 + i - 1]
    BY <1>2, <2>1
  <2> QED
    BY <2>1, <2>2
<1> QED
  BY <1>2, <1>3, <1>4

(* The positions at which the scheduler may cut a response.                *)
Ends(toks) ==
    {i \in DOMAIN toks : toks[i].kind \in {"eos", "stop"}} \cup {MaxTokens, Len(toks)}

(* A response is a head of what was sampled, and reaches at least as far   *)
(* as any position with no end token and no token limit in front of it.    *)
LEMMA ResponseHead ==
    ASSUME NEW toks \in Seq(Token)
    PROVE  /\ Response(toks) \in Seq(Token) /\ Len(Response(toks)) <= Len(toks)
           /\ Len(Response(toks)) \in Nat
           /\ \A i \in 1..Len(Response(toks)) : Response(toks)[i] = toks[i]
           /\ \A n \in Nat : (\A j \in Ends(toks) : n <= j) => n <= Len(Response(toks))
<1> DEFINE m == Min(Ends(toks))
<1>1. Len(toks) \in Nat /\ DOMAIN toks = 1..Len(toks) /\ MaxTokens \in Nat
  BY LenProperties, SizeAssumption
<1>2. Ends(toks) \in SUBSET Nat /\ Len(toks) \in Ends(toks)
  BY <1>1 DEF Ends
<1>3. m \in Ends(toks) /\ m <= Len(toks)
  BY <1>2, MinLeast
<1>4. m \in Nat
  BY <1>2, <1>3
<1>5. Response(toks) = SubSeq(toks, 1, m)
  BY DEF Response, Ends
<1> HIDE DEF m
<1>6. /\ SubSeq(toks, 1, m) \in Seq(Token) /\ Len(SubSeq(toks, 1, m)) = m
      /\ \A i \in 1..m : SubSeq(toks, 1, m)[i] = toks[i]
  BY <1>3, <1>4, Heads
<1> QED
  BY <1>3, <1>4, <1>5, <1>6

(* Rows are sequences of tokens.                                           *)
LEMMA RowsAreSequences == \A r \in Rows : r \in Seq(Token)
<1> SUFFICES ASSUME NEW r \in Rows PROVE r \in Seq(Token)
  OBVIOUS
<1>1. PICK n \in 1..MaxRow : r \in [1..n -> Token]
  BY DEF Rows
<1>2. n \in Nat
  BY <1>1, SizeAssumption
<1> QED
  BY <1>1, <1>2, SeqDef

(* Sampling a row leaves what was sampled before in place.                 *)
LEMMA Grown ==
    ASSUME RowInv, StartRow
    PROVE  /\ row' \in Seq(Token) /\ sampled' \in Seq(Token)
           /\ Len(sampled) \in Nat /\ Len(row') \in Nat
           /\ Len(sampled') = Len(sampled) + Len(row')
           /\ \A i \in 1..Len(sampled) : sampled'[i] = sampled[i]
           /\ \A i \in 1..Len(row') : row'[i] = sampled'[Len(sampled) + i]
<1>1. row' \in Rows /\ sampled' = sampled \o row'
  BY DEF StartRow
<1>2. row' \in Seq(Token) /\ sampled \in Seq(Token)
  BY <1>1, RowsAreSequences DEF RowInv
<1>3. Len(row') \in Nat /\ Len(sampled) \in Nat
  BY <1>2, LenProperties
<1>4. /\ sampled' \in Seq(Token) /\ Len(sampled') = Len(sampled) + Len(row')
      /\ \A i \in 1..(Len(sampled) + Len(row')) :
            sampled'[i] = IF i <= Len(sampled) THEN sampled[i] ELSE row'[i - Len(sampled)]
  BY <1>1, <1>2, ConcatProperties
<1>5. ASSUME NEW i \in 1..Len(sampled) PROVE sampled'[i] = sampled[i]
  BY <1>3, <1>4
<1>6. ASSUME NEW i \in 1..Len(row') PROVE row'[i] = sampled'[Len(sampled) + i]
  <2>1. /\ Len(sampled) + i \in 1..(Len(sampled) + Len(row'))
        /\ ~(Len(sampled) + i <= Len(sampled)) /\ Len(sampled) + i - Len(sampled) = i
    BY <1>3
  <2> QED
    BY <1>4, <2>1
<1> QED
  BY <1>2, <1>3, <1>4, <1>5, <1>6

(* A row that starts puts none of the published tokens in doubt.           *)
LEMMA SeenKept ==
    ASSUME RowInv, StartRow
    PROVE  seen <= Len(Response(sampled'))
<1>1. /\ sampled \in Seq(Token) /\ seen \in Nat /\ seen <= Len(Response(sampled))
      /\ DOMAIN sampled = 1..Len(sampled)
  BY LenProperties DEF RowInv
<1>2. /\ Len(Response(sampled)) <= Len(sampled) /\ Len(Response(sampled)) \in Nat
  BY <1>1, ResponseHead
<1>3. /\ sampled' \in Seq(Token) /\ Len(sampled) \in Nat /\ Len(row') \in Nat
      /\ Len(sampled') = Len(sampled) + Len(row')
      /\ \A i \in 1..Len(sampled) : sampled'[i] = sampled[i]
  BY Grown
<1>4. ~(Len(sampled) >= MaxTokens) /\ \A i \in 1..Len(sampled) : sampled[i].kind \notin {"eos", "stop"}
  BY <1>1 DEF StartRow, Ended
<1>5. ASSUME NEW j \in Ends(sampled') PROVE Len(sampled) <= j
  <2>1. CASE j = MaxTokens \/ j = Len(sampled')
    BY <2>1, <1>3, <1>4, SizeAssumption
  <2>2. CASE j \in DOMAIN sampled' /\ sampled'[j].kind \in {"eos", "stop"}
    <3>1. j \in 1..Len(sampled')
      BY <2>2, <1>3, LenProperties
    <3> QED
      BY <2>2, <3>1, <1>3, <1>4
  <2> QED
    BY <2>1, <2>2 DEF Ends
<1>6. Len(sampled) <= Len(Response(sampled')) /\ Len(Response(sampled')) \in Nat
  BY <1>3, <1>5, ResponseHead
<1> QED
  BY <1>1, <1>2, <1>3, <1>6

(* Rows are appended to what was sampled, and published in order.          *)
LEMMA RowStep ==
    ASSUME RowInv, [Next]_vars
    PROVE  RowInv'
<1>1. CASE StartRow
  <2>1. /\ row' \in Seq(Token) /\ sampled' \in Seq(Token)
        /\ Len(sampled) \in Nat /\ Len(row') \in Nat
        /\ Len(sampled') = Len(sampled) + Len(row')
        /\ \A i \in 1..Len(row') : row'[i] = sampled'[Len(sampled) + i]
    BY <1>1, Grown
  <2>2. seen' = seen /\ seen \in Nat
    BY <1>1 DEF StartRow, RowInv
  <2>3. seen' <= Len(Response(sampled'))
    BY <1>1, <2>2, SeenKept
  <2>4. ASSUME NEW i \in 1..Len(row') PROVE row'[i] = sampled'[Len(sampled') - Len(row') + i]
    <3>1. Len(sampled') - Len(row') + i = Len(sampled) + i
      BY <2>1
    <3> QED
      BY <2>1, <3>1
  <2>5. Len(row') <= Len(sampled')
    BY <2>1
  <2>6. seen' <= Len(Response(sampled)')
    BY <2>3 DEF Response
  <2> QED
    BY <2>1, <2>2, <2>4, <2>5, <2>6 DEF RowInv
<1>2. CASE Publish
  <2>1. sampled' = sampled /\ row' = row /\ seen' = Len(Response(sampled))
    BY <1>2 DEF Publish, workers
  <2>2. Len(Response(sampled)) \in Nat
    BY ResponseHead DEF RowInv
  <2>3. Response(sampled)' = Response(sampled)
    BY <2>1 DEF Response
  <2>4. seen' \in Nat /\ seen' <= Len(Response(sampled)')
    BY <2>1, <2>2, <2>3
  <2> QED
    BY <2>1, <2>4 DEF RowInv
<1>3. CASE UNCHANGED <<sampled, row, seen>>
  BY <1>3 DEF RowInv, Response
<1> QED
  BY <1>1, <1>2, <1>3 DEF Next, vars, workers, Work, RejectionSample, BookkeepingSync, Abort,
                          AbortNoOutputs, Receive, PopStopEvent, PopMask

(* What an event says is true after the step.                              *)
TruthfulNext(e) == e.pos \in 1..Len(sampled') /\ e.token = sampled'[e.pos]

(* What an event said stays true, and heads stay heads.                    *)
LEMMA StaysTruthful ==
    ASSUME RowInv, [Next]_vars
    PROVE  /\ \A e : Truthful(e) => TruthfulNext(e)
           /\ \A toks : HeadOf(toks) => toks \in Seq(Token) /\ Len(toks) <= Len(sampled')
                                        /\ \A i \in 1..Len(toks) : toks[i] = sampled'[i]
<1>1. CASE StartRow
  <2>1. /\ Len(sampled) \in Nat /\ Len(row') \in Nat /\ Len(sampled') = Len(sampled) + Len(row')
        /\ \A i \in 1..Len(sampled) : sampled'[i] = sampled[i]
    BY <1>1, Grown
  <2>2. ASSUME NEW e, Truthful(e) PROVE e.pos \in 1..Len(sampled') /\ e.token = sampled'[e.pos]
    <3>1. e.pos \in 1..Len(sampled) /\ e.token = sampled[e.pos]
      BY <2>2 DEF Truthful
    <3> QED
      BY <3>1, <2>1
  <2>3. ASSUME NEW toks, HeadOf(toks)
        PROVE  /\ toks \in Seq(Token) /\ Len(toks) <= Len(sampled')
               /\ \A i \in 1..Len(toks) : toks[i] = sampled'[i]
    <3>1. /\ toks \in Seq(Token) /\ Len(toks) \in Nat /\ Len(toks) <= Len(sampled)
          /\ \A i \in 1..Len(toks) : toks[i] = sampled[i]
      BY <2>3, LenProperties DEF HeadOf
    <3>2. Len(toks) <= Len(sampled')
      BY <2>1, <3>1
    <3>3. \A i \in 1..Len(toks) : toks[i] = sampled'[i]
      BY <2>1, <3>1
    <3> QED
      BY <3>1, <3>2, <3>3
  <2>4. \A e : Truthful(e) => TruthfulNext(e)
    BY <2>2 DEF TruthfulNext
  <2> QED
    BY <2>3, <2>4
<1>2. CASE sampled' = sampled
  BY <1>2 DEF Truthful, TruthfulNext, HeadOf
<1> QED
  BY <1>1, <1>2 DEF Next, vars, workers, Work, RejectionSample, BookkeepingSync, Publish, Abort,
                    AbortNoOutputs, Receive, PopStopEvent, PopMask
-----------------------------------------------------------------------------
(* The datagram of a row is truthful.                                      *)
LEMMA ChunkTruthful ==
    ASSUME RowInv
    PROVE  Chunk \in RowMessage /\ \A j \in 1..Len(Chunk.evs) : Truthful(Chunk.evs[j])
<1>1. /\ sampled \in Seq(Token) /\ row \in Seq(Token) /\ Len(row) <= Len(sampled)
      /\ Len(sampled) \in Nat /\ Len(row) \in Nat /\ DOMAIN row = 1..Len(row)
      /\ \A i \in 1..Len(row) : row[i] \in Token
      /\ \A i \in 1..Len(row) : row[i] = sampled[Len(sampled) - Len(row) + i]
  BY LenProperties, ElementOfSeq DEF RowInv
<1> DEFINE evs == [i \in 1..Len(row) |-> [pos |-> Before + i, token |-> row[i]]]
<1>2. \A i \in 1..Len(row) : Before + i \in 1..Len(sampled) /\ Before + i \in Nat
  BY <1>1 DEF Before
<1>3. evs \in [1..Len(row) -> Event]
  BY <1>1, <1>2 DEF Event
<1>4. evs \in Seq(Event) /\ Len(evs) = Len(row)
  <2> HIDE DEF evs
  <2>1. evs \in Seq(Event)
    BY <1>1, <1>3, SeqDef
  <2>2. DOMAIN evs = 1..Len(row) /\ DOMAIN evs = 1..Len(evs) /\ Len(evs) \in Nat
    BY <1>3, <2>1, LenProperties
  <2> QED
    BY <1>1, <2>1, <2>2
<1>5. Chunk = [type |-> "OPD", evs |-> evs,
               acts |-> IF ExportAction /\ Before > 0 THEN Len(row) ELSE 0]
  BY <1>1 DEF Chunk
<1>6. \A j \in 1..Len(row) : Truthful(evs[j])
  <2> SUFFICES ASSUME NEW j \in 1..Len(row) PROVE Truthful(evs[j])
    OBVIOUS
  <2>1. evs[j].pos = Before + j /\ evs[j].token = row[j]
    OBVIOUS
  <2>2. row[j] = sampled[Before + j]
    BY <1>1 DEF Before
  <2> QED
    BY <1>2, <2>1, <2>2 DEF Truthful
<1> HIDE DEF evs
<1>7. Chunk \in RowMessage
  BY <1>1, <1>4, <1>5 DEF RowMessage
<1>8. Chunk.evs = evs
  BY <1>5
<1> QED
  BY <1>4, <1>6, <1>7, <1>8

(* A datagram that is sent joins the others or is lost.                    *)
LEMMA Sent ==
    ASSUME ChannelInv, NEW msg \in Message, Send(msg)
    PROVE  /\ channel' \in Seq(Message)
           /\ \A i \in 1..Len(channel') :
                channel'[i] = msg \/ \E k \in 1..Len(channel) : channel'[i] = channel[k]
<1>1. channel \in Seq(Message)
  BY DEF ChannelInv
<1>2. CASE channel' = Append(channel, msg)
  <2>1. /\ channel' \in Seq(Message) /\ Len(channel') = Len(channel) + 1
        /\ channel'[Len(channel) + 1] = msg /\ Len(channel) \in Nat
        /\ \A i \in 1..Len(channel) : channel'[i] = channel[i]
    BY <1>1, <1>2, AppendProperties, LenProperties
  <2>2. ASSUME NEW i \in 1..Len(channel')
        PROVE  channel'[i] = msg \/ \E k \in 1..Len(channel) : channel'[i] = channel[k]
    <3>1. i = Len(channel) + 1 \/ i \in 1..Len(channel)
      BY <2>1
    <3> QED
      BY <2>1, <3>1
  <2> QED
    BY <2>1, <2>2
<1>3. CASE channel' = channel
  BY <1>1, <1>3
<1> QED
  BY <1>2, <1>3 DEF Send

(* What is in the socket was sent, and says what was sampled.              *)
LEMMA ChannelStep ==
    ASSUME RowInv, ChannelInv, [Next]_vars
    PROVE  ChannelInv'
<1>t. \A e : Truthful(e) => TruthfulNext(e)
  BY StaysTruthful
<1>i. /\ channel \in Seq(Message) /\ stops \subseteq Nat
      /\ \A k \in 1..Len(channel) :
            channel[k].type = "OPD" => \A j \in 1..Len(channel[k].evs) : Truthful(channel[k].evs[j])
  BY DEF ChannelInv
<1>0. ASSUME NEW msg \in Message, Send(msg), stops' = stops,
             msg.type = "OPD" => \A j \in 1..Len(msg.evs) : Truthful(msg.evs[j])
      PROVE  ChannelInv'
  <2>1. /\ channel' \in Seq(Message)
        /\ \A i \in 1..Len(channel') :
                channel'[i] = msg \/ \E k \in 1..Len(channel) : channel'[i] = channel[k]
    BY <1>0, Sent
  <2>2. ASSUME NEW i \in 1..Len(channel'), channel'[i].type = "OPD",
               NEW j \in 1..Len(channel'[i].evs)
        PROVE  TruthfulNext(channel'[i].evs[j])
    <3>1. Truthful(channel'[i].evs[j])
      BY <1>0, <1>i, <2>1, <2>2
    <3> QED
      BY <1>t, <3>1
  <2> QED
    BY <1>0, <1>i, <2>1, <2>2 DEF ChannelInv, Truthful, TruthfulNext
<1>1. ASSUME NEW r \in Ranks, BookkeepingSync(r) PROVE ChannelInv'
  <2>1. Chunk \in RowMessage /\ \A j \in 1..Len(Chunk.evs) : Truthful(Chunk.evs[j])
    BY ChunkTruthful
  <2>2. Send(Chunk) /\ stops' = stops
    BY <1>1 DEF BookkeepingSync, stores
  <2>3. Chunk \in Message
    BY <2>1 DEF Message
  <2> QED
    BY <1>0, <2>1, <2>2, <2>3
<1>2. ASSUME NEW r \in Ranks, RejectionSample(r) PROVE ChannelInv'
  <2>1. stops' = stops /\ sampled' = sampled
    BY <1>2 DEF RejectionSample, stores
  <2>2. CASE channel' = channel
    BY <1>t, <1>i, <2>1, <2>2 DEF ChannelInv, Truthful, TruthfulNext
  <2>3. CASE Send([type |-> "OPS1", pos |-> Before + Len(row)])
    <3>1. Before + Len(row) \in Nat
      BY LenProperties DEF RowInv, Before
    <3>2. [type |-> "OPS1", pos |-> Before + Len(row)] \in Message
      BY <3>1 DEF Message, StopMessage
    <3> QED
      BY <1>0, <2>1, <2>3, <3>2
  <2> QED
    BY <1>2, <2>2, <2>3 DEF RejectionSample
<1>3. CASE Receive
  <2>1. /\ channel # <<>> /\ channel' = Tail(channel) /\ sampled' = sampled
        /\ \/ Head(channel).type = "OPS1" /\ stops' = stops \cup {Head(channel).pos}
           \/ stops' = stops
    BY <1>3 DEF Receive, workers
  <2>2. /\ Head(channel) \in Message /\ Head(channel) = channel[1]
        /\ channel' \in Seq(Message) /\ Len(channel') = Len(channel) - 1 /\ Len(channel) \in Nat
        /\ \A i \in 1..Len(channel') : channel'[i] = channel[i + 1]
    BY <1>i, <2>1, HeadTailProperties, LenProperties
  <2>3. stops' \subseteq Nat
    <3>1. Head(channel).type = "OPS1" => Head(channel).pos \in Nat
      BY <2>2 DEF Message, StopMessage, RowMessage
    <3> QED
      BY <1>i, <2>1, <3>1
  <2>4. ASSUME NEW i \in 1..Len(channel'), channel'[i].type = "OPD",
               NEW j \in 1..Len(channel'[i].evs)
        PROVE  TruthfulNext(channel'[i].evs[j])
    <3>1. i + 1 \in 1..Len(channel) /\ channel'[i] = channel[i + 1]
      BY <2>2
    <3>2. Truthful(channel'[i].evs[j])
      BY <1>i, <2>4, <3>1
    <3> QED
      BY <1>t, <3>2
  <2> QED
    BY <2>2, <2>3, <2>4 DEF ChannelInv, Truthful, TruthfulNext
<1>4. CASE channel' = channel /\ stops' \subseteq stops
  BY <1>t, <1>i, <1>4 DEF ChannelInv, Truthful, TruthfulNext
<1> QED
  BY <1>1, <1>2, <1>3, <1>4
     DEF Next, vars, stores, StartRow, Work, Publish, Abort, AbortNoOutputs, PopStopEvent, PopMask

(* The stores only hold what datagrams brought.                            *)
LEMMA EventsStep ==
    ASSUME RowInv, ChannelInv, EventsInv, [Next]_vars
    PROVE  EventsInv'
<1>t. \A e : Truthful(e) => TruthfulNext(e)
  BY StaysTruthful
<1>i. events \in Seq(Event) /\ Len(events) \in Nat /\ \A k \in 1..Len(events) : Truthful(events[k])
  BY LenProperties DEF EventsInv
<1>1. CASE Receive /\ Head(channel).type # "OPS1"
  <2>1. channel # <<>> /\ events' = events \o Head(channel).evs
    BY <1>1 DEF Receive
  <2>2. Head(channel) \in Message /\ Head(channel) = channel[1] /\ 1 \in 1..Len(channel)
    BY <2>1, HeadTailProperties, LenProperties, EmptySeq DEF ChannelInv
  <2>3. PICK more : more = Head(channel).evs
    OBVIOUS
  <2>4. more \in Seq(Event) /\ Head(channel).type = "OPD"
    BY <1>1, <2>2, <2>3 DEF Message, StopMessage, RowMessage
  <2>5. \A j \in 1..Len(more) : Truthful(more[j])
    BY <2>2, <2>3, <2>4 DEF ChannelInv
  <2>6. /\ events' \in Seq(Event) /\ Len(events') = Len(events) + Len(more) /\ Len(more) \in Nat
        /\ \A k \in 1..(Len(events) + Len(more)) :
              events'[k] = IF k <= Len(events) THEN events[k] ELSE more[k - Len(events)]
    BY <1>i, <2>1, <2>3, <2>4, ConcatProperties, LenProperties
  <2>7. ASSUME NEW k \in 1..Len(events') PROVE TruthfulNext(events'[k])
    <3>1. CASE k <= Len(events)
      <4>1. k \in 1..Len(events) /\ events'[k] = events[k]
        BY <1>i, <2>6, <3>1
      <4> QED
        BY <1>i, <1>t, <4>1
    <3>2. CASE ~(k <= Len(events))
      <4>1. k - Len(events) \in 1..Len(more) /\ events'[k] = more[k - Len(events)]
        BY <1>i, <2>6, <3>2
      <4> QED
        BY <1>t, <2>5, <4>1
    <3> QED
      BY <3>1, <3>2
  <2> QED
    BY <2>6, <2>7 DEF EventsInv, Truthful, TruthfulNext
<1>2. CASE events' = <<>>
  BY <1>2 DEF EventsInv
<1>3. CASE events' = events
  BY <1>i, <1>t, <1>3 DEF EventsInv, Truthful, TruthfulNext
<1> QED
  BY <1>1, <1>2, <1>3
     DEF Next, vars, stores, StartRow, Work, RejectionSample, BookkeepingSync, Publish, Abort,
         AbortNoOutputs, Receive, PopStopEvent, PopMask, PopStores

(* Cutting a head of what was sampled leaves a head.                       *)
LEMMA CutHead ==
    ASSUME RowInv, NEW toks, HeadOf(toks), NEW n \in Nat, n <= Len(toks)
    PROVE  HeadOf(SubSeq(toks, 1, n))
<1>1. /\ toks \in Seq(Token) /\ Len(toks) <= Len(sampled) /\ Len(toks) \in Nat /\ Len(sampled) \in Nat
      /\ \A i \in 1..Len(toks) : toks[i] = sampled[i]
  BY LenProperties DEF HeadOf, RowInv
<1>2. /\ SubSeq(toks, 1, n) \in Seq(Token) /\ Len(SubSeq(toks, 1, n)) = n
      /\ \A i \in 1..n : SubSeq(toks, 1, n)[i] = toks[i]
  BY <1>1, Heads
<1>3. n <= Len(sampled) /\ \A i \in 1..n : SubSeq(toks, 1, n)[i] = sampled[i]
  BY <1>1, <1>2
<1> QED
  BY <1>2, <1>3 DEF HeadOf

(* What generate() holds is cut from what the engine published.            *)
LEMMA HeadStep ==
    ASSUME RowInv, ChannelInv, HeadInv, [Next]_vars
    PROVE  HeadInv'
<1>h. ASSUME NEW toks, HeadOf(toks)
      PROVE  /\ toks \in Seq(Token) /\ Len(toks) <= Len(sampled')
             /\ \A i \in 1..Len(toks) : toks[i] = sampled'[i]
  BY <1>h, StaysTruthful
<1>i. HeadOf(raw) /\ HeadOf(tokens)
  BY DEF HeadInv
<1>r. HeadOf(Response(sampled))
  <2>1. sampled \in Seq(Token)
    BY DEF RowInv
  <2> QED
    BY <2>1, ResponseHead DEF HeadOf
<1>0. ASSUME HeadOf(raw'), HeadOf(tokens'),
             pc' \in {"generate", "stop_poll"} => tokens' = <<>>,
             pc' # "returned" => mask' = <<>>
      PROVE  HeadInv'
  <2>1. HeadOf(raw)' /\ HeadOf(tokens)'
    BY <1>0, <1>h DEF HeadOf
  <2> QED
    BY <1>0, <2>1 DEF HeadInv
<1>1. CASE Publish
  <2>1. raw' = raw \/ raw' = Response(sampled)
    BY <1>1 DEF Publish
  <2> QED
    BY <1>0, <1>1, <1>i, <1>r, <2>1 DEF Publish, HeadInv
<1>2. CASE Abort
  <2>1. seen \in Nat /\ seen <= Len(Response(sampled))
    BY DEF RowInv
  <2>2. HeadOf(SubSeq(Response(sampled), 1, seen))
    BY <1>r, <2>1, CutHead
  <2> QED
    BY <1>0, <1>2, <1>i, <2>2 DEF Abort, HeadInv
<1>3. CASE PopStopEvent
  <2>1. HeadOf(tokens')
    <3>1. \/ tokens' = raw
          \/ \E pos : pos \in DOMAIN raw /\ tokens' = SubSeq(raw, 1, pos - 1)
      BY <1>3 DEF PopStopEvent, Strip
    <3>2. ASSUME NEW pos, pos \in DOMAIN raw, tokens' = SubSeq(raw, 1, pos - 1) PROVE HeadOf(tokens')
      <4>1. pos \in 1..Len(raw) /\ Len(raw) \in Nat
        BY <1>i, <3>2, LenProperties DEF HeadOf
      <4>2. pos - 1 \in Nat /\ pos - 1 <= Len(raw)
        BY <4>1
      <4> QED
        BY <1>i, <3>2, <4>2, CutHead
    <3> QED
      BY <1>i, <3>1, <3>2
  <2> QED
    BY <1>0, <1>3, <1>i, <2>1 DEF PopStopEvent, HeadInv
<1>4. CASE PopMask
  BY <1>0, <1>4, <1>i DEF PopMask, HeadInv
<1>5. CASE AbortNoOutputs
  BY <1>0, <1>5, <1>i DEF AbortNoOutputs, HeadInv
<1>6. CASE UNCHANGED <<pc, raw, tokens, mask>>
  BY <1>0, <1>6, <1>i DEF HeadInv
<1> QED
  BY <1>1, <1>2, <1>3, <1>4, <1>5, <1>6
     DEF Next, vars, server, StartRow, Work, RejectionSample, BookkeepingSync, Receive

(* Of all events on a position of the response none contradicts another,   *)
(* so the mask that covers it is the truth.                                *)
LEMMA AlignTrue ==
    ASSUME EventsInv, HeadOf(tokens), DOMAIN tokens \subseteq Covered
    PROVE  /\ DOMAIN Align = DOMAIN tokens
           /\ \A p \in DOMAIN tokens : Align[p] = tokens[p].teacher
<1>1. DOMAIN Align = DOMAIN tokens
  BY DEF Align
<1>2. /\ DOMAIN tokens = 1..Len(tokens) /\ Len(tokens) \in Nat /\ DOMAIN events = 1..Len(events)
      /\ \A i \in 1..Len(tokens) : tokens[i] = sampled[i] /\ tokens[i] \in Token
  BY LenProperties, ElementOfSeq DEF HeadOf, EventsInv
<1>3. ASSUME NEW p \in DOMAIN tokens PROVE Align[p] = tokens[p].teacher
  <2>1. PICK k \in DOMAIN events : events[k].pos = p
    BY DEF Covered
  <2>2. ASSUME NEW i \in DOMAIN events, events[i].pos = p PROVE events[i].token = tokens[p]
    BY <1>2, <2>2 DEF EventsInv, Truthful
  <2>3. k \in Inside
    BY <1>2, <2>1 DEF Inside
  <2>4. Align[p] = (\E i \in Inside : events[i].pos = p /\ events[i].token.teacher)
    BY DEF Align
  <2>5. tokens[p].teacher \in BOOLEAN
    BY <1>2 DEF Token
  <2>6. CASE tokens[p].teacher
    BY <2>1, <2>2, <2>3, <2>4, <2>6, Zenon
  <2>7. CASE ~tokens[p].teacher
    <3>1. \A i \in Inside : i \in DOMAIN events
      BY DEF Inside
    <3> QED
      BY <2>2, <2>4, <2>5, <2>7, <3>1
  <2> QED
    BY <2>6, <2>7
<1> QED
  BY <1>1, <1>3

(* The mask is put together from events that say what was sampled.         *)
LEMMA MaskStep ==
    ASSUME EventsInv, HeadInv, MaskSound, [Next]_vars
    PROVE  MaskSound'
<1>1. CASE PopMask
  <2>1. tokens' = tokens
    BY <1>1 DEF PopMask
  <2>2. CASE pc' = "returned"
    <3>1. Alignable /\ mask' = Align
      BY <1>1, <2>2 DEF PopMask
    <3>2. DOMAIN Align = DOMAIN tokens /\ \A p \in DOMAIN tokens : Align[p] = tokens[p].teacher
      <4>1. HeadOf(tokens) /\ DOMAIN tokens \subseteq Covered
        BY <3>1 DEF HeadInv, Alignable
      <4> QED
        BY <4>1, AlignTrue
    <3> HIDE DEF Align
    <3> QED
      BY <2>1, <3>1, <3>2 DEF MaskSound
  <2>3. CASE pc' # "returned"
    BY <2>3 DEF MaskSound
  <2> QED
    BY <2>2, <2>3
<1>2. CASE AbortNoOutputs
  <2>1. tokens' = <<>> /\ mask' = <<>>
    BY <1>2 DEF AbortNoOutputs, HeadInv
  <2> QED
    BY <2>1 DEF MaskSound
<1>3. CASE pc' \notin {"returned"}
  BY <1>3 DEF MaskSound
<1>4. CASE UNCHANGED <<pc, tokens, mask>>
  BY <1>4 DEF MaskSound
<1> QED
  BY <1>1, <1>2, <1>3, <1>4
     DEF Next, vars, server, StartRow, Work, RejectionSample, BookkeepingSync, Receive, Publish,
         Abort, PopStopEvent

(* At first nothing is sampled.                                            *)
LEMMA InitInv == Init => IInv
<1> SUFFICES ASSUME Init PROVE IInv
  OBVIOUS
<1>1. /\ sampled = <<>> /\ row = <<>> /\ seen = 0 /\ channel = <<>> /\ events = <<>>
      /\ stops = {} /\ pc = "generate" /\ raw = <<>> /\ tokens = <<>> /\ mask = <<>>
  BY DEF Init
<1>2. <<>> \in Seq(Token) /\ Len(<<>>) = 0
  OBVIOUS
<1>3. Len(Response(sampled)) \in Nat
  BY <1>1, <1>2, ResponseHead
<1>4. RowInv
  BY <1>1, <1>2, <1>3 DEF RowInv
<1>5. EventsInv /\ ChannelInv
  BY <1>1 DEF EventsInv, ChannelInv
<1>6. HeadInv
  BY <1>1, <1>2 DEF HeadInv, HeadOf
<1>7. MaskSound
  BY <1>1 DEF MaskSound
<1> QED
  BY <1>4, <1>5, <1>6, <1>7 DEF IInv

(* The inductive invariant: what is in the socket and in the stores says   *)
(* of every position what was sampled there, and generate() holds a head   *)
(* of what was sampled.                                                    *)
THEOREM Invariance == Spec => []IInv
<1>1. Init => IInv
  BY InitInv
<1>2. IInv /\ [Next]_vars => IInv'
  BY RowStep, ChannelStep, EventsStep, HeadStep, MaskStep DEF IInv
<1> QED
  BY <1>1, <1>2, PTL DEF Spec

(* A mask that is returned labels every token of the response, and labels  *)
(* it right, for any number of ranks and over any socket.                  *)
THEOREM MaskLabelsRight == Spec => []MaskSound
BY Invariance, PTL DEF IInv
-----------------------------------------------------------------------------
(* The deployment stays what it is.                                        *)
LEMMA SameDeployment ==
    ASSUME [Next]_vars
    PROVE  deployment' = deployment /\ Ranks' = Ranks /\ (Reliable' <=> Reliable)
<1>1. deployment' = deployment
  BY DEF Next, vars, workers, StartRow, Work, RejectionSample, BookkeepingSync, Publish, Abort,
         AbortNoOutputs, Receive, PopStopEvent, PopMask
<1> QED
  BY <1>1 DEF Ranks, Reliable

(* The driver is one of the ranks, and its phase is one of three.          *)
LEMMA DriverPhase ==
    ASSUME PhaseInv
    PROVE  Driver \in Ranks /\ phase[Driver] \in {"idle", "forward", "rejected"}
BY DeploymentsAssumption DEF PhaseInv, Ranks

(* Phases follow each other in every rank, and generate() has nothing      *)
(* before the engine has finished.                                         *)
LEMMA PhaseStep ==
    ASSUME PhaseInv, [Next]_vars
    PROVE  PhaseInv'
<1>1. deployment' = deployment /\ Ranks' = Ranks
  BY SameDeployment
<1>2. phase' \in [Ranks -> {"idle", "forward", "rejected"}]
  <2>1. ASSUME NEW r \in Ranks, RejectionSample(r) \/ BookkeepingSync(r)
        PROVE  phase' \in [Ranks -> {"idle", "forward", "rejected"}]
    BY <2>1 DEF PhaseInv, RejectionSample, BookkeepingSync
  <2>2. CASE StartRow
    BY <2>2 DEF StartRow
  <2>3. CASE phase' = phase
    BY <2>3 DEF PhaseInv
  <2> QED
    BY <2>1, <2>2, <2>3
       DEF Next, vars, workers, Work, Publish, Abort, AbortNoOutputs, Receive, PopStopEvent, PopMask
<1>3. pc' = "generate" => raw' = <<>>
  BY DEF PhaseInv, Next, vars, server, StartRow, Work, RejectionSample, BookkeepingSync, Publish,
         Abort, AbortNoOutputs, Receive, PopStopEvent, PopMask
<1> QED
  BY <1>1, <1>2, <1>3 DEF PhaseInv

(* A row starts only while no token has ended the response.                *)
LEMMA StartedRow ==
    ASSUME RowInv, StartRow
    PROVE  /\ Len(sampled) \in Nat /\ Len(sampled) < MaxTokens
           /\ \A i \in 1..Len(sampled) : sampled[i].kind \notin {"eos", "stop"}
           /\ Before' = Len(sampled) /\ Len(row') \in Nat /\ Len(row') > 0
           /\ \A i \in 1..Len(row') : row'[i].kind = "stop" => i = Len(row') /\ i > 1
<1>1. sampled \in Seq(Token) /\ DOMAIN sampled = 1..Len(sampled) /\ Len(sampled) \in Nat
  BY LenProperties DEF RowInv
<1>2. Len(sampled) < MaxTokens /\ \A i \in 1..Len(sampled) : sampled[i].kind \notin {"eos", "stop"}
  BY <1>1, SizeAssumption DEF StartRow, Ended
<1>3. Len(row') \in Nat /\ Len(sampled') = Len(sampled) + Len(row') /\ row' \in Seq(Token)
  BY Grown
<1>4. Before' = Len(sampled)
  BY <1>1, <1>3 DEF Before
<1>5. row' \in Rows
  BY DEF StartRow
<1>6. PICK n \in 1..MaxRow : row' \in [1..n -> Token]
  BY <1>5 DEF Rows
<1>7. DOMAIN row' = 1..n /\ DOMAIN row' = 1..Len(row') /\ n \in Nat /\ n >= 1
  BY <1>3, <1>6, LenProperties, SizeAssumption
<1>8. Len(row') > 0
  BY <1>3, <1>7
<1>9. \A i \in DOMAIN row' : row'[i].kind = "stop" => i = Len(row') /\ i > 1
  BY <1>5 DEF Rows, Row
<1> QED
  BY <1>1, <1>2, <1>3, <1>4, <1>7, <1>8, <1>9

(* Only the latest row can hold the end of the response.                   *)
LEMMA ShapeStep ==
    ASSUME RowInv, HeadInv, PhaseInv, ShapeInv, [Next]_vars
    PROVE  ShapeInv'
<1>d. Driver \in Ranks /\ Ranks' = Ranks
  BY DriverPhase, SameDeployment
<1>1. CASE StartRow
  <2>1. /\ Len(sampled) \in Nat /\ Len(sampled) < MaxTokens
        /\ \A i \in 1..Len(sampled) : sampled[i].kind \notin {"eos", "stop"}
        /\ Before' = Len(sampled) /\ Len(row') > 0
        /\ \A i \in 1..Len(row') : row'[i].kind = "stop" => i = Len(row') /\ i > 1
    BY <1>1, StartedRow
  <2>2. \A i \in 1..Len(sampled) : sampled'[i] = sampled[i]
    BY <1>1, Grown
  <2>3. seen' = seen /\ raw' = raw /\ raw = <<>> /\ Len(raw) = 0
    BY <1>1 DEF StartRow, server, PhaseInv
  <2>4. /\ seen \in Nat /\ seen <= Len(Response(sampled)) /\ Len(Response(sampled)) <= Len(sampled)
        /\ Len(Response(sampled)) \in Nat
    BY ResponseHead DEF RowInv
  <2>5. seen' <= Before' /\ Len(raw') <= Before'
    BY <2>1, <2>3, <2>4
  <2>6. \A i \in 1..Before' : sampled'[i].kind \notin {"eos", "stop"}
    BY <2>1, <2>2
  <2>7. Before' < MaxTokens
    BY <2>1
  <2> QED
    BY <2>1, <2>5, <2>6, <2>7 DEF ShapeInv
<1>2. ASSUME UNCHANGED <<sampled, row>>,
             \A r \in Ranks : phase[r] = "idle" => phase'[r] = "idle",
             phase'[Driver] # "idle" => seen' <= Before /\ Len(raw') <= Before
      PROVE  ShapeInv'
  <2>1. Before' = Before
    BY <1>2 DEF Before
  <2>2. \A r \in Ranks' : phase'[r] # "idle" => Len(row') > 0
    BY <1>2, <1>d DEF ShapeInv
  <2> QED
    BY <1>2, <2>1, <2>2 DEF ShapeInv
<1>3. ASSUME NEW r \in Ranks, RejectionSample(r) \/ BookkeepingSync(r) PROVE ShapeInv'
  <2>1. /\ UNCHANGED <<sampled, row>> /\ seen' = seen /\ raw' = raw
        /\ phase[r] # "idle"
        /\ \A q \in Ranks : q # r => phase'[q] = phase[q]
    BY <1>3 DEF RejectionSample, BookkeepingSync, server, PhaseInv
  <2>2. \A q \in Ranks : phase[q] = "idle" => phase'[q] = "idle"
    BY <2>1
  <2>3. phase'[Driver] # "idle" => phase[Driver] # "idle"
    BY <2>2, <1>d
  <2>4. phase'[Driver] # "idle" => seen' <= Before /\ Len(raw') <= Before
    BY <2>1, <2>3 DEF ShapeInv
  <2> QED
    BY <1>2, <2>1, <2>2, <2>4
<1>4. CASE Publish
  <2>1. UNCHANGED <<sampled, row, phase>> /\ phase[Driver] = "idle"
    BY <1>4 DEF Publish, workers
  <2> QED
    BY <1>2, <2>1
<1>5. CASE Abort
  <2>1. UNCHANGED <<sampled, row, phase>> /\ seen' = seen /\ raw' = SubSeq(Response(sampled), 1, seen)
    BY <1>5 DEF Abort, workers
  <2>2. /\ Response(sampled) \in Seq(Token) /\ seen \in Nat /\ seen <= Len(Response(sampled))
    BY ResponseHead DEF RowInv
  <2>3. Len(raw') = seen
    BY <2>1, <2>2, Heads
  <2> QED
    BY <1>2, <2>1, <2>3 DEF ShapeInv
<1>6. CASE UNCHANGED <<sampled, row, phase, seen, raw>>
  BY <1>2, <1>6 DEF ShapeInv
<1> QED
  BY <1>1, <1>3, <1>4, <1>5, <1>6
     DEF Next, vars, workers, server, Work, AbortNoOutputs, Receive, PopStopEvent, PopMask
-----------------------------------------------------------------------------
(* The stop token is the last token, and not the first of its row.         *)
LEMMA StopPlace ==
    ASSUME RowInv, ShapeInv
    PROVE  /\ Before \in Nat /\ Len(sampled) \in Nat /\ Len(row) \in Nat
           /\ Before + Len(row) = Len(sampled)
           /\ \A p : StopAt(p) => p = Len(sampled) /\ p > Before + 1 /\ Last(row).kind = "stop"
           /\ Len(row) > 0 /\ Last(row).kind = "stop" => StopAt(Len(sampled))
<1>1. /\ Len(sampled) \in Nat /\ Len(row) \in Nat /\ Len(row) <= Len(sampled)
      /\ \A i \in 1..Len(row) : row[i] = sampled[Len(sampled) - Len(row) + i]
  BY LenProperties DEF RowInv
<1>2. Before \in Nat /\ Before + Len(row) = Len(sampled) /\ Before = Len(sampled) - Len(row)
  BY <1>1 DEF Before
<1>3. ASSUME NEW p, StopAt(p) PROVE p = Len(sampled) /\ p > Before + 1 /\ Last(row).kind = "stop"
  <2>1. p \in 1..Len(sampled) /\ sampled[p].kind = "stop"
    BY <1>3 DEF StopAt
  <2>2. ~(p \in 1..Before)
    BY <2>1 DEF ShapeInv
  <2>3. p - Before \in 1..Len(row) /\ Len(sampled) - Len(row) + (p - Before) = p
    BY <1>1, <1>2, <2>1, <2>2
  <2>4. row[p - Before].kind = "stop"
    BY <1>1, <2>1, <2>3
  <2>5. p - Before = Len(row) /\ p - Before > 1
    BY <2>3, <2>4 DEF ShapeInv
  <2>6. p = Len(sampled) /\ p > Before + 1
    <3>1. p \in Nat /\ Before \in Nat /\ Len(row) \in Nat /\ Len(sampled) \in Nat
      BY <1>1, <1>2, <2>1
    <3>2. p = Before + Len(row)
      BY <2>5, <3>1
    <3>3. Len(row) > 1
      BY <2>5
    <3> QED
      BY <1>2, <3>1, <3>2, <3>3
  <2> QED
    BY <2>4, <2>5, <2>6 DEF Last
<1>4. ASSUME Len(row) > 0, Last(row).kind = "stop" PROVE StopAt(Len(sampled))
  <2>1. Len(row) \in 1..Len(row) /\ Len(sampled) - Len(row) + Len(row) = Len(sampled)
    BY <1>1, <1>4
  <2>2. row[Len(row)] = sampled[Len(sampled)]
    BY <1>1, <2>1
  <2>3. Len(sampled) \in 1..Len(sampled)
    BY <1>1, <1>4
  <2> QED
    BY <1>4, <2>2, <2>3 DEF StopAt, Last
<1> QED
  BY <1>1, <1>2, <1>3, <1>4

(* No stop event is under way when a row starts.                           *)
LEMMA NoStopYet ==
    ASSUME RowInv, StopInv, StartRow
    PROVE  stops = {} /\ \A k \in 1..Len(channel) : ~IsStop(k)
<1>1. \A p : ~StopAt(p)
  BY StartedRow DEF StopAt
<1> QED
  BY <1>1 DEF StopInv

(* The receive thread takes the first datagram.                            *)
LEMMA Received ==
    ASSUME ChannelInv, Receive
    PROVE  /\ Len(channel) \in Nat /\ Len(channel) > 0 /\ Len(channel') = Len(channel) - 1
           /\ \A k \in 1..Len(channel') : channel'[k] = channel[k + 1]
           /\ \/ /\ IsStop(1) /\ stops' = stops \cup {channel[1].pos}
                 /\ UNCHANGED <<events, actions>>
              \/ /\ ~IsStop(1) /\ channel[1] \in RowMessage
                 /\ events' = events \o channel[1].evs
                 /\ actions' = actions + channel[1].acts
                 /\ UNCHANGED stops
<1>1. channel \in Seq(Message) /\ channel # <<>> /\ channel' = Tail(channel)
  BY DEF Receive, ChannelInv
<1>2. /\ Head(channel) \in Message /\ Head(channel) = channel[1]
      /\ Len(channel') = Len(channel) - 1 /\ Len(channel) \in Nat
      /\ \A i \in 1..Len(channel') : channel'[i] = channel[i + 1]
  BY <1>1, HeadTailProperties, LenProperties
<1>3. Len(channel) > 0
  BY <1>1, <1>2, EmptySeq
<1>4. CASE channel[1].type = "OPS1"
  BY <1>2, <1>3, <1>4 DEF Receive, IsStop
<1>5. CASE channel[1].type # "OPS1"
  <2>1. channel[1] \in RowMessage
    BY <1>2, <1>5 DEF Message, StopMessage
  <2> QED
    BY <1>2, <1>3, <1>5, <2>1 DEF Receive, IsStop
<1> QED
  BY <1>2, <1>3, <1>4, <1>5

(* Over a reliable socket a datagram that is sent is the last one in it.   *)
LEMMA SentLast ==
    ASSUME ChannelInv, Reliable, NEW msg \in Message, Send(msg)
    PROVE  /\ Len(channel) \in Nat /\ Len(channel') = Len(channel) + 1
           /\ channel'[Len(channel) + 1] = msg
           /\ \A k \in 1..Len(channel) : channel'[k] = channel[k]
<1>1. channel \in Seq(Message) /\ channel' = Append(channel, msg)
  BY DEF ChannelInv, Send
<1> QED
  BY <1>1, AppendProperties, LenProperties

(* The stop event of a row.                                                *)
StopEvent == [type |-> "OPS1", pos |-> Before + Len(row)]

(* What the workers send: the rejection sampler nothing, or the event of a *)
(* stop token; the bookkeeping the labels.                                 *)
LEMMA WhatIsSent ==
    ASSUME RowInv, ShapeInv, NEW r \in Ranks
    PROVE  /\ StopEvent \in Message /\ StopEvent.type = "OPS1" /\ StopEvent.pos = Len(sampled)
           /\ Chunk \in Message /\ Chunk.type = "OPD"
           /\ RejectionSample(r) =>
                \/ channel' = channel /\ ~StopAt(Len(sampled))
                \/ Send(StopEvent) /\ StopAt(Len(sampled))
           /\ BookkeepingSync(r) => Send(Chunk)
<1>1. /\ Before + Len(row) = Len(sampled) /\ Len(sampled) \in Nat
      /\ \A p : StopAt(p) => Last(row).kind = "stop"
      /\ Len(row) > 0 /\ Last(row).kind = "stop" => StopAt(Len(sampled))
  BY StopPlace
<1>2. StopEvent \in Message /\ StopEvent.type = "OPS1" /\ StopEvent.pos = Len(sampled)
  BY <1>1 DEF StopEvent, Message, StopMessage
<1>3. Chunk \in RowMessage
  BY ChunkTruthful
<1>4. Chunk \in Message /\ Chunk.type = "OPD"
  BY <1>3 DEF Message, RowMessage
<1>5. ASSUME RejectionSample(r)
      PROVE  \/ channel' = channel /\ ~StopAt(Len(sampled))
             \/ Send(StopEvent) /\ StopAt(Len(sampled))
  <2>1. Len(row) > 0
    BY <1>5 DEF RejectionSample, ShapeInv
  <2>2. IF Last(row).kind = "stop" THEN Send(StopEvent) ELSE UNCHANGED channel
    BY <1>5 DEF RejectionSample, StopEvent
  <2> HIDE DEF Send, StopEvent
  <2> QED
    BY <1>1, <2>1, <2>2
<1>6. BookkeepingSync(r) => Send(Chunk)
  BY DEF BookkeepingSync
<1> QED
  BY <1>2, <1>4, <1>5, <1>6

(* Stop events say where the stop token is.                                *)
LEMMA StopStep ==
    ASSUME RowInv, ChannelInv, ShapeInv, StopInv, [Next]_vars
    PROVE  StopInv'
<1>i. /\ \A p \in stops : StopAt(p)
      /\ \A k \in 1..Len(channel) : channel[k].type = "OPS1" => StopAt(channel[k].pos)
  BY DEF StopInv, IsStop
<1>0. ASSUME sampled' = sampled, \A p \in stops' : StopAt(p),
             \A k \in 1..Len(channel') : channel'[k].type = "OPS1" => StopAt(channel'[k].pos)
      PROVE  StopInv'
  <2>1. \A p : StopAt(p) => StopAt(p)'
    BY <1>0 DEF StopAt
  <2> QED
    BY <1>0, <2>1 DEF StopInv, StopAt, IsStop
<1>s. ASSUME NEW msg \in Message, Send(msg), stops' = stops, sampled' = sampled,
             msg.type = "OPS1" => StopAt(msg.pos)
      PROVE  StopInv'
  <2>1. \A i \in 1..Len(channel') :
            channel'[i] = msg \/ \E k \in 1..Len(channel) : channel'[i] = channel[k]
    BY <1>s, Sent
  <2>2. ASSUME NEW i \in 1..Len(channel'), channel'[i].type = "OPS1" PROVE StopAt(channel'[i].pos)
    BY <1>i, <1>s, <2>1, <2>2
  <2> QED
    BY <1>0, <1>i, <1>s, <2>2
<1>1. CASE StartRow
  <2>1. stops = {} /\ \A k \in 1..Len(channel) : ~IsStop(k)
    BY <1>1, NoStopYet
  <2>2. stops' = stops /\ channel' = channel
    BY <1>1 DEF StartRow, stores
  <2> QED
    BY <2>1, <2>2 DEF StopInv, IsStop
<1>2. ASSUME NEW r \in Ranks, Work(r) PROVE StopInv'
  <2>1. stops' = stops /\ sampled' = sampled
    BY <1>2 DEF Work, RejectionSample, BookkeepingSync, stores
  <2>2. /\ StopEvent \in Message /\ StopEvent.pos = Len(sampled)
        /\ Chunk \in Message /\ Chunk.type = "OPD"
        /\ RejectionSample(r) =>
                \/ channel' = channel /\ ~StopAt(Len(sampled))
                \/ Send(StopEvent) /\ StopAt(Len(sampled))
        /\ BookkeepingSync(r) => Send(Chunk)
    BY WhatIsSent
  <2>3. CASE channel' = channel
    BY <1>0, <1>i, <2>1, <2>3
  <2>4. CASE Send(StopEvent) /\ StopAt(Len(sampled))
    BY <1>s, <2>1, <2>2, <2>4
  <2>5. CASE Send(Chunk)
    BY <1>s, <2>1, <2>2, <2>5
  <2> QED
    BY <1>2, <2>2, <2>3, <2>4, <2>5 DEF Work
<1>3. CASE Receive
  <2>1. /\ Len(channel) \in Nat /\ Len(channel) > 0 /\ Len(channel') = Len(channel) - 1
        /\ \A k \in 1..Len(channel') : channel'[k] = channel[k + 1]
        /\ (IsStop(1) /\ stops' = stops \cup {channel[1].pos}) \/ stops' = stops
    BY <1>3, Received
  <2>2. ASSUME NEW k \in 1..Len(channel') PROVE k + 1 \in 1..Len(channel) /\ channel'[k] = channel[k + 1]
    BY <2>1
  <2>3. \A p \in stops' : StopAt(p)
    <3>1. IsStop(1) => StopAt(channel[1].pos)
      BY <1>i DEF IsStop
    <3> QED
      BY <1>i, <2>1, <3>1
  <2>4. ASSUME NEW k \in 1..Len(channel'), channel'[k].type = "OPS1" PROVE StopAt(channel'[k].pos)
    BY <1>i, <2>2, <2>4
  <2>5. sampled' = sampled
    BY <1>3 DEF Receive, workers
  <2> QED
    BY <1>0, <2>3, <2>4, <2>5
<1>4. CASE sampled' = sampled /\ channel' = channel /\ stops' \subseteq stops
  BY <1>0, <1>i, <1>4
<1> QED
  BY <1>1, <1>2, <1>3, <1>4
     DEF Next, vars, workers, stores, Publish, Abort, AbortNoOutputs, PopStopEvent, PopMask

(* The event of a stop token is sent before the driver can finish the row, *)
(* and stays until generate() takes it.                                    *)
LEMMA StopSentStep ==
    ASSUME RowInv, ChannelInv, PhaseInv, ShapeInv, StopSentInv, [Next]_vars
    PROVE  StopSentInv'
<1>d. Driver \in Ranks /\ (Reliable' <=> Reliable)
  BY DriverPhase, SameDeployment
<1> DEFINE Known == stops # {} \/ \E k \in 1..Len(channel) : IsStop(k)
           KnownNext == stops' # {} \/ \E k \in 1..Len(channel') : channel'[k].type = "OPS1"
<1> SUFFICES ASSUME Reliable, pc' \in {"generate", "stop_poll"}, phase'[Driver] # "forward",
                    StopAt(Len(sampled))'
             PROVE  KnownNext
  BY <1>d DEF StopSentInv, IsStop
<1>0. ASSUME sampled' = sampled, phase[Driver] # "forward", pc \in {"generate", "stop_poll"}
      PROVE  Known
  BY <1>0 DEF StopSentInv, StopAt
<1>s. ASSUME NEW msg \in Message, Send(msg), stops' = stops, Known \/ msg.type = "OPS1"
      PROVE  KnownNext
  <2>1. /\ Len(channel) \in Nat /\ Len(channel') = Len(channel) + 1
        /\ channel'[Len(channel) + 1] = msg
        /\ \A k \in 1..Len(channel) : channel'[k] = channel[k]
    BY <1>s, SentLast
  <2>2. CASE msg.type = "OPS1"
    <3>1. Len(channel) + 1 \in 1..Len(channel')
      BY <2>1
    <3> QED
      BY <2>1, <2>2, <3>1
  <2>3. CASE stops # {}
    BY <1>s, <2>3
  <2>4. ASSUME NEW k \in 1..Len(channel), IsStop(k) PROVE KnownNext
    <3>1. k \in 1..Len(channel')
      BY <2>1
    <3> QED
      BY <2>1, <2>4, <3>1 DEF IsStop
  <2> QED
    BY <1>s, <2>2, <2>3, <2>4
<1>1. CASE StartRow
  BY <1>1, <1>d DEF StartRow
<1>2. ASSUME NEW r \in Ranks, RejectionSample(r) PROVE KnownNext
  <2>1. sampled' = sampled /\ stops' = stops /\ pc' = pc
    BY <1>2 DEF RejectionSample, stores, server
  <2>2. StopAt(Len(sampled))
    BY <2>1 DEF StopAt
  <2>3. StopEvent \in Message /\ StopEvent.type = "OPS1" /\ Send(StopEvent)
    BY <1>2, <2>2, WhatIsSent
  <2> QED
    BY <1>s, <2>1, <2>3
<1>3. ASSUME NEW r \in Ranks, BookkeepingSync(r) PROVE KnownNext
  <2>1. /\ sampled' = sampled /\ stops' = stops /\ pc' = pc /\ phase[r] = "rejected"
        /\ r # Driver => phase'[Driver] = phase[Driver]
    BY <1>3, <1>d DEF BookkeepingSync, stores, server, PhaseInv
  <2>2. phase[Driver] # "forward"
    BY <2>1
  <2>3. Known
    BY <1>0, <2>1, <2>2
  <2>4. Chunk \in Message /\ Send(Chunk)
    BY <1>3, WhatIsSent
  <2> QED
    BY <1>s, <2>1, <2>3, <2>4
<1>4. CASE Receive
  <2>1. sampled' = sampled /\ phase' = phase /\ pc' = pc
    BY <1>4 DEF Receive, workers, server
  <2>2. Known
    BY <1>0, <2>1
  <2>3. /\ Len(channel) \in Nat /\ Len(channel) > 0 /\ Len(channel') = Len(channel) - 1
        /\ \A k \in 1..Len(channel') : channel'[k] = channel[k + 1]
        /\ \/ IsStop(1) /\ stops' = stops \cup {channel[1].pos}
           \/ ~IsStop(1) /\ stops' = stops
    BY <1>4, Received
  <2>4. CASE IsStop(1)
    BY <2>3, <2>4
  <2>5. CASE ~IsStop(1) /\ stops # {}
    BY <2>3, <2>5
  <2>6. ASSUME ~IsStop(1), NEW k \in 1..Len(channel), IsStop(k) PROVE KnownNext
    <3>1. k # 1
      BY <2>6
    <3>2. k - 1 \in 1..Len(channel') /\ k - 1 + 1 = k
      BY <2>3, <3>1
    <3>3. channel'[k - 1] = channel[k]
      BY <2>3, <3>2
    <3> QED
      BY <2>6, <3>2, <3>3 DEF IsStop
  <2> QED
    BY <2>2, <2>4, <2>5, <2>6
<1>5. CASE /\ sampled' = sampled /\ phase' = phase /\ channel' = channel /\ stops' = stops
           /\ pc' \in {"generate", "stop_poll"} => pc \in {"generate", "stop_poll"}
  <2>1. Known
    BY <1>0, <1>5
  <2> QED
    BY <1>5, <2>1 DEF IsStop
<1>6. CASE pc' \notin {"generate", "stop_poll"}
  BY <1>6
<1> QED
  BY <1>1, <1>2, <1>3, <1>4, <1>5, <1>6
     DEF Next, vars, workers, stores, server, Work, Publish, Abort, AbortNoOutputs, PopStopEvent, PopMask

(* The stop token in a response is its last token and the last one sampled, *)
(* and the driver has finished its row.                                    *)
LEMMA StopInResponse ==
    ASSUME RowInv, PhaseInv, ShapeInv, HeadOf(raw), NEW i \in 1..Len(raw), raw[i].kind = "stop"
    PROVE  /\ i = Len(raw) /\ i = Len(sampled) /\ StopAt(i)
           /\ phase[Driver] = "idle"
<1>1. /\ Len(raw) \in Nat /\ Len(sampled) \in Nat /\ Len(raw) <= Len(sampled)
      /\ raw[i] = sampled[i]
  BY LenProperties DEF RowInv, HeadOf
<1>2. StopAt(i)
  BY <1>1 DEF StopAt
<1>3. i = Len(sampled) /\ i > Before + 1 /\ Before \in Nat
  BY <1>2, StopPlace
<1>4. i = Len(raw)
  BY <1>1, <1>3
<1>5. ~(Len(raw) <= Before)
  BY <1>1, <1>3, <1>4
<1> QED
  BY <1>2, <1>3, <1>4, <1>5 DEF ShapeInv

(* A stop event takes the stop token, and nothing else, from the response. *)
LEMMA ExactStep ==
    ASSUME RowInv, ChannelInv, HeadInv, PhaseInv, ShapeInv, StopInv, StopSentInv, ResponseExact,
           [Next]_vars
    PROVE  ResponseExact'
<1>r. Reliable' <=> Reliable
  BY SameDeployment
<1>1. CASE PopStopEvent
  <2> SUFFICES ASSUME Reliable
               PROVE  /\ \A i \in DOMAIN tokens' : tokens'[i].kind # "stop"
                      /\ tokens' # raw' =>
                            triggered' /\ Last(raw').kind = "stop" /\ tokens' = Front(raw')
    BY <1>r DEF ResponseExact
  <2>1. /\ raw' = raw /\ pc = "stop_poll" /\ (stops # {} \/ Quiet)
        /\ tokens' = (IF stops = {} THEN raw ELSE Strip(raw, Min(stops)))
        /\ triggered' = (stops # {} /\ Matches(raw, Min(stops)))
    BY <1>1 DEF PopStopEvent, DeadlinePasses
  <2>2. /\ HeadOf(raw) /\ raw \in Seq(Token) /\ Len(raw) \in Nat /\ DOMAIN raw = 1..Len(raw)
    BY LenProperties DEF HeadInv, HeadOf
  <2>3. CASE \A i \in 1..Len(raw) : raw[i].kind # "stop"
    <3>1. tokens' = raw
      BY <2>1, <2>2, <2>3 DEF Strip
    <3> QED
      BY <2>1, <2>2, <2>3, <3>1
  <2>4. ASSUME NEW n \in 1..Len(raw), raw[n].kind = "stop"
        PROVE  /\ \A i \in DOMAIN tokens' : tokens'[i].kind # "stop"
               /\ triggered' /\ Last(raw').kind = "stop" /\ tokens' = Front(raw')
    <3>1. n = Len(raw) /\ n = Len(sampled) /\ StopAt(n) /\ phase[Driver] = "idle"
      BY <2>2, <2>4, StopInResponse
    <3>2. stops # {}
      <4>1. stops # {} \/ \E k \in 1..Len(channel) : IsStop(k)
        BY <2>1, <3>1 DEF StopSentInv
      <4>2. Quiet => Len(channel) = 0
        BY DEF Quiet
      <4> QED
        BY <2>1, <4>1, <4>2
    <3>3. Min(stops) = n
      <4>1. stops \in SUBSET Nat
        BY DEF ChannelInv
      <4>2. Min(stops) \in stops
        BY <3>2, <4>1, MinLeast
      <4>3. StopAt(Min(stops))
        BY <4>2 DEF StopInv
      <4> QED
        BY <3>1, <4>3, StopPlace
    <3>4. tokens' = SubSeq(raw, 1, n - 1)
      BY <2>1, <2>2, <2>4, <3>2, <3>3 DEF Strip
    <3>5. triggered'
      BY <2>1, <2>2, <2>4, <3>2, <3>3 DEF Matches
    <3>6. n - 1 \in Nat /\ n - 1 <= Len(raw)
      BY <2>2
    <3>7. /\ tokens' \in Seq(Token) /\ Len(tokens') = n - 1
          /\ \A i \in 1..(n - 1) : tokens'[i] = raw[i]
      BY <2>2, <3>4, <3>6, Heads
    <3>8. ASSUME NEW i \in DOMAIN tokens' PROVE tokens'[i].kind # "stop"
      <4>1. i \in 1..(n - 1)
        BY <3>7, LenProperties
      <4>2. i \in 1..Len(raw) /\ i # n
        BY <3>1, <4>1
      <4>3. raw[i].kind # "stop"
        BY <2>2, <3>1, <4>2, StopInResponse
      <4> QED
        BY <3>7, <4>1, <4>3
    <3>9. Last(raw').kind = "stop" /\ tokens' = Front(raw')
      BY <2>1, <2>4, <3>1, <3>4 DEF Last, Front
    <3> QED
      BY <3>5, <3>8, <3>9
  <2> QED
    BY <2>3, <2>4
<1>2. CASE AbortNoOutputs
  <2>1. tokens' = <<>> /\ raw' = <<>>
    BY <1>2 DEF AbortNoOutputs, HeadInv, PhaseInv
  <2> QED
    BY <2>1 DEF ResponseExact
<1>3. CASE pc' \notin {"mask_poll", "returned"}
  BY <1>3 DEF ResponseExact
<1>4. CASE /\ UNCHANGED <<raw, tokens, triggered>>
           /\ pc' \in {"mask_poll", "returned"} => pc \in {"mask_poll", "returned"}
  BY <1>4, <1>r DEF ResponseExact
<1> QED
  BY <1>1, <1>2, <1>3, <1>4
     DEF Next, vars, server, StartRow, Work, RejectionSample, BookkeepingSync, Publish, Abort,
         Receive, PopMask

(* At first there is neither a row nor a stop event.                       *)
LEMMA InitExact == Init => ExactInv
<1> SUFFICES ASSUME Init PROVE ExactInv
  OBVIOUS
<1>1. /\ sampled = <<>> /\ row = <<>> /\ seen = 0 /\ channel = <<>> /\ stops = {}
      /\ pc = "generate" /\ raw = <<>> /\ deployment \in Deployments
      /\ phase = [r \in Ranks |-> "idle"]
  BY DEF Init
<1>2. Len(<<>>) = 0
  OBVIOUS
<1>3. PhaseInv
  BY <1>1 DEF PhaseInv
<1>4. phase[Driver] = "idle"
  BY <1>1, <1>3, DriverPhase
<1>5. ShapeInv
  <2>1. Before = 0 /\ Len(row) = 0 /\ Len(sampled) = 0
    BY <1>1, <1>2 DEF Before
  <2> QED
    BY <1>1, <1>4, <2>1, SizeAssumption DEF ShapeInv
<1>6. StopInv /\ StopSentInv
  <2>1. \A p : ~StopAt(p)
    BY <1>1, <1>2 DEF StopAt
  <2> QED
    BY <1>1, <1>2, <2>1 DEF StopInv, StopSentInv
<1>7. ResponseExact
  BY <1>1 DEF ResponseExact
<1> QED
  BY <1>3, <1>5, <1>6, <1>7 DEF ExactInv

(* The inductive invariant behind exact responses: only the latest row can *)
(* hold a stop token, and its event is on its way before the driver can    *)
(* have finished the row.                                                  *)
THEOREM ExactInvariance == Spec => []ExactInv
<1>1. Init => ExactInv
  BY InitExact
<1>2. IInv /\ ExactInv /\ [Next]_vars => ExactInv'
  BY PhaseStep, ShapeStep, StopStep, StopSentStep, ExactStep DEF IInv, ExactInv
<1> QED
  BY <1>1, <1>2, Invariance, PTL DEF Spec

(* For any number of ranks, as long as nothing is lost or late: generate() *)
(* hands on what was sampled without the private stop token, and reports   *)
(* every response that the stop token ended.                               *)
THEOREM ResponsesExact == Spec => []ResponseExact
BY ExactInvariance, PTL DEF ExactInv
-----------------------------------------------------------------------------
(* A message that continues the chain extends it.                          *)
LEMMA ChainExtend ==
    ASSUME NEW ch \in Seq(Message), NEW msg \in Message, NEW b \in Nat, NEW to \in Nat, NEW first,
           NEW f, Chained(ch, first, b, b, f), Brings(msg, b, to)
    PROVE  \E g : Chained(Append(ch, msg), first, to, b, g)
<1> DEFINE n == Len(ch)
           new == Append(ch, msg)
           g == [k \in 1..(n + 2) |-> IF k = n + 2 THEN to ELSE f[k]]
<1>1. /\ n \in Nat /\ Len(new) = n + 1 /\ new[n + 1] = msg
      /\ \A k \in 1..n : new[k] = ch[k]
  BY AppendProperties, LenProperties
<1>2. /\ f \in [1..(n + 1) -> Nat] /\ f[1] = first /\ f[n + 1] = b
      /\ \A k \in 1..n : f[k] <= b /\ Brings(ch[k], f[k], f[k + 1])
  BY DEF Chained
<1> HIDE DEF n, new
<1>3. n + 1 + 1 = n + 2 /\ \A k \in 1..(n + 2) : k # n + 2 => k \in 1..(n + 1)
  BY <1>1
<1>4. g \in [1..(Len(new) + 1) -> Nat]
  BY <1>1, <1>2, <1>3
<1>5. g[n + 2] = to /\ \A k \in 1..(n + 1) : g[k] = f[k]
  BY <1>1
<1> HIDE DEF g
<1>6. g[1] = first /\ g[Len(new) + 1] = to
  BY <1>1, <1>2, <1>3, <1>5
<1>7. ASSUME NEW k \in 1..Len(new) PROVE g[k] <= b /\ Brings(new[k], g[k], g[k + 1])
  <2>1. CASE k = n + 1
    <3>1. g[k] = b /\ g[k + 1] = to /\ new[k] = msg
      BY <1>1, <1>2, <1>3, <1>5, <2>1
    <3> QED
      BY <3>1
  <2>2. CASE k # n + 1
    <3>1. k \in 1..n /\ k \in 1..(n + 1) /\ k + 1 \in 1..(n + 1)
      BY <1>1, <2>2
    <3>2. g[k] = f[k] /\ g[k + 1] = f[k + 1] /\ new[k] = ch[k]
      BY <1>1, <1>5, <3>1
    <3> QED
      BY <1>2, <3>1, <3>2
  <2> QED
    BY <2>1, <2>2
<1>8. Chained(new, first, to, b, g)
  BY <1>4, <1>6, <1>7 DEF Chained
<1> QED
  BY <1>8 DEF new

(* The first message of a chain starts it, and the others go on.           *)
LEMMA ChainShift ==
    ASSUME NEW ch \in Seq(Message), ch # <<>>, NEW first, NEW last, NEW b, NEW f,
           Chained(ch, first, last, b, f)
    PROVE  /\ f[2] \in Nat /\ Brings(ch[1], first, f[2])
           /\ \E g : Chained(Tail(ch), f[2], last, b, g)
<1> DEFINE n == Len(ch)
           new == Tail(ch)
           g == [k \in 1..n |-> f[k + 1]]
<1>1. /\ n \in Nat /\ Len(new) = n - 1 /\ n > 0
      /\ \A k \in 1..Len(new) : new[k] = ch[k + 1]
  BY HeadTailProperties, LenProperties, EmptySeq
<1>2. /\ f \in [1..(n + 1) -> Nat] /\ f[1] = first /\ f[n + 1] = last
      /\ \A k \in 1..n : f[k] <= b /\ Brings(ch[k], f[k], f[k + 1])
  BY DEF Chained
<1> HIDE DEF n, new
<1>3. 1 \in 1..n /\ 2 \in 1..(n + 1) /\ 1 + 1 = 2 /\ Len(new) + 1 = n /\ \A k \in 1..n : k + 1 \in 1..(n + 1)
  BY <1>1
<1>4. f[2] \in Nat /\ Brings(ch[1], first, f[2])
  BY <1>2, <1>3
<1>5. g \in [1..(Len(new) + 1) -> Nat] /\ \A k \in 1..n : g[k] = f[k + 1]
  BY <1>2, <1>3
<1> HIDE DEF g
<1>6. g[1] = f[2] /\ g[Len(new) + 1] = last
  BY <1>1, <1>2, <1>3, <1>5
<1>7. ASSUME NEW k \in 1..Len(new) PROVE g[k] <= b /\ Brings(new[k], g[k], g[k + 1])
  <2>1. k \in 1..n /\ k + 1 \in 1..n
    BY <1>1
  <2>2. g[k] = f[k + 1] /\ g[k + 1] = f[k + 1 + 1] /\ new[k] = ch[k + 1]
    BY <1>1, <1>5, <2>1
  <2> QED
    BY <1>2, <2>1, <2>2
<1>8. Chained(new, f[2], last, b, g)
  BY <1>5, <1>6, <1>7 DEF Chained
<1> QED
  BY <1>4, <1>8 DEF new

(* The bound on where messages begin may grow.                             *)
LEMMA ChainWiden ==
    ASSUME NEW ch \in Seq(Message), NEW first, NEW last, NEW b \in Nat, NEW c \in Nat, b <= c, NEW f,
           Chained(ch, first, last, b, f)
    PROVE  Chained(ch, first, last, c, f)
<1>1. /\ f \in [1..(Len(ch) + 1) -> Nat]
      /\ \A k \in 1..Len(ch) : f[k] <= b /\ Brings(ch[k], f[k], f[k + 1])
  BY DEF Chained
<1>2. ASSUME NEW k \in 1..Len(ch) PROVE f[k] <= c
  <2>1. Len(ch) \in Nat
    BY LenProperties
  <2>2. k \in 1..(Len(ch) + 1)
    BY <2>1
  <2>3. f[k] \in Nat /\ f[k] <= b
    BY <1>1, <2>2
  <2> QED
    BY <2>3
<1> QED
  BY <1>1, <1>2 DEF Chained

(* The datagram of a row brings the labels of its positions, and no        *)
(* actions unless they are exported.                                       *)
LEMMA ChunkBrings ==
    ASSUME RowInv
    PROVE  /\ Before \in Nat /\ Brings(Chunk, Before, Len(sampled))
           /\ ~ExportAction => Chunk.acts = 0
<1>1. /\ Len(sampled) \in Nat /\ Len(row) \in Nat /\ Len(row) <= Len(sampled)
      /\ DOMAIN row = 1..Len(row)
  BY LenProperties DEF RowInv
<1>2. Before \in Nat /\ Before + Len(row) = Len(sampled)
  BY <1>1 DEF Before
<1>3. Chunk.evs = [i \in 1..Len(row) |-> [pos |-> Before + i, token |-> row[i]]]
  BY <1>1 DEF Chunk
<1>4. Chunk \in RowMessage
  BY ChunkTruthful
<1>5. Chunk.evs \in Seq(Event) /\ Chunk.type = "OPD"
  BY <1>4 DEF RowMessage
<1>6. DOMAIN Chunk.evs = 1..Len(row) /\ \A i \in 1..Len(row) : Chunk.evs[i].pos = Before + i
  BY <1>3
<1>7. PICK evs \in Seq(Event) : evs = Chunk.evs
  BY <1>5
<1>8. Len(evs) = Len(row)
  <2>1. DOMAIN evs = 1..Len(evs) /\ DOMAIN evs = 1..Len(row)
    BY <1>6, <1>7, LenProperties
  <2>2. Len(evs) \in Nat /\ Len(row) \in Nat
    BY <1>1, LenProperties
  <2>3. \A i \in Nat : 1 <= i /\ i <= Len(evs) <=> 1 <= i /\ i <= Len(row)
    BY <2>1, <2>2
  <2> QED
    BY <2>2, <2>3
<1>9. Brings(Chunk, Before, Len(sampled))
  BY <1>2, <1>5, <1>6, <1>7, <1>8 DEF Brings
<1>10. ~ExportAction => Chunk.acts = 0
  BY DEF Chunk
<1> QED
  BY <1>2, <1>9, <1>10

(* Labels are sent and received in order: stores and socket stay           *)
(* consecutive.                                                            *)
LEMMA ChainStep ==
    ASSUME RowInv, EventsInv, ChannelInv, PhaseInv, ShapeInv, ChainInv, [Next]_vars
    PROVE  ChainInv'
<1>d. /\ Driver \in Ranks /\ Ranks' = Ranks /\ (Reliable' <=> Reliable)
      /\ channel \in Seq(Message)
  BY DriverPhase, SameDeployment DEF ChannelInv
<1>p. pc \in {"returned", "raised"} => pc' = pc
  BY DEF Next, vars, server, StartRow, Work, RejectionSample, BookkeepingSync, Publish,
         Abort, AbortNoOutputs, Receive, PopStopEvent, PopMask
<1> SUFFICES ASSUME Reliable, Ranks = {Driver}, pc' \notin {"returned", "raised"}
             PROVE  ChainInv'
  BY <1>d DEF ChainInv, Single
<1>i. InPlace /\ \E f : Chained(channel, Len(events), Labelled, Before, f)
  <2>1. pc \notin {"returned", "raised"}
    BY <1>p
  <2> QED
    BY <2>1 DEF ChainInv, Single
<1>b. /\ Before \in Nat /\ Len(sampled) \in Nat /\ Before + Len(row) = Len(sampled)
  BY StopPlace
<1>0. ASSUME \A i \in 1..Len(events') : events'[i].pos = i,
             \E f : Chained(channel', Len(events'), Labelled', Before', f)
      PROVE  ChainInv'
  BY <1>0 DEF ChainInv, InPlace
<1>1. CASE StartRow
  <2>1. /\ channel' = channel /\ events' = events /\ phase[Driver] = "idle"
        /\ phase'[Driver] = "forward"
    BY <1>1, <1>d DEF StartRow, stores
  <2>2. Before' = Len(sampled)
    BY <1>1, StartedRow
  <2>3. Labelled = Len(sampled) /\ Labelled' = Len(sampled) /\ Before <= Len(sampled)
    <3>1. Len(row) \in Nat
      BY LenProperties DEF RowInv
    <3> QED
      BY <1>b, <2>1, <2>2, <3>1 DEF Labelled
  <2>4. PICK f : Chained(channel, Len(events), Labelled, Before, f)
    BY <1>i
  <2>5. Chained(channel, Len(events), Labelled, Len(sampled), f)
    BY <1>b, <1>d, <2>3, <2>4, ChainWiden
  <2> QED
    BY <1>0, <1>i, <2>1, <2>2, <2>3, <2>5 DEF InPlace
<1>s. ASSUME NEW msg \in Message, Send(msg), UNCHANGED <<sampled, row, events>>,
             phase[Driver] # "idle", Labelled' \in Nat, Brings(msg, Before, Labelled')
      PROVE  ChainInv'
  <2>1. channel' = Append(channel, msg) /\ Before' = Before /\ Labelled = Before
    BY <1>s DEF Send, Before, Labelled
  <2>2. PICK f : Chained(channel, Len(events), Before, Before, f)
    BY <1>i, <2>1
  <2>3. PICK to \in Nat : to = Labelled'
    BY <1>s
  <2>4. \E g : Chained(Append(channel, msg), Len(events), to, Before, g)
    BY <1>b, <1>d, <1>s, <2>2, <2>3, ChainExtend
  <2> QED
    BY <1>0, <1>i, <1>s, <2>1, <2>3, <2>4 DEF InPlace
<1>2. ASSUME RejectionSample(Driver) PROVE ChainInv'
  <2>1. /\ UNCHANGED <<sampled, row, events>> /\ phase[Driver] = "forward"
        /\ phase'[Driver] = "rejected"
    BY <1>2, <1>d DEF RejectionSample, stores, PhaseInv
  <2>2. Labelled' = Before /\ Labelled = Before /\ Before' = Before
    BY <2>1 DEF Labelled, Before
  <2>3. \/ channel' = channel
        \/ Send(StopEvent) /\ StopEvent \in Message /\ StopEvent.type = "OPS1"
    BY <1>2, <1>d, WhatIsSent
  <2>4. CASE channel' = channel
    BY <1>0, <1>i, <2>1, <2>2, <2>4 DEF InPlace
  <2>5. CASE Send(StopEvent) /\ StopEvent \in Message /\ StopEvent.type = "OPS1"
    <3>1. Brings(StopEvent, Before, Labelled')
      BY <2>2, <2>5 DEF Brings
    <3> QED
      BY <1>b, <1>s, <2>1, <2>2, <2>5, <3>1
  <2> QED
    BY <2>3, <2>4, <2>5
<1>3. ASSUME BookkeepingSync(Driver) PROVE ChainInv'
  <2>1. /\ UNCHANGED <<sampled, row, events>> /\ phase[Driver] = "rejected"
        /\ phase'[Driver] = "idle"
    BY <1>3, <1>d DEF BookkeepingSync, stores, PhaseInv
  <2>2. Labelled' = Len(sampled)
    BY <2>1 DEF Labelled
  <2>3. Send(Chunk) /\ Chunk \in Message
    BY <1>3, <1>d, WhatIsSent
  <2>4. Brings(Chunk, Before, Labelled')
    BY <2>2, ChunkBrings
  <2> QED
    BY <1>b, <1>s, <2>1, <2>2, <2>3, <2>4
<1>4. CASE Receive
  <2>1. /\ UNCHANGED <<sampled, row, phase>> /\ channel # <<>> /\ channel' = Tail(channel)
    BY <1>4 DEF Receive, workers
  <2>2. Labelled' = Labelled /\ Before' = Before
    BY <2>1 DEF Labelled, Before
  <2>3. PICK f : Chained(channel, Len(events), Labelled, Before, f)
    BY <1>i
  <2>4. /\ f[2] \in Nat /\ Brings(channel[1], Len(events), f[2])
        /\ \E g : Chained(channel', f[2], Labelled, Before, g)
    BY <1>d, <2>1, <2>3, ChainShift
  <2>5. /\ Len(channel) > 0
        /\ \/ IsStop(1) /\ events' = events
           \/ /\ ~IsStop(1) /\ channel[1] \in RowMessage
              /\ events' = events \o channel[1].evs
    BY <1>4, Received
  <2>6. CASE IsStop(1) /\ events' = events
    <3>1. f[2] = Len(events)
      BY <2>4, <2>6 DEF Brings, IsStop
    <3> QED
      BY <1>0, <1>i, <2>2, <2>4, <2>6, <3>1 DEF InPlace
  <2>7. CASE channel[1] \in RowMessage /\ events' = events \o channel[1].evs
    <3>1. PICK more \in Seq(Event) : more = channel[1].evs
      BY <2>7 DEF RowMessage
    <3>2. f[2] = Len(events) + Len(more) /\ \A j \in 1..Len(more) : more[j].pos = Len(events) + j
      <4>1. channel[1].type = "OPD"
        BY <2>7 DEF RowMessage
      <4> QED
        BY <2>4, <3>1, <4>1 DEF Brings
    <3>3. /\ Len(events') = Len(events) + Len(more) /\ Len(more) \in Nat /\ Len(events) \in Nat
          /\ \A k \in 1..(Len(events) + Len(more)) :
                events'[k] = IF k <= Len(events) THEN events[k] ELSE more[k - Len(events)]
      BY <2>7, <3>1, ConcatProperties, LenProperties DEF EventsInv
    <3>4. ASSUME NEW k \in 1..Len(events') PROVE events'[k].pos = k
      <4>1. CASE k <= Len(events)
        <5>1. k \in 1..Len(events) /\ events'[k] = events[k]
          BY <3>3, <4>1
        <5> QED
          BY <1>i, <5>1 DEF InPlace
      <4>2. CASE ~(k <= Len(events))
        <5>1. /\ k - Len(events) \in 1..Len(more) /\ events'[k] = more[k - Len(events)]
              /\ Len(events) + (k - Len(events)) = k
          BY <3>3, <4>2
        <5> QED
          BY <3>2, <5>1
      <4> QED
        BY <4>1, <4>2
    <3>5. f[2] = Len(events')
      BY <3>2, <3>3
    <3> QED
      BY <1>0, <2>2, <2>4, <3>4, <3>5
  <2> QED
    BY <2>5, <2>6, <2>7
<1>5. CASE UNCHANGED <<sampled, row, phase, channel, events>>
  <2>1. Labelled' = Labelled /\ Before' = Before
    BY <1>5 DEF Labelled, Before
  <2> QED
    BY <1>0, <1>i, <1>5, <2>1 DEF InPlace
<1>6. CASE PopMask \/ AbortNoOutputs
  BY <1>6 DEF PopMask, AbortNoOutputs
<1>7. ASSUME NEW r \in Ranks, Work(r) PROVE RejectionSample(Driver) \/ BookkeepingSync(Driver)
  BY <1>7 DEF Work
<1> QED
  BY <1>1, <1>2, <1>3, <1>4, <1>5, <1>6, <1>7
     DEF Next, vars, workers, stores, Publish, Abort, PopStopEvent

(* A row has one stop event, and no row follows it.                        *)
LEMMA OnceStep ==
    ASSUME RowInv, ChannelInv, PhaseInv, ShapeInv, StopInv, OnceInv, [Next]_vars
    PROVE  OnceInv'
<1>d. Driver \in Ranks /\ Ranks' = Ranks /\ (Reliable' <=> Reliable)
  BY DriverPhase, SameDeployment
<1> DEFINE StopNow(k) == channel'[k].type = "OPS1"
<1> SUFFICES ASSUME Reliable, Ranks = {Driver}
             PROVE  /\ \A i, j \in 1..Len(channel') : StopNow(i) /\ StopNow(j) => i = j
                    /\ stops' # {} => \A k \in 1..Len(channel') : ~StopNow(k)
                    /\ phase'[Driver] = "forward" =>
                            stops' = {} /\ \A k \in 1..Len(channel') : ~StopNow(k)
  BY <1>d DEF OnceInv, Single, IsStop
<1>i. /\ \A i, j \in 1..Len(channel) : IsStop(i) /\ IsStop(j) => i = j
      /\ stops # {} => \A k \in 1..Len(channel) : ~IsStop(k)
      /\ phase[Driver] = "forward" => stops = {} /\ \A k \in 1..Len(channel) : ~IsStop(k)
  BY DEF OnceInv, Single
<1>1. CASE StartRow
  <2>1. stops = {} /\ \A k \in 1..Len(channel) : ~IsStop(k)
    BY <1>1, NoStopYet
  <2>2. stops' = stops /\ channel' = channel
    BY <1>1 DEF StartRow, stores
  <2> QED
    BY <2>1, <2>2 DEF IsStop
<1>2. CASE RejectionSample(Driver)
  <2>1. /\ phase[Driver] = "forward" /\ phase'[Driver] = "rejected" /\ stops' = stops
    BY <1>2, <1>d DEF RejectionSample, stores, PhaseInv
  <2>2. stops = {} /\ \A k \in 1..Len(channel) : ~IsStop(k)
    BY <1>i, <2>1
  <2>3. channel' = channel \/ (StopEvent \in Message /\ Send(StopEvent))
    BY <1>2, <1>d, WhatIsSent
  <2>4. CASE channel' = channel
    BY <2>1, <2>2, <2>4 DEF IsStop
  <2>5. CASE StopEvent \in Message /\ Send(StopEvent)
    <3>1. /\ Len(channel) \in Nat /\ Len(channel') = Len(channel) + 1
          /\ \A k \in 1..Len(channel) : channel'[k] = channel[k]
      BY <2>5, SentLast
    <3>2. ASSUME NEW k \in 1..Len(channel'), StopNow(k) PROVE k = Len(channel) + 1
      <4>1. k \in 1..Len(channel) \/ k = Len(channel) + 1
        BY <3>1
      <4> QED
        BY <2>2, <3>1, <3>2, <4>1 DEF IsStop
    <3> QED
      BY <2>1, <2>2, <3>2
  <2> QED
    BY <2>3, <2>4, <2>5
<1>3. CASE BookkeepingSync(Driver)
  <2>1. phase'[Driver] = "idle" /\ stops' = stops
    BY <1>3, <1>d DEF BookkeepingSync, stores, PhaseInv
  <2>2. Chunk \in Message /\ Chunk.type = "OPD" /\ Send(Chunk)
    BY <1>3, <1>d, WhatIsSent
  <2>3. /\ Len(channel) \in Nat /\ Len(channel') = Len(channel) + 1
        /\ channel'[Len(channel) + 1] = Chunk
        /\ \A k \in 1..Len(channel) : channel'[k] = channel[k]
    BY <2>2, SentLast
  <2>4. ASSUME NEW k \in 1..Len(channel'), StopNow(k) PROVE k \in 1..Len(channel) /\ IsStop(k)
    <3>1. k \in 1..Len(channel) \/ k = Len(channel) + 1
      BY <2>3
    <3>2. k # Len(channel) + 1
      BY <2>2, <2>3, <2>4
    <3> QED
      BY <2>3, <2>4, <3>1, <3>2 DEF IsStop
  <2> QED
    BY <1>i, <2>1, <2>4
<1>4. CASE Receive
  <2>1. /\ Len(channel) \in Nat /\ Len(channel) > 0 /\ Len(channel') = Len(channel) - 1
        /\ \A k \in 1..Len(channel') : channel'[k] = channel[k + 1]
        /\ \/ IsStop(1) /\ stops' = stops \cup {channel[1].pos}
           \/ ~IsStop(1) /\ stops' = stops
    BY <1>4, Received
  <2>2. phase' = phase
    BY <1>4 DEF Receive, workers
  <2>3. ASSUME NEW k \in 1..Len(channel'), StopNow(k)
        PROVE  k + 1 \in 1..Len(channel) /\ IsStop(k + 1) /\ k + 1 # 1
    <3>1. k + 1 \in 1..Len(channel) /\ k + 1 # 1 /\ channel'[k] = channel[k + 1]
      BY <2>1
    <3> QED
      BY <2>3, <3>1 DEF IsStop
  <2>4. ASSUME NEW i \in 1..Len(channel'), NEW j \in 1..Len(channel'), StopNow(i), StopNow(j)
        PROVE  i = j
    <3>1. i + 1 = j + 1
      BY <1>i, <2>3, <2>4
    <3> QED
      BY <2>1, <3>1
  <2>5. 1 \in 1..Len(channel)
    BY <2>1
  <2>6. CASE IsStop(1)
    <3>1. \A k \in 1..Len(channel') : ~StopNow(k)
      BY <1>i, <2>3, <2>5, <2>6
    <3>2. phase[Driver] # "forward"
      BY <1>i, <2>5, <2>6
    <3> QED
      BY <2>2, <2>4, <3>1, <3>2
  <2>7. CASE ~IsStop(1)
    <3>1. stops' = stops
      BY <2>1, <2>7
    <3> QED
      BY <1>i, <2>2, <2>3, <2>4, <3>1
  <2> QED
    BY <2>6, <2>7
<1>5. CASE phase' = phase /\ channel' = channel /\ stops' \subseteq stops
  <2>1. stops' # {} => stops # {}
    BY <1>5
  <2>2. stops = {} => stops' = {}
    BY <1>5
  <2> QED
    BY <1>i, <1>5, <2>1, <2>2 DEF IsStop
<1>6. ASSUME NEW r \in Ranks, Work(r) PROVE RejectionSample(Driver) \/ BookkeepingSync(Driver)
  BY <1>6 DEF Work
<1> QED
  BY <1>1, <1>2, <1>3, <1>4, <1>5, <1>6
     DEF Next, vars, workers, stores, Publish, Abort, AbortNoOutputs, PopStopEvent, PopMask

(* A response that has ended reaches into the latest row, which the driver *)
(* has finished.                                                           *)
LEMMA EndedResponse ==
    ASSUME RowInv, PhaseInv, ShapeInv, HeadOf(raw), Ended(raw)
    PROVE  Len(raw) > Before /\ phase[Driver] = "idle" /\ raw # <<>>
<1>1. /\ Len(raw) \in Nat /\ Before \in Nat /\ DOMAIN raw = 1..Len(raw)
      /\ \A i \in 1..Len(raw) : raw[i] = sampled[i]
  BY LenProperties, StopPlace DEF HeadOf
<1>2. Len(raw) > Before
  <2>1. CASE Len(raw) >= MaxTokens
    BY <1>1, <2>1, SizeAssumption DEF ShapeInv
  <2>2. ASSUME NEW i \in 1..Len(raw), raw[i].kind \in {"eos", "stop"} PROVE Len(raw) > Before
    <3>1. sampled[i].kind \in {"eos", "stop"}
      BY <1>1, <2>2
    <3>2. ~(i \in 1..Before)
      BY <3>1 DEF ShapeInv
    <3> QED
      BY <1>1, <3>2
  <2> QED
    BY <1>1, <2>1, <2>2 DEF Ended
<1>3. ~(Len(raw) <= Before) /\ Len(raw) # 0
  BY <1>1, <1>2
<1> QED
  BY <1>2, <1>3 DEF ShapeInv

(* So do its final tokens, with the stop token stripped.                   *)
LEMMA EndedTokens ==
    ASSUME RowInv, PhaseInv, ShapeInv, HeadInv, ResponseExact, Ended(raw), Reliable, pc = "mask_poll"
    PROVE  Len(tokens) > Before
<1>1. HeadOf(raw) /\ raw \in Seq(Token) /\ Len(raw) \in Nat /\ Before \in Nat
  BY LenProperties, StopPlace DEF HeadInv, HeadOf
<1>2. Len(raw) > Before
  BY <1>1, EndedResponse
<1>3. CASE tokens = raw
  BY <1>2, <1>3
<1>4. CASE tokens # raw
  <2>1. raw[Len(raw)].kind = "stop" /\ tokens = SubSeq(raw, 1, Len(raw) - 1)
    BY <1>4 DEF ResponseExact, Last, Front
  <2>2. Len(raw) \in 1..Len(raw)
    BY <1>1, <1>2
  <2>3. StopAt(Len(raw))
    BY <1>1, <2>1, <2>2, StopInResponse
  <2>4. Len(raw) > Before + 1
    BY <2>3, StopPlace
  <2>5. Len(raw) - 1 \in Nat /\ Len(raw) - 1 <= Len(raw)
    BY <1>1, <2>2
  <2>6. Len(tokens) = Len(raw) - 1
    BY <1>1, <2>1, <2>5, Heads
  <2> QED
    BY <1>1, <2>4, <2>6
<1> QED
  BY <1>3, <1>4

(* Enough labels for a response that has ended are all there are.          *)
LEMMA AllReceived ==
    ASSUME RowInv, ChannelInv, PhaseInv, ShapeInv, HeadInv, EventsInv, ResponseExact, ChainInv, Single,
           Ended(raw), PopMask
    PROVE  channel = <<>>
<1>1. pc = "mask_poll" /\ (Enough \/ Quiet)
  BY DEF PopMask, DeadlinePasses, Single
<1>2. CASE Quiet
  BY <1>2 DEF Quiet
<1>3. CASE Enough
  <2>1. PICK f : Chained(channel, Len(events), Labelled, Before, f)
    BY <1>1 DEF ChainInv
  <2>2. /\ channel \in Seq(Message) /\ Len(channel) \in Nat /\ Len(events) \in Nat
        /\ Len(tokens) \in Nat /\ Before \in Nat
    BY LenProperties, StopPlace DEF ChannelInv, EventsInv, HeadInv, HeadOf
  <2>3. Len(tokens) > Before
    BY <1>1, EndedTokens DEF Single
  <2>4. Len(events) > Before
    BY <1>3, <2>2, <2>3 DEF Enough
  <2>5. ~(1 \in 1..Len(channel))
    <3>1. f[1] = Len(events) /\ (1 \in 1..Len(channel) => f[1] <= Before)
      BY <2>1 DEF Chained
    <3> QED
      BY <2>2, <2>4, <3>1
  <2>6. Len(channel) = 0
    BY <2>2, <2>5
  <2> QED
    BY <2>2, <2>6, EmptySeq
<1> QED
  BY <1>1, <1>2, <1>3

(* A response that has ended leaves nothing in socket and stores.          *)
LEMMA DrainStep ==
    ASSUME RowInv, ChannelInv, PhaseInv, ShapeInv, HeadInv, EventsInv, ResponseExact, ChainInv, OnceInv,
           DrainInv, [Next]_vars
    PROVE  DrainInv'
<1>d. Driver \in Ranks /\ Ranks' = Ranks /\ (Reliable' <=> Reliable)
  BY DriverPhase, SameDeployment
<1> DEFINE StopNow(k) == channel'[k].type = "OPS1"
<1> SUFFICES ASSUME Reliable, Ranks = {Driver}, Ended(raw'), pc' \in {"mask_poll", "returned"}
             PROVE  /\ pc' = "mask_poll" => stops' = {} /\ \A k \in 1..Len(channel') : ~StopNow(k)
                    /\ pc' = "returned" =>
                        /\ stops' = {} /\ events' = <<>> /\ channel' = <<>>
                        /\ phase'[Driver] = "idle"
  BY <1>d DEF DrainInv, Single, IsStop, Ended
<1>s. Single
  BY DEF Single
<1>r. raw' = raw
  BY DEF Next, vars, server, StartRow, Work, RejectionSample, BookkeepingSync, Publish, Abort,
         AbortNoOutputs, Receive, PopStopEvent, PopMask
<1>e. Ended(raw) /\ raw # <<>> /\ phase[Driver] = "idle"
  <2>1. Ended(raw)
    BY <1>r
  <2> QED
    BY <2>1, EndedResponse DEF HeadInv
<1>i. /\ pc = "mask_poll" => stops = {} /\ \A k \in 1..Len(channel) : ~IsStop(k)
      /\ pc = "returned" => stops = {} /\ events = <<>> /\ channel = <<>>
  BY <1>e, <1>s DEF DrainInv
<1>1. CASE PopStopEvent
  <2>1. /\ pc' = "mask_poll" /\ stops' = {} /\ channel' = channel /\ (stops # {} \/ Quiet)
    BY <1>1 DEF PopStopEvent, DeadlinePasses
  <2>2. stops # {} => \A k \in 1..Len(channel) : ~IsStop(k)
    BY <1>s DEF OnceInv
  <2>3. Quiet => Len(channel) = 0
    BY DEF Quiet
  <2>4. \A k \in 1..Len(channel) : ~IsStop(k)
    BY <2>1, <2>2, <2>3
  <2> QED
    BY <2>1, <2>4 DEF IsStop
<1>2. CASE PopMask
  <2>1. channel = <<>>
    BY <1>2, <1>e, <1>s, AllReceived
  <2>2. /\ pc = "mask_poll" /\ pc' # "mask_poll" /\ events' = <<>> /\ channel' = channel
        /\ stops' = stops /\ phase' = phase
    BY <1>2 DEF PopMask, PopStores, workers
  <2> QED
    BY <1>e, <1>i, <2>1, <2>2
<1>3. CASE Receive
  <2>1. /\ Len(channel) \in Nat /\ Len(channel) > 0 /\ Len(channel') = Len(channel) - 1
        /\ \A k \in 1..Len(channel') : channel'[k] = channel[k + 1]
        /\ IsStop(1) \/ stops' = stops
    BY <1>3, Received
  <2>2. pc' = pc /\ channel # <<>>
    BY <1>3 DEF Receive, server
  <2>3. pc = "mask_poll"
    BY <1>i, <2>2
  <2>4. stops' = {}
    <3>1. 1 \in 1..Len(channel)
      BY <2>1
    <3> QED
      BY <1>i, <2>1, <2>3, <3>1
  <2>5. ASSUME NEW k \in 1..Len(channel') PROVE ~StopNow(k)
    <3>1. k + 1 \in 1..Len(channel) /\ channel'[k] = channel[k + 1]
      BY <2>1
    <3> QED
      BY <1>i, <2>3, <3>1 DEF IsStop
  <2> QED
    BY <2>2, <2>3, <2>4, <2>5
<1>4. CASE UNCHANGED <<pc, stops, events, channel, phase>>
  BY <1>4, <1>e, <1>i DEF IsStop
<1>5. ASSUME NEW r \in Ranks PROVE ~Work(r)
  BY <1>e DEF Work, RejectionSample, BookkeepingSync
<1>6. ~StartRow
  BY DEF StartRow, server
<1>7. ~AbortNoOutputs
  BY <1>e DEF AbortNoOutputs, PhaseInv
<1>8. ~Publish /\ ~Abort
  BY <1>e DEF Publish, Abort, PhaseInv
<1> QED
  BY <1>1, <1>2, <1>3, <1>4, <1>5, <1>6, <1>7, <1>8 DEF Next, vars, workers

(* Without the export no datagram brings actions.                          *)
LEMMA ActionStep ==
    ASSUME RowInv, ChannelInv, ShapeInv, ActionInv, [Next]_vars
    PROVE  ActionInv'
<1> SUFFICES ASSUME ~ExportAction
             PROVE  /\ actions' = 0
                    /\ \A k \in 1..Len(channel') :
                            channel'[k].type = "OPD" => channel'[k].acts = 0
  BY DEF ActionInv
<1>i. actions = 0 /\ \A k \in 1..Len(channel) : channel[k].type = "OPD" => channel[k].acts = 0
  BY DEF ActionInv
<1>s. ASSUME NEW msg \in Message, Send(msg), msg.type = "OPD" => msg.acts = 0,
             NEW k \in 1..Len(channel'), channel'[k].type = "OPD"
      PROVE  channel'[k].acts = 0
  <2>1. channel'[k] = msg \/ \E j \in 1..Len(channel) : channel'[k] = channel[j]
    BY <1>s, Sent
  <2> QED
    BY <1>i, <1>s, <2>1
<1>1. ASSUME NEW r \in Ranks, Work(r)
      PROVE  /\ actions' = 0
             /\ \A k \in 1..Len(channel') : channel'[k].type = "OPD" => channel'[k].acts = 0
  <2>1. actions' = 0
    BY <1>1, <1>i DEF Work, RejectionSample, BookkeepingSync, stores
  <2>2. /\ StopEvent \in Message /\ StopEvent.type = "OPS1"
        /\ Chunk \in Message
        /\ channel' = channel \/ Send(StopEvent) \/ Send(Chunk)
    BY <1>1, WhatIsSent DEF Work
  <2>3. Chunk.acts = 0
    BY ChunkBrings
  <2>4. CASE channel' = channel
    BY <1>i, <2>1, <2>4
  <2>5. CASE Send(StopEvent)
    BY <1>s, <2>1, <2>2, <2>5
  <2>6. CASE Send(Chunk)
    BY <1>s, <2>1, <2>2, <2>3, <2>6
  <2> QED
    BY <2>2, <2>4, <2>5, <2>6
<1>2. CASE Receive
  <2>1. /\ Len(channel) \in Nat /\ Len(channel) > 0 /\ Len(channel') = Len(channel) - 1
        /\ \A k \in 1..Len(channel') : channel'[k] = channel[k + 1]
        /\ \/ actions' = actions
           \/ channel[1] \in RowMessage /\ actions' = actions + channel[1].acts
    BY <1>2, Received
  <2>2. ASSUME NEW k \in 1..Len(channel') PROVE k + 1 \in 1..Len(channel) /\ channel'[k] = channel[k + 1]
    BY <2>1
  <2>3. 1 \in 1..Len(channel)
    BY <2>1
  <2>4. channel[1] \in RowMessage => channel[1].acts = 0
    BY <1>i, <2>3 DEF RowMessage
  <2>5. actions' = 0
    BY <1>i, <2>1, <2>4
  <2> QED
    BY <1>i, <2>2, <2>5
<1>3. CASE channel' = channel /\ actions' \in {0, actions}
  BY <1>i, <1>3
<1> QED
  BY <1>1, <1>2, <1>3
     DEF Next, vars, stores, StartRow, Publish, Abort, AbortNoOutputs, PopStopEvent, PopMask, PopStores

(* Labels that are consecutive can be aligned as soon as there are as many *)
(* of them as tokens.                                                      *)
LEMMA EnoughAligns ==
    ASSUME EventsInv, HeadOf(tokens), InPlace, actions = 0, Len(events) >= Len(tokens)
    PROVE  Alignable
<1>1. /\ Len(tokens) \in Nat /\ Len(events) \in Nat
      /\ DOMAIN tokens = 1..Len(tokens) /\ DOMAIN events = 1..Len(events)
      /\ \A i \in 1..Len(tokens) : tokens[i] = sampled[i]
  BY LenProperties DEF HeadOf, EventsInv
<1>2. ASSUME NEW i \in Inside PROVE events[i].token.kind = tokens[events[i].pos].kind
  <2>1. i \in 1..Len(events) /\ events[i].pos <= Len(tokens)
    BY <1>1 DEF Inside
  <2>2. events[i].pos = i /\ events[i].token = sampled[i]
    BY <2>1 DEF EventsInv, Truthful, InPlace
  <2>3. i \in 1..Len(tokens)
    BY <1>1, <2>1, <2>2
  <2> QED
    BY <1>1, <2>2, <2>3
<1>3. ASSUME NEW p \in DOMAIN tokens PROVE p \in Covered
  <2>1. p \in 1..Len(events)
    BY <1>1
  <2>2. events[p].pos = p
    BY <2>1 DEF InPlace
  <2> QED
    BY <1>1, <2>1, <2>2 DEF Covered
<1> QED
  BY <1>2, <1>3 DEF Alignable

(* At the deadline all labels are there.                                   *)
LEMMA QuietComplete ==
    ASSUME PhaseInv, ChainInv, Single, Quiet, pc \notin {"returned", "raised"}
    PROVE  Len(events) = Len(sampled)
<1>1. PICK f : Chained(channel, Len(events), Labelled, Before, f)
  BY DEF ChainInv
<1>2. Len(channel) = 0 /\ phase[Driver] = "idle"
  BY DriverPhase DEF Quiet
<1>3. f[1] = Len(events) /\ f[0 + 1] = Labelled
  BY <1>1, <1>2 DEF Chained
<1>4. Labelled = Len(sampled) /\ 0 + 1 = 1
  BY <1>2 DEF Labelled
<1> QED
  BY <1>3, <1>4

(* One reliable rank without the export: nothing raises.                   *)
LEMMA RaiseStep ==
    ASSUME OneReliableRank, ~ExportAction, RowInv, EventsInv, HeadInv, PhaseInv, ChainInv, ActionInv,
           NeverRaises, [Next]_vars
    PROVE  NeverRaises'
<1>d. Reliable' <=> Reliable
  BY SameDeployment
<1> SUFFICES ASSUME Reliable, pc' = "raised", raw' # <<>> PROVE FALSE
  BY <1>d DEF NeverRaises
<1>1. CASE PopMask
  <2>1. /\ raw # <<>> /\ pc = "mask_poll" /\ ~(events # <<>> /\ Alignable)
        /\ (events # <<>> /\ Enough) \/ Quiet
    BY <1>1 DEF PopMask, DeadlinePasses
  <2>2. Single
    BY DEF Single, OneReliableRank, PhaseInv, Reliable, Ranks
  <2>3. /\ HeadOf(tokens) /\ HeadOf(raw) /\ raw \in Seq(Token) /\ Len(raw) \in Nat
        /\ Len(tokens) \in Nat /\ Len(tokens) <= Len(sampled) /\ Len(raw) <= Len(sampled)
        /\ Len(sampled) \in Nat /\ Len(events) \in Nat
    BY LenProperties DEF HeadInv, HeadOf, RowInv, EventsInv
  <2>4. Len(raw) # 0
    BY <2>1, <2>3, EmptySeq
  <2>5. events # <<>> /\ Len(events) >= Len(tokens)
    <3>1. CASE Quiet
      <4>1. Len(events) = Len(sampled)
        BY <2>1, <2>2, <3>1, QuietComplete
      <4>2. Len(events) # 0
        BY <2>3, <2>4, <4>1
      <4> QED
        BY <2>3, <4>1, <4>2
    <3>2. CASE events # <<>> /\ Enough
      BY <3>2 DEF Enough
    <3> QED
      BY <2>1, <3>1, <3>2
  <2>6. InPlace /\ actions = 0
    BY <2>1, <2>2 DEF ChainInv, ActionInv
  <2>7. Alignable
    BY <2>3, <2>5, <2>6, EnoughAligns
  <2> QED
    BY <2>1, <2>5, <2>7
<1>2. CASE pc' = pc /\ raw' = raw
  BY <1>2 DEF NeverRaises
<1>3. CASE pc' # "raised"
  BY <1>3
<1> QED
  BY <1>1, <1>2, <1>3
     DEF Next, vars, server, StartRow, Work, RejectionSample, BookkeepingSync, Publish, Abort,
         AbortNoOutputs, Receive, PopStopEvent

(* At first there is nothing to bring.                                     *)
LEMMA InitSingle == Init => SingleInv /\ NeverRaises
<1> SUFFICES ASSUME Init PROVE SingleInv /\ NeverRaises
  OBVIOUS
<1>1. /\ sampled = <<>> /\ row = <<>> /\ channel = <<>> /\ stops = {} /\ events = <<>>
      /\ actions = 0 /\ pc = "generate"
  BY DEF Init
<1>2. Len(<<>>) = 0
  OBVIOUS
<1>3. Before = 0 /\ Labelled = 0
  BY <1>1, <1>2 DEF Before, Labelled
<1>4. ChainInv
  <2> DEFINE f == [k \in 1..1 |-> 0]
  <2>1. f \in [1..1 -> Nat] /\ f[1] = 0
    OBVIOUS
  <2> HIDE DEF f
  <2>2. Len(channel) + 1 = 1 /\ Len(events) = 0 /\ Len(channel) = 0
    BY <1>1, <1>2
  <2>3. Chained(channel, Len(events), Labelled, Before, f)
    BY <1>3, <2>1, <2>2 DEF Chained
  <2> QED
    BY <2>2, <2>3 DEF ChainInv, InPlace
<1>5. OnceInv /\ DrainInv /\ ActionInv /\ NeverRaises
  BY <1>1, <1>2 DEF OnceInv, DrainInv, ActionInv, NeverRaises
<1> QED
  BY <1>4, <1>5 DEF SingleInv

(* The inductive invariant of one reliable rank: the labels in stores and  *)
(* socket are consecutive, and there is one stop event at most.            *)
THEOREM SingleInvariance == Spec => []SingleInv
<1>1. Init => SingleInv
  BY InitSingle
<1>2. IInv /\ ExactInv /\ SingleInv /\ [Next]_vars => SingleInv'
  BY ChainStep, OnceStep, DrainStep, ActionStep DEF IInv, ExactInv, SingleInv
<1> QED
  BY <1>1, <1>2, Invariance, ExactInvariance, PTL DEF Spec

(* If reliable deployments have one rank and actions are not exported:     *)
(* generate() raises for no response that has tokens, however rows, aborts *)
(* and datagrams are interleaved, whatever the lengths.                    *)
THEOREM NothingRaises ==
    ASSUME OneReliableRank, ~ExportAction PROVE Spec => []NeverRaises
<1>1. Init => NeverRaises
  BY InitSingle
<1>2. IInv /\ ExactInv /\ SingleInv /\ NeverRaises /\ [Next]_vars => NeverRaises'
  BY RaiseStep DEF IInv, ExactInv, SingleInv
<1> QED
  BY <1>1, <1>2, Invariance, ExactInvariance, SingleInvariance, PTL DEF Spec

(* If reliable deployments have one rank: a response that has ended leaves *)
(* neither labels nor a stop event in the stores of the server.            *)
THEOREM ServerKeepsNothing ==
    ASSUME OneReliableRank PROVE Spec => []StoresDrained
<1>1. ExactInv /\ SingleInv => StoresDrained
  <2> SUFFICES ASSUME ExactInv, SingleInv, Reliable, pc = "returned", Ended(raw)
               PROVE  events = <<>> /\ stops = {}
    BY DEF StoresDrained
  <2>1. Single
    BY DEF Single, OneReliableRank, ExactInv, PhaseInv, Reliable, Ranks
  <2> QED
    BY <2>1 DEF SingleInv, DrainInv
<1> QED
  BY <1>1, ExactInvariance, SingleInvariance, PTL
=============================================================================
