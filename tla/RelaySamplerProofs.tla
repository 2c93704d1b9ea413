------------------------- MODULE RelaySamplerProofs -------------------------
(***************************************************************************)
(* Proofs about RelaySampler for every draft length, token cap, paragraph  *)
(* budget, takeover budget and response length; and, at the end, about     *)
(* DraftProbs, the student distributions the same sampler reads.           *)
(***************************************************************************)
EXTENDS RelaySampler, DraftProbs, FiniteSetTheorems, SequenceTheorems,
        WellFoundedInduction, TLAPS

(* FirstOf picks the least element of a non-empty set of numbers.          *)
LEMMA FirstOfLeast ==
    ASSUME NEW S \in SUBSET Nat, S # {}
    PROVE  FirstOf(S) \in S /\ \A j \in S : FirstOf(S) <= j
<1> DEFINE R == {ss \in Nat \X Nat : ss[1] < ss[2]}
<1>1. IsWellFoundedOn(R, Nat)
  <2>1. R = OpToRel(<, Nat)
    BY Zenon DEF OpToRel
  <2> QED
    BY <2>1, NatLessThanWellFounded, Zenon
<1>2. PICK x \in S : \A y \in S : ~(<<y, x>> \in R)
  <2> HIDE DEF R
  <2> QED
    BY <1>1, WFMin
<1>3. ASSUME NEW y \in S PROVE x <= y
  <2>1. <<y, x>> \in Nat \X Nat /\ <<y, x>>[1] = y /\ <<y, x>>[2] = x
    OBVIOUS
  <2>2. ~(y < x)
    BY <2>1, <1>2, Zenon
  <2> QED
    BY <2>2
<1> QED
  BY <1>3 DEF FirstOf

(* Sets of slots are finite, and a subset of an interval is no larger.     *)
LEMMA SlotSets ==
    ASSUME NEW k \in Nat, NEW S \in SUBSET (1..k)
    PROVE  IsFiniteSet(S) /\ Cardinality(S) \in Nat /\ Cardinality(S) <= k
<1>1. IsFiniteSet(1..k) /\ Cardinality(1..k) = IF 1 > k THEN 0 ELSE k - 1 + 1
  BY FS_Interval
<1>2. IsFiniteSet(S) /\ Cardinality(S) <= Cardinality(1..k)
  BY <1>1, FS_Subset
<1>3. Cardinality(S) \in Nat
  BY <1>2, FS_CardinalityType
<1> QED
  BY <1>1, <1>2, <1>3

(* Monotonicity of Cardinality on finite sets of slots.                    *)
LEMMA SlotSubset ==
    ASSUME NEW k \in Nat, NEW T \in SUBSET (1..k), NEW S \in SUBSET T
    PROVE  Cardinality(S) <= Cardinality(T)
BY SlotSets, FS_Subset

-----------------------------------------------------------------------------
(* What committing a row can do: the response does not shrink, and a row   *)
(* that holds a stop token ends the request.                               *)
LEMMA CommitProperties ==
    ASSUME NEW out
    PROVE  /\ Cardinality(Accepted(out)) \in Nat
           /\ Finish(out) \in {"running", "eos", "stop", "length"}
           /\ (\E s \in Slots : out[s].kind = "stop") => Finish(out) # "running"
<1>1. Accepted(out) \in SUBSET (1..(MaxSpecLen + 1))
  BY DEF Accepted, Emitted, Slots
<1>2. Cardinality(Accepted(out)) \in Nat
  BY <1>1, SlotSets, SpecLenAssumption
<1>3. Ends(out) # {} => Finish(out) \in {"eos", "stop", "length"}
  BY DEF Finish
<1>4. Ends(out) = {} => Finish(out) = "running"
  BY DEF Finish
<1>5. (\E s \in Slots : out[s].kind = "stop") => Ends(out) # {}
  BY DEF Ends, Emitted
<1> QED
  BY <1>2, <1>3, <1>4, <1>5

(* The stop event of a row is a position of the response.                  *)
LEMMA StopEventType ==
    ASSUME NEW out, length \in Nat, stopEvent \in Nat \cup {NoEvent},
           RecordStop(out)
    PROVE  stopEvent' \in Nat \cup {NoEvent}
<1> DEFINE stops == {i \in Slots : out[i].kind = "stop"}
<1>1. CASE stops = {}
  BY <1>1 DEF RecordStop
<1>2. CASE stops # {}
  <2>1. stops \in SUBSET Nat /\ \A i \in stops : i >= 1
    BY SpecLenAssumption DEF Slots
  <2>2. FirstOf(stops) \in Nat /\ FirstOf(stops) >= 1
    BY <1>2, <2>1, FirstOfLeast
  <2>3. stopEvent' = length + FirstOf(stops) - 1
    BY <1>2 DEF RecordStop
  <2> QED
    BY <2>2, <2>3
<1> QED
  BY <1>1, <1>2

(* Without the bonus token a row of n drafts has between 1 and n tokens.   *)
LEMMA BonusDropped ==
    ASSUME NEW n \in 1..MaxSpecLen, NEW std \in StandardRows(n)
    PROVE  \E m \in 1..n : DOMAIN DropBonus(std, n) = 1..m
<1>1. PICK m \in 1..(n + 1) : std \in [1..m -> Kinds]
  BY DEF StandardRows
<1>2. DOMAIN DropBonus(std, n) = (1..m) \ {n + 1}
  BY <1>1 DEF DropBonus
<1>3. CASE m = n + 1
  BY <1>2, <1>3
<1>4. CASE m # n + 1
  BY <1>2, <1>4, SpecLenAssumption
<1> QED
  BY <1>3, <1>4

(* A paragraph count over one more token grows by at most one.             *)
LEMMA BreaksGrowth ==
    ASSUME NEW m \in Nat, NEW toks, DOMAIN toks = 1..m, NEW i \in Nat
    PROVE  /\ Breaks(toks, i) \in Nat
           /\ i > 0 => Breaks(toks, i) <= Breaks(toks, i - 1) + 1
           /\ Breaks(toks, 0) = 0
           /\ i >= m => Breaks(toks, i) = Breaks(toks, m)
<1> DEFINE B(x) == {j \in DOMAIN toks : j <= x /\ toks[j] = "para"}
<1>1. \A x \in Nat : B(x) \in SUBSET (1..m)
  OBVIOUS
<1>2. \A x \in Nat : IsFiniteSet(B(x)) /\ Cardinality(B(x)) \in Nat
  BY <1>1, SlotSets
<1>3. ASSUME i > 0 PROVE Cardinality(B(i)) <= Cardinality(B(i - 1)) + 1
  <2> DEFINE C == B(i - 1)
  <2>1. IsFiniteSet(C) /\ Cardinality(C) \in Nat /\ Cardinality(B(i)) \in Nat
    <3>1. i - 1 \in Nat
      BY <1>3
    <3> HIDE DEF B
    <3> QED
      BY <1>2, <3>1 DEF C
  <2>2. B(i) \in SUBSET (C \cup {i})
    BY <1>3
  <2> HIDE DEF C, B
  <2>3. /\ IsFiniteSet(C \cup {i})
        /\ Cardinality(C \cup {i}) = IF i \in C THEN Cardinality(C) ELSE Cardinality(C) + 1
    BY <2>1, FS_AddElement
  <2>4. Cardinality(B(i)) <= Cardinality(C \cup {i})
    BY <2>2, <2>3, FS_Subset
  <2>5. Cardinality(B(i)) <= Cardinality(C) + 1
    BY <2>1, <2>3, <2>4
  <2> QED
    BY <2>5 DEF C
<1>4. B(0) = {}
  OBVIOUS
<1>5. i >= m => B(i) = B(m)
  OBVIOUS
<1> QED
  BY <1>2, <1>3, <1>4, <1>5, FS_EmptySet DEF Breaks

(* The first place where the budget is used up lies inside it.             *)
LEMMA ExhaustedWithinBudget ==
    ASSUME NEW m \in Nat, NEW toks, DOMAIN toks = 1..m,
           tokensRemaining \in Nat, tokensRemaining > 0,
           paragraphsRemaining \in Nat, paragraphsRemaining > 0,
           Exhausted(toks) # {}
    PROVE  LET k == FirstOf(Exhausted(toks))
           IN  /\ k \in 1..m
               /\ k <= tokensRemaining
               /\ Breaks(toks, k) <= paragraphsRemaining
<1> DEFINE k == FirstOf(Exhausted(toks))
<1>1. Exhausted(toks) \in SUBSET Nat
  BY DEF Exhausted
<1>2. k \in Exhausted(toks) /\ \A j \in Exhausted(toks) : k <= j
  BY <1>1, FirstOfLeast
<1>3. k \in 1..m
  BY <1>2 DEF Exhausted
<1> HIDE DEF k
<1>4. k <= tokensRemaining
  <2>1. SUFFICES ASSUME k > tokensRemaining PROVE FALSE
    BY <1>3
  <2>2. tokensRemaining \in DOMAIN toks
    BY <1>3, <2>1
  <2>3. tokensRemaining \in Exhausted(toks)
    BY <2>2 DEF Exhausted
  <2> QED
    BY <1>2, <1>3, <2>1, <2>3
<1>5. Breaks(toks, k) <= paragraphsRemaining
  <2>1. k \in Nat /\ k > 0 /\ k - 1 \in Nat
    BY <1>3
  <2>2. Breaks(toks, k) <= Breaks(toks, k - 1) + 1 /\ Breaks(toks, k) \in Nat
    BY <2>1, BreaksGrowth
  <2>3. Breaks(toks, k - 1) \in Nat /\ Breaks(toks, 0) = 0
    BY <2>1, BreaksGrowth
  <2>4. CASE k = 1
    BY <2>2, <2>3, <2>4
  <2>5. CASE k # 1
    <3>1. k - 1 \in DOMAIN toks /\ k - 1 \notin Exhausted(toks)
      BY <1>2, <1>3, <2>1, <2>5
    <3>2. ~(paragraphsRemaining - Breaks(toks, k - 1) <= 0)
      BY <3>1 DEF Exhausted
    <3> QED
      BY <2>2, <2>3, <3>2
  <2> QED
    BY <2>4, <2>5
<1> QED
  BY <1>3, <1>4, <1>5 DEF k

(* A row that labels only the first k tokens teacher adds at most k tokens *)
(* and their paragraph breaks to the leg.                                  *)
LEMMA LegGrowth ==
    ASSUME NEW m \in Nat, NEW toks, DOMAIN toks = 1..m, NEW k \in Nat,
           NEW out,
           \A i \in Slots : out[i].teacher =>
                i <= k /\ i \in DOMAIN toks /\ out[i].kind = toks[i]
    PROVE  /\ Cardinality(TeacherSlots(out)) \in Nat
           /\ Cardinality(TeacherSlots(out)) <= k
           /\ Cardinality(TeacherSlots(out)) <= m
           /\ Cardinality(TeacherBreaks(out)) \in Nat
           /\ Cardinality(TeacherBreaks(out)) <= Breaks(toks, k)
<1>1. /\ TeacherSlots(out) \in SUBSET (1..k)
      /\ TeacherSlots(out) \in SUBSET (1..m)
  BY DEF TeacherSlots, Accepted, Emitted, Slots
<1> DEFINE B == {j \in DOMAIN toks : j <= k /\ toks[j] = "para"}
<1>2. TeacherBreaks(out) \in SUBSET B /\ B \in SUBSET (1..m)
  BY DEF TeacherBreaks, TeacherSlots, Accepted, Emitted
<1>3. TeacherBreaks(out) \in SUBSET (1..m)
  BY <1>2
<1>4. Cardinality(TeacherBreaks(out)) <= Cardinality(B)
  BY <1>2, SlotSubset
<1> QED
  BY <1>1, <1>3, <1>4, SlotSets DEF Breaks

(* A trigger row labels one token teacher: the trigger token.              *)
LEMMA TriggerGrowth ==
    ASSUME NEW e \in Slots, NEW kind, NEW out,
           \A i \in Slots : out[i].teacher => i = e /\ out[i].kind = kind
    PROVE  /\ Cardinality(TeacherSlots(out)) \in Nat
           /\ Cardinality(TeacherSlots(out)) <= 1
           /\ Cardinality(TeacherBreaks(out)) \in Nat
           /\ Cardinality(TeacherBreaks(out)) <= 1
           /\ kind # "para" => Cardinality(TeacherBreaks(out)) = 0
<1>1. TeacherSlots(out) \in SUBSET {e} /\ TeacherBreaks(out) \in SUBSET {e}
  BY DEF TeacherSlots, TeacherBreaks, Accepted, Emitted
<1>2. kind # "para" => TeacherBreaks(out) = {}
  BY DEF TeacherBreaks, TeacherSlots, Accepted, Emitted
<1>3. IsFiniteSet({e}) /\ Cardinality({e}) = 1
  BY FS_Singleton
<1>4. /\ IsFiniteSet(TeacherSlots(out)) /\ Cardinality(TeacherSlots(out)) <= 1
      /\ IsFiniteSet(TeacherBreaks(out)) /\ Cardinality(TeacherBreaks(out)) <= 1
  BY <1>1, <1>3, FS_Subset
<1> QED
  BY <1>2, <1>4, FS_CardinalityType, FS_EmptySet

(* The rows of the student's leg: the first trigger is a draft position,   *)
(* only its token is labelled teacher, and the stop token fits behind it.  *)
LEMMA TriggerRowShape ==
    ASSUME NEW d \in DraftRows, Triggers(d) # {}, NEW out, NEW e,
           e = FirstOf(Triggers(d)),
           \/ out = TriggerRow(d, e)
           \/ out = [TriggerRow(d, e) EXCEPT ![StopSlot(e)] = Stop]
    PROVE  /\ e \in Slots
           /\ d[e].teacher \in TriggerKinds
           /\ e + 1 \in Slots
           /\ \A i \in Slots : out[i].teacher =>
                   i = e /\ out[i].kind = d[e].teacher
<1>1. PICK n \in 1..MaxSpecLen : d \in [1..n -> Draft]
  BY DEF DraftRows
<1>2. Triggers(d) \in SUBSET (1..n)
  BY <1>1 DEF Triggers, ValidDraft
<1>3. e \in Triggers(d)
  BY <1>2, FirstOfLeast
<1>4. e \in 1..MaxSpecLen /\ e \in Slots /\ e + 1 \in Slots
  BY <1>1, <1>2, <1>3, SpecLenAssumption DEF Slots
<1>5. d[e].teacher \in TriggerKinds
  BY <1>1, <1>2, <1>3 DEF Triggers, Draft
<1> DEFINE row == TriggerRow(d, e)
<1>6. /\ DOMAIN row = Slots
      /\ row[e] = Slot(d[e].teacher, TRUE)
      /\ \A i \in Slots \ {e} : row[i].teacher = FALSE
  BY <1>4 DEF TriggerRow, StudentPrefix, Slot, Empty
<1>7. \A i \in Slots : row[i].teacher => i = e /\ row[i].kind = d[e].teacher
  BY <1>6 DEF Slot
<1> HIDE DEF row
<1> DEFINE stopped == [row EXCEPT ![StopSlot(e)] = Stop]
<1>8. StopSlot(e) = e + 1
  BY <1>4 DEF StopSlot
<1>9. /\ stopped[e + 1] = Stop
      /\ \A i \in Slots \ {e + 1} : stopped[i] = row[i]
  BY <1>4, <1>6, <1>8
<1>10. \A i \in Slots : stopped[i].teacher => i = e /\ stopped[i].kind = d[e].teacher
  BY <1>7, <1>9 DEF Stop, Slot
<1> QED
  BY <1>4, <1>5, <1>7, <1>10 DEF row

(* The rows of the teacher's leg.                                          *)
LEMMA TeacherRowShape ==
    ASSUME NEW m \in 1..MaxSpecLen, NEW toks, DOMAIN toks = 1..m, NEW k \in Nat,
           NEW out,
           \/ out = TeacherRow(toks, k)
           \/ k \in 1..m /\ out = [TeacherRow(toks, k) EXCEPT ![StopSlot(k)] = Stop]
    PROVE  /\ \A i \in Slots : out[i].teacher =>
                   i <= k /\ i \in DOMAIN toks /\ out[i].kind = toks[i]
           /\ k \in 1..m /\ out = [TeacherRow(toks, k) EXCEPT ![StopSlot(k)] = Stop] =>
                   \E s \in Slots : out[s].kind = "stop"
<1> DEFINE row == TeacherRow(toks, k)
<1>1. /\ DOMAIN row = Slots
      /\ \A i \in Slots : row[i].teacher =>
             i <= k /\ i \in DOMAIN toks /\ row[i].kind = toks[i]
  BY DEF TeacherRow, Slot, Empty
<1> HIDE DEF row
<1> DEFINE stopped == [row EXCEPT ![StopSlot(k)] = Stop]
<1>2. ASSUME k \in 1..m
      PROVE  /\ \A i \in Slots : stopped[i].teacher =>
                     i <= k /\ i \in DOMAIN toks /\ stopped[i].kind = toks[i]
             /\ \E s \in Slots : stopped[s].kind = "stop"
  <2>1. k + 1 \in Slots /\ StopSlot(k) = k + 1
    BY <1>2, SpecLenAssumption DEF Slots, StopSlot
  <2>2. stopped[k + 1] = Stop /\ \A i \in Slots \ {k + 1} : stopped[i] = row[i]
    BY <1>1, <2>1
  <2> QED
    BY <1>1, <2>1, <2>2 DEF Stop, Slot
<1> QED
  BY <1>1, <1>2 DEF row

-----------------------------------------------------------------------------
(* What is left of a takeover's budget is what its leg has not used yet.   *)
LegBudget ==
    tokensRemaining > 0 =>
        /\ mode = "relay"
        /\ ParagraphsPerTakeover > 0
        /\ legTokens + tokensRemaining <= MaxTakeoverTokens + 1
        /\ legParagraphs + paragraphsRemaining <= ParagraphsPerTakeover

LegInv == TypeOK /\ LegBudget /\ LegBounded

(* No leg has begun in an initial state.                                   *)
LEMMA LegInvInit == Init => LegInv
BY CapAssumption, ParagraphsAssumption
DEF Init, LegInv, TypeOK, LegBudget, LegBounded, NoEvent

(* Steps of the student's leg that leave the budgets alone.                *)
LEMMA LegInvFirstToken == LegInv /\ FirstToken => LegInv'
<1> SUFFICES ASSUME LegInv, FirstToken PROVE LegInv'
  OBVIOUS
<1>1. PICK k \in Kinds : Commit([i \in Slots |-> IF i = 1 THEN Slot(k, FALSE) ELSE Empty])
  BY DEF FirstToken
<1>2. length' \in Nat /\ finish' \in {"running", "eos", "stop", "length"}
  BY <1>1, CommitProperties DEF Commit, LegInv, TypeOK
<1> QED
  BY <1>2 DEF FirstToken, LegInv, TypeOK, LegBudget, LegBounded, sampler, history

(* A row of student drafts leaves the budgets alone.                       *)
LEMMA LegInvStudentRow == LegInv /\ StudentRow => LegInv'
<1> SUFFICES ASSUME LegInv, StudentRow PROVE LegInv'
  OBVIOUS
<1>1. PICK d \in DraftRows : Commit(StudentPrefix(d, MaxSpecLen + 3))
  BY DEF StudentRow
<1>2. length' \in Nat /\ finish' \in {"running", "eos", "stop", "length"}
  BY <1>1, CommitProperties DEF Commit, LegInv, TypeOK
<1> QED
  BY <1>2 DEF StudentRow, LegInv, TypeOK, LegBudget, LegBounded, sampler, history

(* A Trigger-Stop row touches the response and the stop event only.        *)
LEMMA LegInvTriggerStop == LegInv /\ TriggerStop => LegInv'
<1> SUFFICES ASSUME LegInv, TriggerStop PROVE LegInv'
  OBVIOUS
<1>1. PICK out : Commit(out) /\ RecordStop(out)
  BY DEF TriggerStop
<1>2. length' \in Nat /\ finish' \in {"running", "eos", "stop", "length"}
  BY <1>1, CommitProperties DEF Commit, LegInv, TypeOK
<1>3. stopEvent' \in Nat \cup {NoEvent}
  BY <1>1, StopEventType DEF LegInv, TypeOK
<1> QED
  BY <1>2, <1>3 DEF TriggerStop, LegInv, TypeOK, LegBudget, LegBounded, sampler, history

(* A trigger opens a leg with one token and a fresh budget.                *)
LEMMA LegInvTriggerTakeover == LegInv /\ TriggerTakeover => LegInv'
<1> SUFFICES ASSUME LegInv, TriggerTakeover PROVE LegInv'
  OBVIOUS
<1>1. PICK d \in DraftRows :
         /\ Triggers(d) # {}
         /\ LET e == FirstOf(Triggers(d))
            IN  /\ Commit(TriggerRow(d, e))
                /\ BeginLeg(TriggerRow(d, e))
                /\ BeginTakeover(d[e].teacher = "para")
  BY DEF TriggerTakeover
<1> DEFINE e == FirstOf(Triggers(d))
           out == TriggerRow(d, e)
<1>2. length' \in Nat /\ finish' \in {"running", "eos", "stop", "length"}
  BY <1>1, CommitProperties DEF Commit, LegInv, TypeOK
<1>3. /\ Cardinality(TeacherSlots(out)) \in Nat
      /\ Cardinality(TeacherSlots(out)) <= 1
      /\ Cardinality(TeacherBreaks(out)) \in Nat
      /\ Cardinality(TeacherBreaks(out)) <= 1
      /\ d[e].teacher # "para" => Cardinality(TeacherBreaks(out)) = 0
  <2>1. /\ e \in Slots
        /\ \A i \in Slots : out[i].teacher => i = e /\ out[i].kind = d[e].teacher
    BY <1>1, TriggerRowShape
  <2> HIDE DEF e, out
  <2> QED
    BY <2>1, TriggerGrowth
<1>4. /\ legs' = legs + 1
      /\ legTokens' = Cardinality(TeacherSlots(out))
      /\ legParagraphs' = Cardinality(TeacherBreaks(out))
  BY <1>1 DEF BeginLeg
<1>5. BeginTakeover(d[e].teacher = "para")
  BY <1>1
<1> HIDE DEF e, out
<1>6. /\ tokensRemaining' \in 0..MaxTakeoverTokens
      /\ paragraphsRemaining' \in 0..ParagraphsPerTakeover
      /\ tokensRemaining' > 0 <=> paragraphsRemaining' > 0
      /\ tokensRemaining' > 0 =>
             legParagraphs' + paragraphsRemaining' <= ParagraphsPerTakeover
  BY <1>3, <1>4, <1>5, CapAssumption, ParagraphsAssumption DEF BeginTakeover
<1> QED
  BY <1>2, <1>3, <1>4, <1>6, CapAssumption, ParagraphsAssumption
  DEF TriggerTakeover, LegInv, TypeOK, LegBudget, LegBounded

(* A trigger-only leg has no budget, and is over at once.                  *)
LEMMA LegInvTriggerOnly == LegInv /\ TriggerOnly => LegInv'
<1> SUFFICES ASSUME LegInv, TriggerOnly PROVE LegInv'
  OBVIOUS
<1>1. PICK d \in DraftRows :
         /\ Triggers(d) # {}
         /\ LET e == FirstOf(Triggers(d))
                row == TriggerRow(d, e)
                out == IF LastTakeover /\ HasStopId
                       THEN [row EXCEPT ![StopSlot(e)] = Stop] ELSE row
            IN  /\ Commit(out)
                /\ RecordStop(out)
                /\ BeginLeg(out)
                /\ BeginTakeover(d[e].teacher = "para")
  BY DEF TriggerOnly
<1> DEFINE e == FirstOf(Triggers(d))
           row == TriggerRow(d, e)
           out == IF LastTakeover /\ HasStopId
                  THEN [row EXCEPT ![StopSlot(e)] = Stop] ELSE row
<1>2. Commit(out) /\ RecordStop(out) /\ BeginLeg(out)
  BY <1>1
<1>3. BeginTakeover(d[e].teacher = "para")
  BY <1>1
<1>4. /\ e \in Slots
      /\ \A i \in Slots : out[i].teacher => i = e /\ out[i].kind = d[e].teacher
  BY <1>1, TriggerRowShape
<1> HIDE DEF e, out
<1>5. /\ Cardinality(TeacherSlots(out)) \in Nat
      /\ Cardinality(TeacherBreaks(out)) \in Nat
  BY <1>4, TriggerGrowth
<1>6. length' \in Nat /\ finish' \in {"running", "eos", "stop", "length"}
  BY <1>2, CommitProperties DEF Commit, LegInv, TypeOK
<1>7. stopEvent' \in Nat \cup {NoEvent}
  BY <1>2, StopEventType DEF LegInv, TypeOK
<1>8. tokensRemaining' = 0 /\ paragraphsRemaining' = 0
  BY <1>3 DEF BeginTakeover, TriggerOnly
<1>9. completedTakeovers' \in Nat
  BY DEF TriggerOnly, CountTakeover, LegInv, TypeOK
<1> QED
  BY <1>2, <1>5, <1>6, <1>7, <1>8, <1>9, CapAssumption, ParagraphsAssumption
  DEF TriggerOnly, BeginLeg, LegInv, TypeOK, LegBudget, LegBounded

(* A takeover row that stays inside the budget.                            *)
LEMMA LegInvTakeoverRow == LegInv /\ TakeoverRow => LegInv'
<1> SUFFICES ASSUME LegInv, TakeoverRow PROVE LegInv'
  OBVIOUS
<1>0. PICK n \in 1..MaxSpecLen : \E std \in StandardRows(n) :
         LET toks == DropBonus(std, n)
             out == TeacherRow(toks, n)
         IN  /\ Exhausted(toks) = {}
             /\ Commit(out)
             /\ ExtendLeg(out)
             /\ tokensRemaining' = tokensRemaining - Cardinality(DOMAIN toks)
             /\ paragraphsRemaining' = paragraphsRemaining - Breaks(toks, n)
  BY DEF TakeoverRow
<1>1. PICK std \in StandardRows(n) :
         LET toks == DropBonus(std, n)
             out == TeacherRow(toks, n)
         IN  /\ Exhausted(toks) = {}
             /\ Commit(out)
             /\ ExtendLeg(out)
             /\ tokensRemaining' = tokensRemaining - Cardinality(DOMAIN toks)
             /\ paragraphsRemaining' = paragraphsRemaining - Breaks(toks, n)
  BY <1>0
<1> DEFINE toks == DropBonus(std, n)
           out == TeacherRow(toks, n)
<1>2. PICK m \in 1..n : DOMAIN toks = 1..m
  BY BonusDropped
<1>3. n \in Nat /\ m \in Nat /\ m \in 1..MaxSpecLen /\ Cardinality(1..m) = m
  BY <1>1, <1>2, FS_Interval, SpecLenAssumption
<1>4. /\ Exhausted(toks) = {}
      /\ Commit(out)
      /\ ExtendLeg(out)
      /\ tokensRemaining' = tokensRemaining - m
      /\ paragraphsRemaining' = paragraphsRemaining - Breaks(toks, n)
  BY <1>1, <1>2, <1>3
<1>5. out = TeacherRow(toks, n)
  OBVIOUS
<1> HIDE DEF toks, out
<1>6. m \notin Exhausted(toks) /\ m \in DOMAIN toks
  BY <1>2, <1>4
<1>7. m < tokensRemaining /\ Breaks(toks, m) < paragraphsRemaining
  <2>1. Breaks(toks, m) \in Nat
    BY <1>2, <1>3, BreaksGrowth
  <2> QED
    BY <1>3, <1>6, <2>1 DEF Exhausted, LegInv, TypeOK
<1>8. Breaks(toks, n) = Breaks(toks, m) /\ Breaks(toks, n) \in Nat
  BY <1>2, <1>3, BreaksGrowth
<1>9. /\ Cardinality(TeacherSlots(out)) \in Nat
      /\ Cardinality(TeacherSlots(out)) <= m
      /\ Cardinality(TeacherBreaks(out)) \in Nat
      /\ Cardinality(TeacherBreaks(out)) <= Breaks(toks, n)
  <2>1. \A i \in Slots : out[i].teacher =>
            i <= n /\ i \in DOMAIN toks /\ out[i].kind = toks[i]
    BY <1>2, <1>3, <1>5, TeacherRowShape
  <2> QED
    BY <1>2, <1>3, <2>1, LegGrowth
<1>10. length' \in Nat /\ finish' \in {"running", "eos", "stop", "length"}
  BY <1>4, CommitProperties DEF Commit, LegInv, TypeOK
<1>11. /\ legs' = legs
       /\ legTokens' = legTokens + Cardinality(TeacherSlots(out))
       /\ legParagraphs' = legParagraphs + Cardinality(TeacherBreaks(out))
  BY <1>4 DEF ExtendLeg
<1>12. InTakeover /\ UNCHANGED <<mode, completedTakeovers, stopEvent>>
  BY DEF TakeoverRow
<1> DEFINE g == Cardinality(TeacherSlots(out))
           b == Cardinality(TeacherBreaks(out))
           c == Breaks(toks, n)
<1>13. /\ g \in Nat /\ b \in Nat /\ c \in Nat
       /\ g <= m /\ m < tokensRemaining
       /\ b <= c /\ c < paragraphsRemaining
       /\ tokensRemaining' = tokensRemaining - m
       /\ paragraphsRemaining' = paragraphsRemaining - c
       /\ legTokens' = legTokens + g
       /\ legParagraphs' = legParagraphs + b
  BY <1>4, <1>7, <1>8, <1>9, <1>11
<1> HIDE DEF g, b, c
<1>14. /\ tokensRemaining' \in 1..MaxTakeoverTokens
       /\ paragraphsRemaining' \in 1..ParagraphsPerTakeover
       /\ legTokens' \in Nat /\ legParagraphs' \in Nat
       /\ LegBudget'
       /\ LegBounded'
  BY <1>3, <1>12, <1>13, CapAssumption, ParagraphsAssumption
  DEF InTakeover, LegInv, TypeOK, LegBudget, LegBounded
<1> QED
  BY <1>10, <1>11, <1>12, <1>14 DEF LegInv, TypeOK

(* The row that ends a takeover: what it adds is within the budget.        *)
LEMMA EndRow ==
    ASSUME LegInv, EndTakeover
    PROVE  \E out : \E g, b \in Nat :
               /\ Commit(out) /\ RecordStop(out)
               /\ legs' = legs
               /\ legTokens' = legTokens + g
               /\ legParagraphs' = legParagraphs + b
               /\ g <= tokensRemaining
               /\ b <= paragraphsRemaining
               /\ LastTakeover /\ HasStopId => finish' # "running"
<1>0. PICK n \in 1..MaxSpecLen : \E std \in StandardRows(n) :
         LET toks == DropBonus(std, n)
             k == FirstOf(Exhausted(toks))
             row == TeacherRow(toks, k)
             out == IF LastTakeover /\ HasStopId
                    THEN [row EXCEPT ![StopSlot(k)] = Stop] ELSE row
         IN  /\ Exhausted(toks) # {}
             /\ Commit(out) /\ RecordStop(out) /\ ExtendLeg(out)
  BY DEF EndTakeover
<1>1. PICK std \in StandardRows(n) :
         LET toks == DropBonus(std, n)
             k == FirstOf(Exhausted(toks))
             row == TeacherRow(toks, k)
             out == IF LastTakeover /\ HasStopId
                    THEN [row EXCEPT ![StopSlot(k)] = Stop] ELSE row
         IN  /\ Exhausted(toks) # {}
             /\ Commit(out) /\ RecordStop(out) /\ ExtendLeg(out)
  BY <1>0
<1> DEFINE toks == DropBonus(std, n)
           k == FirstOf(Exhausted(toks))
           stopped == [TeacherRow(toks, k) EXCEPT ![StopSlot(k)] = Stop]
           out == IF LastTakeover /\ HasStopId THEN stopped ELSE TeacherRow(toks, k)
<1>2. /\ Exhausted(toks) # {}
      /\ Commit(out) /\ RecordStop(out) /\ ExtendLeg(out)
  BY <1>1
<1>3. PICK m \in 1..n : DOMAIN toks = 1..m
  BY BonusDropped
<1>4. m \in Nat /\ m \in 1..MaxSpecLen
  BY <1>3, SpecLenAssumption
<1> HIDE DEF toks
<1>5. /\ tokensRemaining \in Nat /\ tokensRemaining > 0
      /\ paragraphsRemaining \in Nat /\ paragraphsRemaining > 0
  BY DEF EndTakeover, InTakeover, LegInv, TypeOK
<1>6. k \in 1..m /\ k <= tokensRemaining /\ Breaks(toks, k) <= paragraphsRemaining
  BY <1>2, <1>3, <1>4, <1>5, ExhaustedWithinBudget
<1>7. k \in Nat /\ Breaks(toks, k) \in Nat
  <2>1. k \in Nat
    BY <1>4, <1>6
  <2> HIDE DEF k
  <2> QED
    BY <2>1, <1>3, <1>4, BreaksGrowth
<1>8. \/ out = TeacherRow(toks, k)
      \/ k \in 1..m /\ out = [TeacherRow(toks, k) EXCEPT ![StopSlot(k)] = Stop]
  BY <1>6
<1>9. LastTakeover /\ HasStopId =>
          k \in 1..m /\ out = [TeacherRow(toks, k) EXCEPT ![StopSlot(k)] = Stop]
  BY <1>6
<1> HIDE DEF k, out
<1>10. /\ \A i \in Slots : out[i].teacher =>
               i <= k /\ i \in DOMAIN toks /\ out[i].kind = toks[i]
       /\ LastTakeover /\ HasStopId => \E s \in Slots : out[s].kind = "stop"
  BY <1>3, <1>4, <1>7, <1>8, <1>9, TeacherRowShape
<1>11. /\ Cardinality(TeacherSlots(out)) \in Nat
       /\ Cardinality(TeacherSlots(out)) <= k
       /\ Cardinality(TeacherBreaks(out)) \in Nat
       /\ Cardinality(TeacherBreaks(out)) <= Breaks(toks, k)
  BY <1>3, <1>4, <1>7, <1>10, LegGrowth, SMTT(30)
<1>12. LastTakeover /\ HasStopId => finish' # "running"
  BY <1>2, <1>10, CommitProperties DEF Commit
<1> DEFINE g == Cardinality(TeacherSlots(out))
           b == Cardinality(TeacherBreaks(out))
<1>13. legs' = legs /\ legTokens' = legTokens + g /\ legParagraphs' = legParagraphs + b
  BY <1>2 DEF ExtendLeg
<1>14. g \in Nat /\ b \in Nat /\ g <= tokensRemaining /\ b <= paragraphsRemaining
  BY <1>5, <1>6, <1>7, <1>11
<1> HIDE DEF g, b
<1> QED
  BY <1>2, <1>12, <1>13, <1>14

(* The last row of a takeover.                                             *)
LEMMA LegInvEndTakeover == LegInv /\ EndTakeover => LegInv'
<1> SUFFICES ASSUME LegInv, EndTakeover PROVE LegInv'
  OBVIOUS
<1>0. PICK out : \E g, b \in Nat :
         /\ Commit(out) /\ RecordStop(out)
         /\ legs' = legs
         /\ legTokens' = legTokens + g
         /\ legParagraphs' = legParagraphs + b
         /\ g <= tokensRemaining
         /\ b <= paragraphsRemaining
  BY EndRow
<1>1. PICK g, b \in Nat :
         /\ Commit(out) /\ RecordStop(out)
         /\ legs' = legs
         /\ legTokens' = legTokens + g
         /\ legParagraphs' = legParagraphs + b
         /\ g <= tokensRemaining
         /\ b <= paragraphsRemaining
  BY <1>0
<1>2. length' \in Nat /\ finish' \in {"running", "eos", "stop", "length"}
  BY <1>1, CommitProperties DEF Commit, LegInv, TypeOK
<1>3. stopEvent' \in Nat \cup {NoEvent}
  BY <1>1, StopEventType DEF LegInv, TypeOK
<1>4. completedTakeovers' \in Nat
  BY DEF EndTakeover, CountTakeover, LegInv, TypeOK
<1>5. /\ tokensRemaining > 0 /\ tokensRemaining' = 0 /\ paragraphsRemaining' = 0
      /\ mode' = mode
  BY DEF EndTakeover, InTakeover, ClearBudget
<1> QED
  BY <1>1, <1>2, <1>3, <1>4, <1>5, CapAssumption, ParagraphsAssumption
  DEF LegInv, TypeOK, LegBudget, LegBounded

(* Every step preserves the invariant of the legs.                         *)
LEMMA LegInvNext == LegInv /\ [Next]_vars => LegInv'
<1>1. LegInv /\ UNCHANGED vars => LegInv'
  BY DEF vars, LegInv, TypeOK, LegBudget, LegBounded
<1> QED
  BY <1>1, LegInvFirstToken, LegInvStudentRow, LegInvTriggerTakeover, LegInvTriggerOnly,
     LegInvTriggerStop, LegInvTakeoverRow, LegInvEndTakeover
  DEF Next

(* The two budgets of _relay_opd_rejection_sample stay in range, and they  *)
(* are set up and cleared together.                                        *)
THEOREM TypeCorrect == Spec => []TypeOK
<1>1. LegInv => TypeOK
  BY DEF LegInv
<1> QED
  BY <1>1, LegInvInit, LegInvNext, PTL DEF Spec

(* No teacher leg outgrows the token cap or the paragraph budget, however  *)
(* the draft rows cut it.                                                  *)
THEOREM LegsBounded == Spec => []LegBounded
<1>1. LegInv => LegBounded
  BY DEF LegInv
<1> QED
  BY <1>1, LegInvInit, LegInvNext, PTL DEF Spec

-----------------------------------------------------------------------------
(* The takeovers the sampler has counted, and the open one, are all the    *)
(* legs of the response; the count is only forgotten when the request ends.*)
CountInv ==
    mode = "relay" =>
        /\ legs <= MaxTakeovers
        /\ finish = "running" =>
               /\ completedTakeovers < MaxTakeovers
               /\ legs = completedTakeovers + (IF tokensRemaining > 0 THEN 1 ELSE 0)

(* Steps without a trigger in the student's leg begin no teacher leg.      *)
LEMMA CountInvStudent ==
    ASSUME LegInv, CountInv, FirstToken \/ StudentRow \/ TriggerStop
    PROVE  CountInv'
BY DEF FirstToken, StudentRow, TriggerStop, StudentLeg, CountInv, sampler, history

(* A trigger opens a leg only when one is left, and the leg is in the      *)
(* budget: under LegsCounted its trigger token does not end it uncounted.  *)
LEMMA CountInvTriggerTakeover ==
    ASSUME LegsCounted, LegInv, CountInv, TriggerTakeover
    PROVE  CountInv'
<1>1. PICK d \in DraftRows :
         /\ Triggers(d) # {}
         /\ LET e == FirstOf(Triggers(d))
            IN  /\ Commit(TriggerRow(d, e))
                /\ BeginLeg(TriggerRow(d, e))
                /\ BeginTakeover(d[e].teacher = "para")
  BY DEF TriggerTakeover
<1> DEFINE e == FirstOf(Triggers(d))
<1>2. d[e].teacher \in TriggerKinds
  BY <1>1, TriggerRowShape
<1>3. legs' = legs + 1 /\ BeginTakeover(d[e].teacher = "para")
  BY <1>1 DEF BeginLeg
<1> HIDE DEF e
<1>4. tokensRemaining' > 0
  BY <1>2, <1>3, CapAssumption, ParagraphsAssumption
  DEF LegsCounted, BeginTakeover, TriggerTakeover
<1>5. /\ finish = "running" /\ tokensRemaining = 0 /\ mode = "relay"
      /\ completedTakeovers' = completedTakeovers
  BY DEF TriggerTakeover, StudentLeg, InTakeover, LegInv, TypeOK
<1> QED
  BY <1>3, <1>4, <1>5, TakeoversAssumption DEF CountInv, LegInv, TypeOK

(* A counted trigger is a leg, and the last one ends the request.          *)
LEMMA CountInvTriggerOnly ==
    ASSUME LegsCounted, LegInv, CountInv, TriggerOnly
    PROVE  CountInv'
<1>1. PICK d \in DraftRows :
         /\ Triggers(d) # {}
         /\ LET e == FirstOf(Triggers(d))
                row == TriggerRow(d, e)
                out == IF LastTakeover /\ HasStopId
                       THEN [row EXCEPT ![StopSlot(e)] = Stop] ELSE row
            IN  /\ Commit(out)
                /\ BeginLeg(out)
                /\ BeginTakeover(d[e].teacher = "para")
  BY DEF TriggerOnly
<1> DEFINE e == FirstOf(Triggers(d))
           row == TriggerRow(d, e)
           out == IF LastTakeover /\ HasStopId
                  THEN [row EXCEPT ![StopSlot(e)] = Stop] ELSE row
<1>2. Commit(out) /\ legs' = legs + 1 /\ tokensRemaining' = 0
  BY <1>1 DEF BeginLeg, BeginTakeover, TriggerOnly
<1>3. LastTakeover => \E s \in Slots : out[s].kind = "stop"
  <2>1. SUFFICES ASSUME LastTakeover PROVE \E s \in Slots : out[s].kind = "stop"
    OBVIOUS
  <2>2. out = [TriggerRow(d, e) EXCEPT ![StopSlot(e)] = Stop]
    BY <2>1 DEF LegsCounted
  <2>3. e + 1 \in Slots
    BY <1>1, TriggerRowShape
  <2> HIDE DEF e, out
  <2>4. StopSlot(e) = e + 1 /\ DOMAIN TriggerRow(d, e) = Slots
    BY <2>3 DEF StopSlot, TriggerRow, StudentPrefix
  <2>5. out[e + 1] = Stop
    BY <2>2, <2>3, <2>4
  <2> QED
    BY <2>3, <2>5 DEF Stop, Slot
<1> HIDE DEF out
<1>4. LastTakeover => finish' # "running"
  BY <1>2, <1>3, CommitProperties DEF Commit
<1>5. /\ finish = "running" /\ tokensRemaining = 0 /\ mode = "relay"
      /\ CountTakeover
  BY DEF TriggerOnly, StudentLeg, InTakeover, LegInv, TypeOK
<1> QED
  BY <1>2, <1>4, <1>5, TakeoversAssumption
  DEF CountTakeover, LastTakeover, CountInv, LegInv, TypeOK

(* A row inside a takeover begins and ends no leg.                         *)
LEMMA CountInvTakeoverRow ==
    ASSUME LegInv, LegInv', CountInv, TakeoverRow
    PROVE  CountInv'
<1>1. /\ legs' = legs /\ completedTakeovers' = completedTakeovers
      /\ tokensRemaining > 0 /\ finish = "running" /\ mode = "relay"
  BY DEF TakeoverRow, ExtendLeg, InTakeover
<1>2. tokensRemaining' > 0
  <2>1. PICK n \in 1..MaxSpecLen : \E std \in StandardRows(n) :
           LET toks == DropBonus(std, n)
           IN  /\ Exhausted(toks) = {}
               /\ tokensRemaining' = tokensRemaining - Cardinality(DOMAIN toks)
    BY DEF TakeoverRow
  <2>2. PICK std \in StandardRows(n) :
           LET toks == DropBonus(std, n)
           IN  /\ Exhausted(toks) = {}
               /\ tokensRemaining' = tokensRemaining - Cardinality(DOMAIN toks)
    BY <2>1
  <2> DEFINE toks == DropBonus(std, n)
  <2>3. PICK m \in 1..n : DOMAIN toks = 1..m
    BY BonusDropped
  <2>4. n \in Nat /\ m \in Nat /\ Cardinality(1..m) = m
    BY <2>1, <2>3, FS_Interval, SpecLenAssumption
  <2>5. Exhausted(toks) = {} /\ tokensRemaining' = tokensRemaining - m
    BY <2>2, <2>3, <2>4
  <2> HIDE DEF toks
  <2>6. m \notin Exhausted(toks) /\ m \in DOMAIN toks
    BY <2>3, <2>4, <2>5
  <2>7. m < tokensRemaining
    BY <2>4, <2>6 DEF Exhausted, LegInv, TypeOK
  <2> QED
    BY <2>4, <2>5, <2>7 DEF LegInv, TypeOK
<1> QED
  BY <1>1, <1>2 DEF CountInv

(* An ended leg is counted, or the request ends with it.                   *)
LEMMA CountInvEndTakeover ==
    ASSUME LegsCounted, LegInv, CountInv, EndTakeover
    PROVE  CountInv'
<1>1. legs' = legs /\ (LastTakeover /\ HasStopId => finish' # "running")
  BY EndRow
<1>2. /\ finish = "running" /\ tokensRemaining > 0 /\ tokensRemaining' = 0
      /\ mode = "relay" /\ CountTakeover
  BY DEF EndTakeover, InTakeover, ClearBudget
<1> QED
  BY <1>1, <1>2, TakeoversAssumption
  DEF LegsCounted, CountTakeover, LastTakeover, CountInv, LegInv, TypeOK

(* Every step keeps the count right.                                       *)
LEMMA CountInvNext ==
    ASSUME LegsCounted, LegInv, LegInv', CountInv, [Next]_vars
    PROVE  CountInv'
<1>1. CountInv /\ UNCHANGED vars => CountInv'
  BY DEF vars, CountInv
<1> QED
  BY <1>1, CountInvStudent, CountInvTriggerTakeover, CountInvTriggerOnly,
     CountInvTakeoverRow, CountInvEndTakeover
  DEF Next

(* While every leg is counted, no response has more than MaxTakeovers      *)
(* teacher legs, and it returns to the student only while one is left.     *)
THEOREM TakeoversBounded ==
    ASSUME LegsCounted
    PROVE  Spec => [](TakeoverBudget /\ HandBackWithinBudget)
<1>1. Init => CountInv
  BY TakeoversAssumption DEF Init, CountInv
<1>2. LegInv /\ LegInv' /\ CountInv /\ [Next]_vars => CountInv'
  BY CountInvNext
<1>3. LegInv /\ CountInv => TakeoverBudget /\ HandBackWithinBudget
  BY DEF CountInv, LegInv, TypeOK, TakeoverBudget, HandBackWithinBudget, InTakeover
<1> QED
  BY <1>1, <1>2, <1>3, LegInvInit, LegInvNext, PTL DEF Spec

(* Whatever the constants are: HandBackWithinBudget speaks of the          *)
(* configurations in which every leg is counted.                           *)
THEOREM HandBack == Spec => []HandBackWithinBudget
<1>1. CASE LegsCounted
  <2>1. TakeoverBudget /\ HandBackWithinBudget => HandBackWithinBudget
    OBVIOUS
  <2> QED
    BY <1>1, <2>1, TakeoversBounded, PTL
<1>2. CASE ~LegsCounted
  <2>1. HandBackWithinBudget
    BY <1>2 DEF HandBackWithinBudget
  <2> QED
    BY <2>1, PTL
<1> QED
  BY <1>1, <1>2

-----------------------------------------------------------------------------
(* vLLM accepts a row up to and including its first end.                   *)
LEMMA FirstEnd ==
    ASSUME NEW out, Ends(out) # {}
    PROVE  \E f \in Ends(out) :
               /\ f = FirstOf(Ends(out))
               /\ \A j \in Ends(out) : f <= j
               /\ Accepted(out) = {i \in Emitted(out) : i <= f}
<1>1. Ends(out) \in SUBSET Nat
  BY SpecLenAssumption DEF Ends, Emitted, Slots
<1> DEFINE f == FirstOf(Ends(out))
<1>2. f \in Ends(out) /\ \A j \in Ends(out) : f <= j
  BY <1>1, FirstOfLeast
<1>3. \A i \in Emitted(out) : i \in Nat
  BY SpecLenAssumption DEF Emitted, Slots
<1> HIDE DEF f
<1>4. Accepted(out) = {i \in Emitted(out) : i <= f}
  BY <1>1, <1>2, <1>3 DEF Accepted
<1> QED
  BY <1>2, <1>4 DEF f

(* A request that goes on has accepted the whole row.                      *)
LEMMA AllAccepted ==
    ASSUME NEW out, Finish(out) = "running"
    PROVE  Accepted(out) = Emitted(out)
<1>1. Ends(out) = {}
  BY DEF Finish
<1> QED
  BY <1>1 DEF Accepted

(* A request that finishes with "stop" has accepted the row up to its stop *)
(* token.                                                                  *)
LEMMA StopAccepted ==
    ASSUME NEW out, Finish(out) = "stop"
    PROVE  \E f \in Slots : /\ out[f].kind = "stop"
                            /\ Accepted(out) = {i \in Emitted(out) : i <= f}
<1>1. Ends(out) # {}
  BY DEF Finish
<1>2. PICK f \in Ends(out) :
         /\ f = FirstOf(Ends(out))
         /\ Accepted(out) = {i \in Emitted(out) : i <= f}
  BY <1>1, FirstEnd
<1>3. out[f].kind = "stop"
  BY <1>1, <1>2 DEF Finish
<1> QED
  BY <1>2, <1>3 DEF Ends, Emitted

(* The slots 1 to s of the row are filled, and its only stop token is s.   *)
StopAt(out, s) ==
    \A i \in Slots : /\ out[i].kind # "none" <=> i <= s
                     /\ out[i].kind = "stop" <=> i = s

NoStop(out) == \A i \in Slots : out[i].kind # "stop"
Filled(out, k) == \A i \in Slots : out[i].kind # "none" <=> i <= k

(* Such a row is accepted up to some slot: to the stop token, or less.     *)
LEMMA StopRowAccepted ==
    ASSUME NEW out, NEW s \in Slots, StopAt(out, s)
    PROVE  \E f \in 1..s : /\ Cardinality(Accepted(out)) = f
                           /\ Finish(out) # "running"
                           /\ Finish(out) = "stop" <=> f = s
<1>1. s \in Ends(out)
  BY DEF Ends, Emitted, StopAt
<1>2. PICK f \in Ends(out) :
         /\ f = FirstOf(Ends(out))
         /\ \A j \in Ends(out) : f <= j
         /\ Accepted(out) = {i \in Emitted(out) : i <= f}
  BY <1>1, FirstEnd
<1>3. f \in Slots /\ f <= s
  BY <1>1, <1>2 DEF Ends, Emitted
<1>4. f \in 1..s /\ f \in Nat
  BY <1>3, SpecLenAssumption DEF Slots
<1>5. Accepted(out) = 1..f
  <2>1. Emitted(out) = 1..s
    BY SpecLenAssumption DEF Emitted, StopAt, Slots
  <2> QED
    BY <1>2, <1>4, <2>1, SpecLenAssumption DEF Slots
<1>6. Cardinality(1..f) = f
  BY <1>4, FS_Interval
<1>7. Finish(out) # "running" /\ (Finish(out) = "stop" <=> out[f].kind = "stop")
  BY <1>1, <1>2 DEF Finish
<1>8. out[f].kind = "stop" <=> f = s
  BY <1>3 DEF StopAt
<1> QED
  BY <1>4, <1>5, <1>6, <1>7, <1>8

(* A row without a stop token does not finish the request with "stop".     *)
LEMMA NoStopFinish ==
    ASSUME NEW out, NoStop(out)
    PROVE  Finish(out) # "stop"
BY StopAccepted DEF NoStop

-----------------------------------------------------------------------------
(* No stop event is sent while the request runs, and the one that is sent  *)
(* is exact.                                                               *)
StopInv == (finish = "running" => stopEvent = NoEvent) /\ StopEventExact

(* A row with a stop token: the event points at it, or behind the end.     *)
LEMMA StopRecorded ==
    ASSUME NEW out, NEW s \in Slots, StopAt(out, s),
           length \in Nat, Commit(out), RecordStop(out)
    PROVE  StopInv'
<1> DEFINE stops == {i \in Slots : out[i].kind = "stop"}
<1>1. stops = {s}
  BY DEF StopAt
<1>2. s \in Nat
  BY SpecLenAssumption DEF Slots
<1>3. FirstOf(stops) = s
  BY <1>1, <1>2, FirstOfLeast
<1>4. stopEvent' = length + s - 1
  BY <1>1, <1>3 DEF RecordStop
<1>5. PICK f \in 1..s : /\ Cardinality(Accepted(out)) = f
                        /\ Finish(out) # "running"
                        /\ Finish(out) = "stop" <=> f = s
  BY StopRowAccepted
<1>6. length' = length + f /\ finish' = Finish(out)
  BY <1>5 DEF Commit
<1> QED
  BY <1>2, <1>4, <1>5, <1>6 DEF StopInv, StopEventExact, NoEvent

(* A row without one leaves the event as it is: none has been sent.        *)
LEMMA NoStopRecorded ==
    ASSUME NEW out, NoStop(out), StopInv, finish = "running", Commit(out),
           RecordStop(out) \/ stopEvent' = stopEvent
    PROVE  StopInv'
<1>1. stopEvent' = stopEvent
  BY DEF RecordStop, NoStop
<1>2. finish' # "stop"
  BY NoStopFinish DEF Commit
<1> QED
  BY <1>1, <1>2 DEF StopInv, StopEventExact

(* The stop token behind a row that fills the slots 1 to k.                *)
LEMMA StopAppended ==
    ASSUME NEW row, DOMAIN row = Slots, NEW k \in Slots, k + 1 \in Slots, NoStop(row)
    PROVE  LET out == [row EXCEPT ![StopSlot(k)] = Stop]
           IN  /\ out[k + 1].kind = "stop"
               /\ \A i \in Slots \ {k + 1} : out[i] = row[i]
               /\ Filled(row, k) => StopAt(out, k + 1)
<1> DEFINE out == [row EXCEPT ![StopSlot(k)] = Stop]
<1>1. StopSlot(k) = k + 1
  BY DEF StopSlot
<1>2. out[k + 1] = Stop /\ \A i \in Slots \ {k + 1} : out[i] = row[i]
  BY <1>1
<1>3. Stop.kind = "stop"
  BY DEF Stop, Slot
<1> HIDE DEF out
<1>4. ASSUME Filled(row, k)
      PROVE  StopAt(out, k + 1)
  <2>1. k \in Nat /\ \A i \in Slots \ {k + 1} : i <= k + 1 <=> i <= k
    BY SpecLenAssumption DEF Slots
  <2>2. ASSUME NEW i \in Slots \ {k + 1}
        PROVE  /\ out[i].kind # "none" <=> i <= k + 1
               /\ out[i].kind # "stop"
    BY <1>2, <1>4, <2>1, <2>2 DEF NoStop, Filled
  <2>3. out[k + 1].kind = "stop" /\ k + 1 <= k + 1
    BY <1>2, <1>3, <2>1
  <2> QED
    BY <2>2, <2>3 DEF StopAt
<1> QED
  BY <1>2, <1>3, <1>4 DEF out

(* The rows of the student's leg hold no stop token, and without drafts    *)
(* outside the vocabulary they have no holes.                              *)
LEMMA StudentRows ==
    ASSUME NEW d \in DraftRows, NEW e \in Nat
    PROVE  LET row == StudentPrefix(d, e)
           IN  /\ DOMAIN row = Slots
               /\ NoStop(row)
               /\ \A i \in Slots : row[i].kind # "none" => i < e
               /\ OutOfVocab = {} =>
                      \A i \in DOMAIN d : i \in ValidDraft(d) /\ (i < e => row[i].kind # "none")
<1>1. PICK n \in 1..MaxSpecLen : d \in [1..n -> Draft]
  BY DEF DraftRows
<1> DEFINE row == StudentPrefix(d, e)
<1>2. \A i \in DOMAIN d : d[i].token \in Kinds \cup OutOfVocab /\ i \in Slots
  BY <1>1, SpecLenAssumption DEF Draft, Slots
<1>3. DOMAIN row = Slots /\ \A i \in Slots : row[i].kind # "none" => i < e
  BY DEF StudentPrefix, Slot, Empty
<1>4. NoStop(row)
  BY <1>2, KindsAssumption DEF NoStop, StudentPrefix, Slot, Empty, Kinds, ValidDraft
<1>5. ASSUME OutOfVocab = {}, NEW i \in DOMAIN d
      PROVE  i \in ValidDraft(d) /\ (i < e => row[i].kind # "none")
  <2>1. d[i].token \in Kinds /\ i \in Slots
    BY <1>2, <1>5
  <2>2. i \in ValidDraft(d)
    BY <2>1 DEF ValidDraft, Kinds
  <2>3. i < e => row[i] = Slot(d[i].token, FALSE)
    BY <2>1, <2>2 DEF StudentPrefix
  <2> QED
    BY <2>1, <2>2, <2>3 DEF Slot, Kinds
<1> QED
  BY <1>3, <1>4, <1>5

(* The trigger of a row: a valid draft that leaves room for the stop token.*)
LEMMA FirstTrigger ==
    ASSUME NEW d \in DraftRows, Triggers(d) # {}, NEW e, e = FirstOf(Triggers(d))
    PROVE  /\ e \in Nat /\ e \in Slots /\ e + 1 \in Slots
           /\ e \in DOMAIN d
           /\ \A i \in Slots : i < e => i \in DOMAIN d
           /\ d[e].teacher \in {"text", "para"}
           /\ d[e].token \in Kinds
<1>1. PICK n \in 1..MaxSpecLen : d \in [1..n -> Draft]
  BY DEF DraftRows
<1>2. Triggers(d) \in SUBSET (1..n)
  BY <1>1 DEF Triggers, ValidDraft
<1>3. e \in Triggers(d)
  BY <1>2, FirstOfLeast
<1>4. e \in 1..n
  BY <1>2, <1>3
<1>5. e \in Nat /\ e \in Slots /\ e + 1 \in Slots /\ e \in DOMAIN d
  BY <1>1, <1>4, SpecLenAssumption DEF Slots
<1>6. d[e].teacher \in {"text", "para"} /\ d[e].token \in Kinds
  BY <1>1, <1>3, <1>4, KindsAssumption DEF Triggers, ValidDraft, Draft
<1>7. \A i \in Slots : i < e => i \in DOMAIN d
  BY <1>1, <1>4, SpecLenAssumption DEF Slots
<1> QED
  BY <1>5, <1>6, <1>7

(* The row of a trigger without its stop token.                            *)
LEMMA TriggerRows ==
    ASSUME NEW d \in DraftRows, Triggers(d) # {}, NEW e, e = FirstOf(Triggers(d)),
           NEW t, t.kind \in Kinds,
           NEW row, row = [StudentPrefix(d, e) EXCEPT ![e] = t]
    PROVE  /\ DOMAIN row = Slots
           /\ NoStop(row)
           /\ row[e] = t
           /\ OutOfVocab = {} => Filled(row, e)
<1> DEFINE prefix == StudentPrefix(d, e)
<1>1. /\ e \in Nat /\ e \in Slots /\ e \in DOMAIN d
      /\ \A i \in Slots : i < e => i \in DOMAIN d
  BY FirstTrigger
<1>2. /\ DOMAIN prefix = Slots
      /\ NoStop(prefix)
      /\ \A i \in Slots : prefix[i].kind # "none" => i < e
      /\ OutOfVocab = {} => \A i \in DOMAIN d : i < e => prefix[i].kind # "none"
  BY <1>1, StudentRows
<1>3. row = [prefix EXCEPT ![e] = t]
  OBVIOUS
<1> HIDE DEF prefix
<1>4. /\ DOMAIN row = Slots /\ row[e] = t
      /\ \A i \in Slots \ {e} : row[i] = prefix[i]
  BY <1>1, <1>2, <1>3
<1>5. t.kind \notin {"none", "stop"}
  BY DEF Kinds
<1>6. NoStop(row)
  BY <1>2, <1>4, <1>5 DEF NoStop
<1>7. ASSUME OutOfVocab = {}, NEW i \in Slots
      PROVE  row[i].kind # "none" <=> i <= e
  <2>1. i \in Nat
    BY SpecLenAssumption DEF Slots
  <2>2. CASE i = e
    BY <1>1, <1>4, <1>5, <2>2
  <2>3. CASE i # e
    BY <1>1, <1>2, <1>4, <1>7, <2>1, <2>3
  <2> QED
    BY <2>2, <2>3
<1> QED
  BY <1>4, <1>6, <1>7 DEF Filled

(* The rows of the teacher's leg fill the slots 1 to k, when k tokens are  *)
(* there.                                                                  *)
LEMMA TeacherRows ==
    ASSUME NEW n \in 1..MaxSpecLen, NEW std \in StandardRows(n), NEW k \in Nat
    PROVE  LET toks == DropBonus(std, n)
               row == TeacherRow(toks, k)
           IN  /\ DOMAIN row = Slots
               /\ NoStop(row)
               /\ \A i \in Slots : row[i].kind # "none" <=> i \in DOMAIN toks /\ i <= k
               /\ \A i \in Slots : row[i].kind # "none" =>
                      row[i] = Slot(toks[i], TRUE)
               /\ DOMAIN toks \in SUBSET Slots
<1> DEFINE toks == DropBonus(std, n)
           row == TeacherRow(toks, k)
<1>1. PICK m \in 1..(n + 1) : std \in [1..m -> Kinds]
  BY DEF StandardRows
<1>2. \A i \in DOMAIN toks : toks[i] \in Kinds /\ i \in Slots
  BY <1>1, SpecLenAssumption DEF DropBonus, Slots
<1>3. DOMAIN toks \in SUBSET Slots
  BY <1>2
<1> HIDE DEF toks
<1>4. \A i \in Slots : row[i] = IF i \in DOMAIN toks /\ i <= k THEN Slot(toks[i], TRUE)
                               ELSE Empty
  BY DEF TeacherRow
<1>5. DOMAIN row = Slots
  BY DEF TeacherRow
<1> HIDE DEF row
<1>6. Empty.kind = "none" /\ \A i \in DOMAIN toks : Slot(toks[i], TRUE).kind \in Kinds
  BY <1>2 DEF Empty, Slot
<1>7. \A i \in Slots : row[i].kind # "none" <=> i \in DOMAIN toks /\ i <= k
  BY <1>4, <1>6 DEF Kinds
<1>8. \A i \in Slots : row[i].kind # "none" => row[i] = Slot(toks[i], TRUE)
  BY <1>4, <1>6
<1>9. NoStop(row)
  BY <1>4, <1>6 DEF NoStop, Kinds
<1> QED
  BY <1>3, <1>5, <1>7, <1>8, <1>9 DEF toks, row

(* The row that ends a takeover: its k tokens are the teacher's, k is      *)
(* where the budget is used up, and the stop token is behind them or the   *)
(* row has none.                                                           *)
EndsLeg(toks, m, k, out) ==
    /\ m \in 1..MaxSpecLen
    /\ DOMAIN toks = 1..m
    /\ k \in 1..m
    /\ k \in Exhausted(toks)
    /\ Commit(out) /\ RecordStop(out) /\ ExtendLeg(out)
    /\ NoStop(out) \/ StopAt(out, k + 1)
    /\ \A i \in Slots \ {k + 1} : out[i].kind # "none" <=> i <= k
    /\ \A i \in 1..k : out[i] = Slot(toks[i], TRUE)
    /\ \A i \in Slots : i > k => ~out[i].teacher

(* EndTakeover takes such a row.                                           *)
LEMMA EndShape ==
    ASSUME LegInv, EndTakeover
    PROVE  \E toks, m, k, out : EndsLeg(toks, m, k, out)
<1>0. PICK n \in 1..MaxSpecLen : \E std \in StandardRows(n) :
         LET toks == DropBonus(std, n)
             k == FirstOf(Exhausted(toks))
             row == TeacherRow(toks, k)
             out == IF LastTakeover /\ HasStopId
                    THEN [row EXCEPT ![StopSlot(k)] = Stop] ELSE row
         IN  /\ Exhausted(toks) # {}
             /\ Commit(out) /\ RecordStop(out) /\ ExtendLeg(out)
  BY DEF EndTakeover
<1>1. PICK std \in StandardRows(n) :
         LET toks == DropBonus(std, n)
             k == FirstOf(Exhausted(toks))
             row == TeacherRow(toks, k)
             out == IF LastTakeover /\ HasStopId
                    THEN [row EXCEPT ![StopSlot(k)] = Stop] ELSE row
         IN  /\ Exhausted(toks) # {}
             /\ Commit(out) /\ RecordStop(out) /\ ExtendLeg(out)
  BY <1>0
<1> DEFINE toks == DropBonus(std, n)
           k == FirstOf(Exhausted(toks))
           row == TeacherRow(toks, k)
           stopped == [row EXCEPT ![StopSlot(k)] = Stop]
           out == IF LastTakeover /\ HasStopId THEN stopped ELSE row
<1>2. /\ Exhausted(toks) # {}
      /\ Commit(out) /\ RecordStop(out) /\ ExtendLeg(out)
  BY <1>1
<1>3. PICK m \in 1..n : DOMAIN toks = 1..m
  BY BonusDropped
<1>4. m \in Nat /\ m \in 1..MaxSpecLen
  BY <1>3, SpecLenAssumption
<1>5. k \in Exhausted(toks)
  <2>1. Exhausted(toks) \in SUBSET Nat
    BY <1>3 DEF Exhausted
  <2> QED
    BY <1>2, <2>1, FirstOfLeast
<1>6. k \in 1..m
  BY <1>3, <1>5 DEF Exhausted
<1>7. k \in Nat /\ k \in Slots /\ k + 1 \in Slots
  BY <1>4, <1>6, SpecLenAssumption DEF Slots
<1>8. /\ DOMAIN row = Slots
      /\ NoStop(row)
      /\ \A i \in Slots : row[i].kind # "none" <=> i \in DOMAIN toks /\ i <= k
      /\ \A i \in Slots : row[i].kind # "none" => row[i] = Slot(toks[i], TRUE)
  <2> HIDE DEF k
  <2> QED
    BY <1>7, TeacherRows
<1>9. \A i \in Slots : i > k => row[i] = Empty
  <2> HIDE DEF toks, k
  <2>1. \A i \in Slots : ~(i <= k) => row[i] = Empty
    BY DEF TeacherRow
  <2>2. \A i \in Slots : i > k => ~(i <= k)
    BY <1>7, SpecLenAssumption DEF Slots
  <2> QED
    BY <2>1, <2>2
<1> HIDE DEF toks, k, row
<1>10. Filled(row, k)
  BY <1>3, <1>4, <1>6, <1>8, SpecLenAssumption DEF Slots, Filled
<1>11. \A i \in 1..k : i \in Slots \ {k + 1} /\ row[i] = Slot(toks[i], TRUE)
  <2>1. \A i \in 1..k : i \in Slots \ {k + 1} /\ i <= k
    BY <1>7, SpecLenAssumption DEF Slots
  <2> QED
    BY <1>8, <1>10, <2>1 DEF Filled
<1>12. \A i \in Slots : i > k => ~row[i].teacher
  BY <1>9 DEF Empty, Slot
<1>13. /\ stopped[k + 1].kind = "stop"
       /\ \A i \in Slots \ {k + 1} : stopped[i] = row[i]
       /\ StopAt(stopped, k + 1)
  BY <1>7, <1>8, <1>10, StopAppended
<1>14. ~stopped[k + 1].teacher
  BY <1>7, <1>8 DEF StopSlot, Stop, Slot
<1> HIDE DEF stopped
<1>15. CASE LastTakeover /\ HasStopId
  <2>1. out = stopped
    BY <1>15
  <2>2. \A i \in Slots \ {k + 1} : out[i].kind # "none" <=> i <= k
    BY <1>10, <1>13, <2>1 DEF Filled
  <2>3. \A i \in 1..k : out[i] = Slot(toks[i], TRUE)
    BY <1>11, <1>13, <2>1
  <2>4. \A i \in Slots : i > k => ~out[i].teacher
    BY <1>12, <1>13, <1>14, <2>1
  <2>5. StopAt(out, k + 1)
    BY <1>13, <2>1
  <2> HIDE DEF out
  <2>6. EndsLeg(toks, m, k, out)
    BY <1>2, <1>3, <1>4, <1>5, <1>6, <2>2, <2>3, <2>4, <2>5 DEF EndsLeg
  <2> QED
    BY <2>6
<1>16. CASE ~(LastTakeover /\ HasStopId)
  <2>1. out = row
    BY <1>16
  <2> HIDE DEF out
  <2>2. EndsLeg(toks, m, k, out)
    BY <1>2, <1>3, <1>4, <1>5, <1>6, <1>8, <1>10, <1>11, <1>12, <2>1
    DEF EndsLeg, Filled
  <2> QED
    BY <2>2
<1> QED
  BY <1>15, <1>16

-----------------------------------------------------------------------------
(* A stop token never follows an empty slot: no draft is outside the       *)
(* teacher's vocabulary, or stop tokens only follow the teacher's tokens.  *)
NoHoles == OutOfVocab = {} \/ (Modes = {"relay"} /\ ParagraphsPerTakeover > 0)

(* These actions commit a row without a stop token.                        *)
LEMMA PlainRow ==
    ASSUME FirstToken \/ StudentRow \/ TriggerTakeover \/ TakeoverRow
    PROVE  \E out : NoStop(out) /\ Commit(out)
<1>1. CASE FirstToken
  <2>1. PICK k \in Kinds :
           Commit([i \in Slots |-> IF i = 1 THEN Slot(k, FALSE) ELSE Empty])
    BY <1>1 DEF FirstToken
  <2> DEFINE out == [i \in Slots |-> IF i = 1 THEN Slot(k, FALSE) ELSE Empty]
  <2>2. NoStop(out)
    BY DEF NoStop, Slot, Empty, Kinds
  <2> QED
    BY <2>1, <2>2
<1>2. CASE StudentRow
  <2>1. PICK d \in DraftRows : Commit(StudentPrefix(d, MaxSpecLen + 3))
    BY <1>2 DEF StudentRow
  <2>2. MaxSpecLen + 3 \in Nat
    BY SpecLenAssumption
  <2>3. NoStop(StudentPrefix(d, MaxSpecLen + 3))
    BY <2>2, StudentRows
  <2> QED
    BY <2>1, <2>3
<1>3. CASE TriggerTakeover
  <2>1. PICK d \in DraftRows :
           /\ Triggers(d) # {}
           /\ Commit(TriggerRow(d, FirstOf(Triggers(d))))
    BY <1>3 DEF TriggerTakeover
  <2> DEFINE e == FirstOf(Triggers(d))
  <2>2. d[e].teacher \in Kinds
    BY <2>1, FirstTrigger DEF Kinds
  <2>3. TriggerRow(d, e) = [StudentPrefix(d, e) EXCEPT ![e] = Slot(d[e].teacher, TRUE)]
    BY DEF TriggerRow
  <2>4. NoStop(TriggerRow(d, e))
    <3>1. e = FirstOf(Triggers(d))
      OBVIOUS
    <3> HIDE DEF e
    <3> DEFINE t == Slot(d[e].teacher, TRUE)
               row == TriggerRow(d, e)
    <3>2. t.kind \in Kinds /\ row = [StudentPrefix(d, e) EXCEPT ![e] = t]
      BY <2>2, <2>3 DEF Slot
    <3> HIDE DEF t, row
    <3>3. NoStop(row)
      BY <2>1, <3>1, <3>2, TriggerRows
    <3> QED
      BY <3>3 DEF row
  <2> QED
    BY <2>1, <2>4
<1>4. CASE TakeoverRow
  <2>1. PICK n \in 1..MaxSpecLen : \E std \in StandardRows(n) :
           Commit(TeacherRow(DropBonus(std, n), n))
    BY <1>4 DEF TakeoverRow
  <2>2. PICK std \in StandardRows(n) : Commit(TeacherRow(DropBonus(std, n), n))
    BY <2>1
  <2>3. n \in Nat
    BY SpecLenAssumption
  <2>4. NoStop(TeacherRow(DropBonus(std, n), n))
    BY <2>3, TeacherRows
  <2> QED
    BY <2>2, <2>4
<1> QED
  BY <1>1, <1>2, <1>3, <1>4

(* They send no stop event, and do not finish the request with "stop".     *)
LEMMA StopInvPlain ==
    ASSUME StopInv, FirstToken \/ StudentRow \/ TriggerTakeover \/ TakeoverRow
    PROVE  StopInv'
<1>1. finish = "running" /\ stopEvent' = stopEvent
  BY DEF FirstToken, StudentRow, TriggerTakeover, TakeoverRow, StudentLeg
<1>2. PICK out : NoStop(out) /\ Commit(out)
  BY PlainRow
<1> QED
  BY <1>1, <1>2, NoStopRecorded

(* The stop token of a Trigger-Stop row is behind the divergent draft.     *)
LEMMA StoppedRowShape ==
    ASSUME NEW d \in DraftRows, Triggers(d) # {}, NEW e, e = FirstOf(Triggers(d)),
           HasStopId
    PROVE  LET out == StoppedRow(d, e)
           IN  /\ e \in Nat /\ e \in Slots /\ e + 1 \in Slots
               /\ out[e].kind # "none"
               /\ \A i \in Slots : out[i].kind = "stop" <=> i = e + 1
               /\ OutOfVocab = {} => StopAt(out, e + 1)
<1>1. e \in Nat /\ e \in Slots /\ e + 1 \in Slots /\ d[e].token \in Kinds
  BY FirstTrigger
<1> DEFINE row == [StudentPrefix(d, e) EXCEPT ![e] = Slot(d[e].token, FALSE)]
           out == [row EXCEPT ![StopSlot(e)] = Stop]
<1>2. StoppedRow(d, e) = out
  BY DEF StoppedRow
<1>3. /\ DOMAIN row = Slots
      /\ NoStop(row)
      /\ row[e] = Slot(d[e].token, FALSE)
      /\ OutOfVocab = {} => Filled(row, e)
  <2>1. row = [StudentPrefix(d, e) EXCEPT ![e] = Slot(d[e].token, FALSE)]
    OBVIOUS
  <2> HIDE DEF row
  <2> DEFINE t == Slot(d[e].token, FALSE)
  <2>2. t.kind \in Kinds /\ row = [StudentPrefix(d, e) EXCEPT ![e] = t]
    BY <1>1, <2>1 DEF Slot
  <2>3. t = Slot(d[e].token, FALSE)
    OBVIOUS
  <2> HIDE DEF t
  <2>4. /\ DOMAIN row = Slots /\ NoStop(row)
        /\ OutOfVocab = {} => Filled(row, e)
    BY <2>2, TriggerRows
  <2>5. row[e] = t
    BY <1>1, <2>2 DEF StudentPrefix
  <2> QED
    BY <2>3, <2>4, <2>5
<1> HIDE DEF row
<1>4. /\ out[e + 1].kind = "stop"
      /\ \A i \in Slots \ {e + 1} : out[i] = row[i]
      /\ OutOfVocab = {} => StopAt(out, e + 1)
  BY <1>1, <1>3, StopAppended
<1> HIDE DEF out
<1>5. \A i \in Slots : out[i].kind = "stop" <=> i = e + 1
  BY <1>1, <1>3, <1>4 DEF NoStop
<1>6. out[e].kind # "none"
  BY <1>1, <1>3, <1>4 DEF Slot, Kinds
<1> QED
  BY <1>1, <1>2, <1>4, <1>5, <1>6

(* Trigger-Stop: the divergent draft, then the stop token.                 *)
LEMMA StopInvTriggerStop ==
    ASSUME NoHoles, LegInv, StopInv, TriggerStop
    PROVE  StopInv'
<1>1. PICK d \in DraftRows :
         /\ Triggers(d) # {}
         /\ Commit(StoppedRow(d, FirstOf(Triggers(d))))
         /\ RecordStop(StoppedRow(d, FirstOf(Triggers(d))))
  BY DEF TriggerStop
<1>2. OutOfVocab = {} /\ finish = "running" /\ length \in Nat
  BY DEF NoHoles, TriggerStop, StudentLeg, LegInv, TypeOK
<1> DEFINE e == FirstOf(Triggers(d))
           out == StoppedRow(d, e)
<1>3. Commit(out) /\ RecordStop(out)
  BY <1>1
<1>4. CASE HasStopId
  <2>1. e + 1 \in Slots /\ StopAt(out, e + 1)
    BY <1>1, <1>2, <1>4, StoppedRowShape
  <2> HIDE DEF e, out
  <2> QED
    BY <1>2, <1>3, <2>1, StopRecorded
<1>5. CASE ~HasStopId
  <2>1. out = StudentPrefix(d, e)
    BY <1>5 DEF StoppedRow
  <2>2. e \in Nat
    BY <1>1, FirstTrigger
  <2> HIDE DEF e
  <2>3. NoStop(out)
    BY <2>1, <2>2, StudentRows
  <2> HIDE DEF out
  <2> QED
    BY <1>2, <1>3, <2>3, NoStopRecorded
<1> QED
  BY <1>4, <1>5

(* The counted trigger: the teacher's token, then perhaps the stop token.  *)
LEMMA StopInvTriggerOnly ==
    ASSUME NoHoles, LegInv, StopInv, TriggerOnly
    PROVE  StopInv'
<1>1. PICK d \in DraftRows :
         /\ Triggers(d) # {}
         /\ LET e == FirstOf(Triggers(d))
                row == TriggerRow(d, e)
                out == IF LastTakeover /\ HasStopId
                       THEN [row EXCEPT ![StopSlot(e)] = Stop] ELSE row
            IN  Commit(out) /\ RecordStop(out)
  BY DEF TriggerOnly
<1>2. OutOfVocab = {} /\ finish = "running" /\ length \in Nat
  BY ParagraphsAssumption DEF NoHoles, TriggerOnly, StudentLeg, LegInv, TypeOK
<1> DEFINE e == FirstOf(Triggers(d))
           row == TriggerRow(d, e)
           stopped == [row EXCEPT ![StopSlot(e)] = Stop]
           out == IF LastTakeover /\ HasStopId THEN stopped ELSE row
<1>3. Commit(out) /\ RecordStop(out)
  BY <1>1
<1>4. e \in Slots /\ e + 1 \in Slots /\ d[e].teacher \in Kinds
  BY <1>1, FirstTrigger DEF Kinds
<1>5. /\ DOMAIN row = Slots
      /\ NoStop(row)
      /\ Filled(row, e)
  <2>1. row = [StudentPrefix(d, e) EXCEPT ![e] = Slot(d[e].teacher, TRUE)]
    BY DEF TriggerRow
  <2>2. Triggers(d) # {} /\ e = FirstOf(Triggers(d))
    BY <1>1
  <2> HIDE DEF e, row
  <2> DEFINE t == Slot(d[e].teacher, TRUE)
  <2>3. t.kind \in Kinds /\ row = [StudentPrefix(d, e) EXCEPT ![e] = t]
    BY <1>4, <2>1 DEF Slot
  <2> HIDE DEF t
  <2> QED
    BY <1>2, <2>2, <2>3, TriggerRows
<1> HIDE DEF e, row
<1>6. StopAt(stopped, e + 1)
  BY <1>4, <1>5, StopAppended
<1> HIDE DEF stopped
<1>7. CASE out = stopped
  <2> HIDE DEF out
  <2> QED
    BY <1>2, <1>3, <1>4, <1>6, <1>7, StopRecorded
<1>8. CASE out = row
  <2> HIDE DEF out
  <2> QED
    BY <1>2, <1>3, <1>5, <1>8, NoStopRecorded
<1> QED
  BY <1>7, <1>8

(* The end of a takeover: the teacher's tokens, then perhaps the stop      *)
(* token.                                                                  *)
LEMMA StopInvEndTakeover ==
    ASSUME LegInv, StopInv, EndTakeover
    PROVE  StopInv'
<1>1. PICK toks, m, k, out : EndsLeg(toks, m, k, out)
  BY EndShape
<1>2. k + 1 \in Slots /\ finish = "running" /\ length \in Nat
  BY <1>1, SpecLenAssumption DEF EndsLeg, Slots, EndTakeover, LegInv, TypeOK
<1>3. CASE NoStop(out)
  BY <1>1, <1>2, <1>3, NoStopRecorded DEF EndsLeg
<1>4. CASE StopAt(out, k + 1)
  BY <1>1, <1>2, <1>4, StopRecorded DEF EndsLeg
<1> QED
  BY <1>1, <1>3, <1>4 DEF EndsLeg

(* The stop event of _record_trigger_stop_events points at the stop token  *)
(* of the response, or behind a response that ended earlier, unless a      *)
(* draft outside the vocabulary leaves an empty slot in front of it.       *)
THEOREM StopEventsExact ==
    ASSUME NoHoles
    PROVE  Spec => []StopEventExact
<1>1. Init => StopInv
  BY DEF Init, StopInv, StopEventExact
<1>2. LegInv /\ StopInv /\ [Next]_vars => StopInv'
  <2>1. StopInv /\ UNCHANGED vars => StopInv'
    BY DEF vars, StopInv, StopEventExact
  <2> QED
    BY <2>1, StopInvPlain, StopInvTriggerStop, StopInvTriggerOnly, StopInvEndTakeover
    DEF Next
<1>3. StopInv => StopEventExact
  BY DEF StopInv
<1> QED
  BY <1>1, <1>2, <1>3, LegInvInit, LegInvNext, PTL DEF Spec

-----------------------------------------------------------------------------
(* A running request has accepted all its teacher tokens, so the budget is *)
(* exactly what the leg has not used; and the stop token follows a leg     *)
(* that has used up its budget.                                            *)
FullInv ==
    /\ finish = "running" /\ tokensRemaining > 0 =>
           /\ legTokens + tokensRemaining = MaxTakeoverTokens + 1
           /\ legParagraphs + paragraphsRemaining = ParagraphsPerTakeover
    /\ StopAfterFullLeg

(* When exactly the first k tokens are labelled teacher.                   *)
LEMMA LegExact ==
    ASSUME NEW m \in 1..MaxSpecLen, NEW toks, DOMAIN toks = 1..m, NEW k \in 1..m,
           NEW out, TeacherSlots(out) = 1..k,
           \A i \in 1..k : out[i].kind = toks[i]
    PROVE  /\ Cardinality(TeacherSlots(out)) = k
           /\ Cardinality(TeacherBreaks(out)) = Breaks(toks, k)
<1>1. k \in Nat /\ m \in Nat
  BY SpecLenAssumption
<1>2. Cardinality(1..k) = k
  BY <1>1, FS_Interval
<1>3. TeacherBreaks(out) = {j \in DOMAIN toks : j <= k /\ toks[j] = "para"}
  BY <1>1 DEF TeacherBreaks
<1> QED
  BY <1>2, <1>3 DEF Breaks

(* A trigger sets up the budget and uses one token of the leg.             *)
LEMMA FullInvTriggerTakeover ==
    ASSUME LegInv, FullInv, TriggerTakeover
    PROVE  FullInv'
<1>1. PICK d \in DraftRows :
         /\ Triggers(d) # {}
         /\ LET e == FirstOf(Triggers(d))
            IN  /\ Commit(TriggerRow(d, e))
                /\ BeginLeg(TriggerRow(d, e))
                /\ BeginTakeover(d[e].teacher = "para")
  BY DEF TriggerTakeover
<1> DEFINE e == FirstOf(Triggers(d))
           row == TriggerRow(d, e)
           t == Slot(d[e].teacher, TRUE)
<1>2. Commit(row) /\ BeginLeg(row) /\ BeginTakeover(d[e].teacher = "para")
  BY <1>1
<1>3. Triggers(d) # {} /\ e = FirstOf(Triggers(d))
  BY <1>1
<1>4. e \in Slots /\ d[e].teacher \in {"text", "para"}
  BY <1>1, FirstTrigger
<1>5. \A i \in Slots : row[i].teacher => i = e
  BY <1>1, TriggerRowShape
<1>6. row = [StudentPrefix(d, e) EXCEPT ![e] = t]
  BY DEF TriggerRow
<1> HIDE DEF e
<1>7. t.kind = d[e].teacher /\ t.teacher = TRUE /\ t.kind \in Kinds
  BY <1>4 DEF Slot, Kinds
<1> HIDE DEF row, t
<1>8. NoStop(row) /\ row[e] = t
  <2>1. NoStop(row)
    BY <1>3, <1>6, <1>7, TriggerRows
  <2>2. row[e] = t
    BY <1>4, <1>6 DEF StudentPrefix
  <2> QED
    BY <2>1, <2>2
<1>9. finish' # "stop"
  BY <1>2, <1>8, NoStopFinish DEF Commit
<1>10. ASSUME finish' = "running", tokensRemaining' > 0
       PROVE  /\ legTokens' + tokensRemaining' = MaxTakeoverTokens + 1
              /\ legParagraphs' + paragraphsRemaining' = ParagraphsPerTakeover
  <2>1. Accepted(row) = Emitted(row)
    BY <1>2, <1>10, AllAccepted DEF Commit
  <2>2. e \in Emitted(row)
    BY <1>4, <1>7, <1>8 DEF Emitted, Kinds
  <2>3. TeacherSlots(row) = {e}
    BY <1>5, <1>7, <1>8, <2>1, <2>2 DEF TeacherSlots, Emitted
  <2>4. TeacherBreaks(row) = IF d[e].teacher = "para" THEN {e} ELSE {}
    BY <1>7, <1>8, <2>3 DEF TeacherBreaks
  <2>5. legTokens' = 1 /\ legParagraphs' = IF d[e].teacher = "para" THEN 1 ELSE 0
    BY <1>2, <2>3, <2>4, FS_Singleton, FS_EmptySet DEF BeginLeg
  <2> QED
    BY <1>2, <1>10, <2>5, CapAssumption, ParagraphsAssumption DEF BeginTakeover
<1> QED
  BY <1>9, <1>10 DEF FullInv, StopAfterFullLeg

(* A row inside the takeover is charged token by token.                    *)
LEMMA FullInvTakeoverRow ==
    ASSUME LegInv, FullInv, TakeoverRow
    PROVE  FullInv'
<1>0. PICK n \in 1..MaxSpecLen : \E std \in StandardRows(n) :
         LET toks == DropBonus(std, n)
             out == TeacherRow(toks, n)
         IN  /\ Commit(out)
             /\ ExtendLeg(out)
             /\ tokensRemaining' = tokensRemaining - Cardinality(DOMAIN toks)
             /\ paragraphsRemaining' = paragraphsRemaining - Breaks(toks, n)
  BY DEF TakeoverRow
<1>1. PICK std \in StandardRows(n) :
         LET toks == DropBonus(std, n)
             out == TeacherRow(toks, n)
         IN  /\ Commit(out)
             /\ ExtendLeg(out)
             /\ tokensRemaining' = tokensRemaining - Cardinality(DOMAIN toks)
             /\ paragraphsRemaining' = paragraphsRemaining - Breaks(toks, n)
  BY <1>0
<1> DEFINE toks == DropBonus(std, n)
           out == TeacherRow(toks, n)
<1>2. PICK m \in 1..n : DOMAIN toks = 1..m
  BY BonusDropped
<1>3. n \in Nat /\ m \in Nat /\ m \in 1..MaxSpecLen /\ m \in 1..m /\ Cardinality(1..m) = m
  BY <1>2, FS_Interval, SpecLenAssumption
<1>4. /\ Commit(out)
      /\ ExtendLeg(out)
      /\ tokensRemaining' = tokensRemaining - m
      /\ paragraphsRemaining' = paragraphsRemaining - Breaks(toks, n)
  BY <1>1, <1>2, <1>3
<1>5. /\ NoStop(out)
      /\ \A i \in Slots : out[i].kind # "none" <=> i \in DOMAIN toks /\ i <= n
      /\ \A i \in Slots : out[i].kind # "none" => out[i] = Slot(toks[i], TRUE)
      /\ DOMAIN toks \in SUBSET Slots
  BY <1>3, TeacherRows
<1> HIDE DEF toks, out
<1>6. finish' # "stop"
  BY <1>4, <1>5, NoStopFinish DEF Commit
<1>7. finish = "running" /\ tokensRemaining > 0
  BY DEF TakeoverRow, InTakeover
<1>8. ASSUME finish' = "running", tokensRemaining' > 0
      PROVE  /\ legTokens' + tokensRemaining' = MaxTakeoverTokens + 1
             /\ legParagraphs' + paragraphsRemaining' = ParagraphsPerTakeover
  <2>1. Accepted(out) = Emitted(out)
    BY <1>4, <1>8, AllAccepted DEF Commit
  <2>2. \A i \in DOMAIN toks : i <= n
    BY <1>2, <1>3
  <2>3. Emitted(out) = 1..m
    BY <1>2, <1>5, <2>2 DEF Emitted
  <2>4. \A i \in 1..m : out[i].kind = toks[i] /\ out[i].teacher = TRUE
    <3>1. \A i \in 1..m : out[i] = Slot(toks[i], TRUE)
      BY <1>2, <1>5, <2>2
    <3>2. ASSUME NEW i \in 1..m PROVE out[i].kind = toks[i] /\ out[i].teacher = TRUE
      <4>1. out[i] = [kind |-> toks[i], teacher |-> TRUE]
        BY <3>1 DEF Slot
      <4> QED
        BY <4>1
    <3> QED
      BY <3>2
  <2>5. TeacherSlots(out) = 1..m
    BY <2>1, <2>3, <2>4 DEF TeacherSlots
  <2>6. /\ Cardinality(TeacherSlots(out)) = m
        /\ Cardinality(TeacherBreaks(out)) = Breaks(toks, m)
    BY <1>2, <1>3, <2>4, <2>5, LegExact
  <2>7. Breaks(toks, n) = Breaks(toks, m) /\ Breaks(toks, n) \in Nat
    BY <1>2, <1>3, BreaksGrowth
  <2>8. /\ legTokens' = legTokens + m
        /\ legParagraphs' = legParagraphs + Breaks(toks, n)
    BY <1>4, <2>6, <2>7 DEF ExtendLeg
  <2> DEFINE b == Breaks(toks, n)
  <2>9. b \in Nat /\ legParagraphs' = legParagraphs + b
        /\ paragraphsRemaining' = paragraphsRemaining - b
    BY <1>4, <2>7, <2>8
  <2> HIDE DEF b
  <2> QED
    BY <1>3, <1>4, <1>7, <2>8, <2>9, CapAssumption, ParagraphsAssumption
    DEF FullInv, LegInv, TypeOK
<1> QED
  BY <1>6, <1>8 DEF FullInv, StopAfterFullLeg

(* A leg whose last row is accepted up to the token that used up the       *)
(* budget has used it up.                                                  *)
LEMMA LegUsedUp ==
    ASSUME LegInv, LegInv', FullInv, finish = "running", tokensRemaining > 0,
           NEW toks, NEW m, NEW k, NEW out, EndsLeg(toks, m, k, out),
           1..k \in SUBSET Accepted(out)
    PROVE  \/ legTokens' = MaxTakeoverTokens + 1
           \/ legParagraphs' = ParagraphsPerTakeover
<1>1. k \in Nat /\ m \in Nat /\ k \in 1..m /\ m \in 1..MaxSpecLen /\ DOMAIN toks = 1..m
  BY SpecLenAssumption DEF EndsLeg
<1>2. \A i \in 1..k : out[i].kind = toks[i] /\ out[i].teacher = TRUE
  <2>1. \A i \in 1..k : out[i] = Slot(toks[i], TRUE)
    BY DEF EndsLeg
  <2>2. ASSUME NEW i \in 1..k PROVE out[i].kind = toks[i] /\ out[i].teacher = TRUE
    <3>1. out[i] = [kind |-> toks[i], teacher |-> TRUE]
      BY <2>1 DEF Slot
    <3> QED
      BY <3>1
  <2> QED
    BY <2>2
<1>3. TeacherSlots(out) = 1..k
  <2>1. \A i \in Slots : i > k => ~out[i].teacher
    BY DEF EndsLeg
  <2>2. \A i \in Accepted(out) : i \in Slots /\ i \in Nat /\ i > 0
    BY SpecLenAssumption DEF Accepted, Emitted, Slots
  <2> QED
    BY <1>1, <1>2, <2>1, <2>2 DEF TeacherSlots
<1>4. /\ Cardinality(TeacherSlots(out)) = k
      /\ Cardinality(TeacherBreaks(out)) = Breaks(toks, k)
  BY <1>1, <1>2, <1>3, LegExact
<1>5. /\ legTokens' = legTokens + k
      /\ legParagraphs' = legParagraphs + Breaks(toks, k)
  BY <1>4 DEF EndsLeg, ExtendLeg
<1>6. k >= tokensRemaining \/ paragraphsRemaining - Breaks(toks, k) <= 0
  BY DEF EndsLeg, Exhausted
<1>7. Breaks(toks, k) \in Nat
  BY <1>1, BreaksGrowth
<1> DEFINE b == Breaks(toks, k)
<1>8. /\ b \in Nat /\ legParagraphs' = legParagraphs + b
      /\ k >= tokensRemaining \/ paragraphsRemaining - b <= 0
  BY <1>5, <1>6, <1>7
<1> HIDE DEF b
<1>9. /\ legTokens + tokensRemaining = MaxTakeoverTokens + 1
      /\ legParagraphs + paragraphsRemaining = ParagraphsPerTakeover
      /\ ParagraphsPerTakeover > 0
  BY DEF FullInv, LegInv, LegBudget
<1>10. legTokens' <= MaxTakeoverTokens + 1 /\ legParagraphs' <= ParagraphsPerTakeover
  BY <1>9 DEF LegInv, LegBounded
<1>11. /\ legTokens \in Nat /\ legParagraphs \in Nat
       /\ tokensRemaining \in Nat /\ paragraphsRemaining \in Nat
  BY CapAssumption, ParagraphsAssumption DEF LegInv, TypeOK
<1>12. CASE k >= tokensRemaining
  <2>1. legTokens' >= legTokens + tokensRemaining
    BY <1>1, <1>5, <1>11, <1>12
  <2>2. legTokens' \in Nat
    BY <1>1, <1>5, <1>11
  <2> QED
    BY <1>9, <1>10, <1>11, <2>1, <2>2
<1>13. CASE paragraphsRemaining - b <= 0
  <2>1. legParagraphs' >= legParagraphs + paragraphsRemaining
    BY <1>8, <1>11, <1>13
  <2>2. legParagraphs' \in Nat
    BY <1>8, <1>11
  <2> QED
    BY <1>9, <1>10, <1>11, <2>1, <2>2
<1> QED
  BY <1>8, <1>12, <1>13

(* Unless the response ended by itself, the row that ends a takeover is    *)
(* accepted up to the token that used up the budget: the stop token has a  *)
(* slot of its own behind it.                                              *)
LEMMA EndsUsedUp ==
    ASSUME LegInv, LegInv', FullInv, EndTakeover, finish' \in {"running", "stop"}
    PROVE  \/ legTokens' = MaxTakeoverTokens + 1
           \/ legParagraphs' = ParagraphsPerTakeover
<1>1. PICK toks, m, k, out : EndsLeg(toks, m, k, out)
  BY EndShape
<1>2. finish = "running" /\ tokensRemaining > 0
  BY DEF EndTakeover, InTakeover
<1>3. k \in Nat /\ m \in Nat /\ k \in 1..m /\ m \in 1..MaxSpecLen
  BY <1>1, SpecLenAssumption DEF EndsLeg
<1>4. 1..k \in SUBSET Emitted(out)
  <2>1. \A i \in 1..k : i \in Slots \ {k + 1} /\ i <= k
    BY <1>3, SpecLenAssumption DEF Slots
  <2> QED
    BY <1>1, <2>1 DEF EndsLeg, Emitted
<1>5. CASE finish' = "running"
  <2>1. Accepted(out) = Emitted(out)
    BY <1>1, <1>5, AllAccepted DEF EndsLeg, Commit
  <2> QED
    BY <1>1, <1>2, <1>4, <2>1, LegUsedUp
<1>6. CASE finish' = "stop"
  <2>1. Finish(out) = "stop"
    BY <1>1, <1>6 DEF EndsLeg, Commit
  <2>2. PICK f \in Slots : /\ out[f].kind = "stop"
                           /\ Accepted(out) = {i \in Emitted(out) : i <= f}
    BY <2>1, StopAccepted
  <2>3. StopAt(out, k + 1)
    BY <1>1, <2>2 DEF EndsLeg, NoStop
  <2>4. f = k + 1
    BY <2>2, <2>3 DEF StopAt
  <2>5. 1..k \in SUBSET Accepted(out)
    BY <1>3, <1>4, <2>2, <2>4
  <2> QED
    BY <1>1, <1>2, <2>5, LegUsedUp
<1> QED
  BY <1>5, <1>6

(* The stop token is accepted only behind the token that used up the       *)
(* budget.                                                                 *)
LEMMA FullInvEndTakeover ==
    ASSUME LegInv, LegInv', FullInv, EndTakeover
    PROVE  FullInv'
<1>1. tokensRemaining' = 0
  BY DEF EndTakeover, ClearBudget
<1> QED
  BY <1>1, EndsUsedUp DEF FullInv, StopAfterFullLeg

(* Rows of the student's leg that begin no takeover.                       *)
LEMMA FullInvStudent ==
    ASSUME LegInv, FullInv, FirstToken \/ StudentRow \/ TriggerStop \/ TriggerOnly
    PROVE  FullInv'
<1>1. CASE FirstToken \/ StudentRow
  <2>1. finish' # "stop"
    BY <1>1, PlainRow, NoStopFinish DEF Commit
  <2>2. finish = "running" /\ UNCHANGED <<mode, sampler, history>>
    BY <1>1 DEF FirstToken, StudentRow, StudentLeg
  <2> QED
    BY <2>1, <2>2 DEF FullInv, StopAfterFullLeg, sampler, history
<1>2. CASE TriggerStop
  <2>1. finish = "running" /\ mode = "trigger_stop" /\ UNCHANGED <<mode, sampler, history>>
    BY <1>2 DEF TriggerStop, StudentLeg
  <2> QED
    BY <2>1 DEF FullInv, StopAfterFullLeg, sampler, history
<1>3. CASE TriggerOnly
  <2>1. ParagraphsPerTakeover = 0 /\ tokensRemaining' = 0
    BY <1>3 DEF TriggerOnly, BeginTakeover
  <2> QED
    BY <2>1 DEF FullInv, StopAfterFullLeg
<1> QED
  BY <1>1, <1>2, <1>3

(* Every step keeps it.                                                    *)
LEMMA FullInvNext == LegInv /\ LegInv' /\ FullInv /\ [Next]_vars => FullInv'
<1>1. FullInv /\ UNCHANGED vars => FullInv'
  BY DEF vars, FullInv, StopAfterFullLeg
<1> QED
  BY <1>1, FullInvStudent, FullInvTriggerTakeover, FullInvTakeoverRow,
     FullInvEndTakeover
  DEF Next

(* The stop token of a relay follows a leg that has used up its token cap  *)
(* or its paragraphs, to the last token: the truncation loop never gives   *)
(* up the token that exhausts the budget.                                  *)
THEOREM StopsAfterFullLegs == Spec => []StopAfterFullLeg
<1>1. Init => FullInv
  BY DEF Init, FullInv, StopAfterFullLeg
<1>2. FullInv => StopAfterFullLeg
  BY DEF FullInv
<1> QED
  BY <1>1, <1>2, LegInvInit, LegInvNext, FullInvNext, PTL DEF Spec

-----------------------------------------------------------------------------
(* The step that stops a request in trigger_stop mode.                     *)
LEMMA TriggerStopKeeps ==
    ASSUME TypeOK, TriggerStop, finish' = "stop"
    PROVE  length' >= length + 2
<1>1. PICK d \in DraftRows :
         /\ Triggers(d) # {}
         /\ Commit(StoppedRow(d, FirstOf(Triggers(d))))
  BY DEF TriggerStop
<1> DEFINE e == FirstOf(Triggers(d))
           out == StoppedRow(d, e)
<1>2. Commit(out)
  BY <1>1
<1>3. HasStopId
  <2>1. SUFFICES ASSUME ~HasStopId PROVE FALSE
    OBVIOUS
  <2>2. out = StudentPrefix(d, e)
    BY <2>1 DEF StoppedRow
  <2>3. e \in Nat
    BY <1>1, FirstTrigger
  <2> HIDE DEF e
  <2>4. NoStop(out)
    BY <2>2, <2>3, StudentRows
  <2> HIDE DEF out
  <2> QED
    BY <1>2, <2>4, NoStopFinish DEF Commit
<1>4. /\ e \in Nat /\ e \in Slots /\ e + 1 \in Slots
      /\ out[e].kind # "none"
      /\ \A i \in Slots : out[i].kind = "stop" <=> i = e + 1
  BY <1>1, <1>3, StoppedRowShape
<1> HIDE DEF e, out
<1>5. PICK f \in Slots : /\ out[f].kind = "stop"
                         /\ Accepted(out) = {i \in Emitted(out) : i <= f}
  BY <1>2, StopAccepted DEF Commit
<1>6. f = e + 1 /\ out[f].kind # "none"
  BY <1>4, <1>5
<1>7. {e, e + 1} \in SUBSET Accepted(out)
  BY <1>4, <1>5, <1>6 DEF Emitted
<1>8. Cardinality({e, e + 1}) = 2
  <2>1. IsFiniteSet({e}) /\ Cardinality({e}) = 1
    BY FS_Singleton
  <2>2. {e, e + 1} = {e} \cup {e + 1} /\ e + 1 \notin {e}
    BY <1>4
  <2>3. Cardinality({e} \cup {e + 1}) = Cardinality({e}) + 1
    BY <2>1, <2>2, FS_AddElement
  <2> QED
    BY <2>1, <2>2, <2>3
<1>9. Accepted(out) \in SUBSET (1..(MaxSpecLen + 1)) /\ MaxSpecLen + 1 \in Nat
  BY SpecLenAssumption DEF Accepted, Emitted, Slots
<1>10. Cardinality({e, e + 1}) <= Cardinality(Accepted(out))
  BY <1>7, <1>9, SlotSubset
<1>11. Cardinality(Accepted(out)) \in Nat
  BY CommitProperties
<1> QED
  BY <1>2, <1>8, <1>10, <1>11 DEF Commit, TypeOK

(* Trigger-Stop never sacrifices the divergent token for the stop token:   *)
(* the row has a slot for both.                                            *)
THEOREM DivergentTokenKept == Spec => StopKeepsDivergentToken
<1>1. LegInv /\ [Next]_vars =>
          [mode = "trigger_stop" /\ finish' = "stop" => length' >= length + 2]_vars
  <2>1. SUFFICES ASSUME LegInv, Next, mode = "trigger_stop", finish' = "stop"
                 PROVE  length' >= length + 2
    OBVIOUS
  <2>2. CASE TriggerStop
    BY <2>1, <2>2, TriggerStopKeeps DEF LegInv
  <2>3. CASE FirstToken \/ StudentRow
    BY <2>1, <2>3, PlainRow, NoStopFinish DEF Commit
  <2>4. ~TriggerTakeover /\ ~TriggerOnly /\ ~TakeoverRow /\ ~EndTakeover
    BY <2>1 DEF TriggerTakeover, TriggerOnly, TakeoverRow, EndTakeover, InTakeover
  <2> QED
    BY <2>1, <2>2, <2>3, <2>4 DEF Next
<1> QED
  BY <1>1, LegInvInit, LegInvNext, PTL DEF Spec, StopKeepsDivergentToken

-----------------------------------------------------------------------------
(* The stop token is in the row of the last takeover only.                 *)
LEMMA StopIsLast ==
    ASSUME EndTakeover \/ TriggerOnly, finish' = "stop"
    PROVE  LastTakeover
<1> SUFFICES ASSUME ~LastTakeover PROVE FALSE
  OBVIOUS
<1>1. \E out : NoStop(out) /\ Commit(out)
  <2>1. CASE EndTakeover
    <3>1. PICK n \in 1..MaxSpecLen : \E std \in StandardRows(n) :
             LET toks == DropBonus(std, n)
                 k == FirstOf(Exhausted(toks))
             IN  Exhausted(toks) # {} /\ Commit(TeacherRow(toks, k))
      BY <2>1 DEF EndTakeover
    <3>2. PICK std \in StandardRows(n) :
             LET toks == DropBonus(std, n)
                 k == FirstOf(Exhausted(toks))
             IN  Exhausted(toks) # {} /\ Commit(TeacherRow(toks, k))
      BY <3>1
    <3> DEFINE toks == DropBonus(std, n)
               k == FirstOf(Exhausted(toks))
    <3>3. PICK m \in 1..n : DOMAIN toks = 1..m
      BY BonusDropped
    <3>4. Exhausted(toks) \in SUBSET Nat /\ Exhausted(toks) # {}
      BY <3>2, <3>3 DEF Exhausted
    <3>5. k \in Nat
      BY <3>4, FirstOfLeast
    <3>6. NoStop(TeacherRow(toks, k))
      BY <3>5, TeacherRows
    <3> QED
      BY <3>2, <3>6
  <2>2. CASE TriggerOnly
    <3>1. PICK d \in DraftRows :
             Triggers(d) # {} /\ Commit(TriggerRow(d, FirstOf(Triggers(d))))
      BY <2>2 DEF TriggerOnly
    <3> DEFINE e == FirstOf(Triggers(d))
               t == Slot(d[e].teacher, TRUE)
    <3>2. d[e].teacher \in {"text", "para"}
      BY <3>1, FirstTrigger
    <3>3. t.kind \in Kinds
      BY <3>2 DEF Slot, Kinds
    <3>4. TriggerRow(d, e) = [StudentPrefix(d, e) EXCEPT ![e] = t]
      BY DEF TriggerRow
    <3> HIDE DEF t
    <3>5. NoStop(TriggerRow(d, e))
      BY <3>1, <3>3, <3>4, TriggerRows
    <3> QED
      BY <3>1, <3>5
  <2> QED
    BY <2>1, <2>2
<1> QED
  BY <1>1, NoStopFinish DEF Commit

(* A leg begins with the trigger token, or with none when the response     *)
(* ended in front of it.                                                   *)
LEMMA LegBegins ==
    ASSUME TriggerTakeover \/ TriggerOnly
    PROVE  legs' = legs + 1 /\ legTokens' \in 0..1 /\ legParagraphs' \in 0..legTokens'
<1>0. PICK d \in DraftRows : \E out :
         /\ Triggers(d) # {}
         /\ BeginLeg(out)
         /\ \/ out = TriggerRow(d, FirstOf(Triggers(d)))
            \/ out = [TriggerRow(d, FirstOf(Triggers(d))) EXCEPT
                        ![StopSlot(FirstOf(Triggers(d)))] = Stop]
  BY DEF TriggerTakeover, TriggerOnly
<1>1. PICK out :
         /\ Triggers(d) # {}
         /\ BeginLeg(out)
         /\ \/ out = TriggerRow(d, FirstOf(Triggers(d)))
            \/ out = [TriggerRow(d, FirstOf(Triggers(d))) EXCEPT
                        ![StopSlot(FirstOf(Triggers(d)))] = Stop]
  BY <1>0
<1> DEFINE e == FirstOf(Triggers(d))
<1>2. e \in Slots /\ \A i \in Slots : out[i].teacher => i = e /\ out[i].kind = d[e].teacher
  BY <1>1, TriggerRowShape
<1>3. /\ Cardinality(TeacherSlots(out)) \in Nat /\ Cardinality(TeacherSlots(out)) <= 1
      /\ Cardinality(TeacherBreaks(out)) \in Nat
  BY <1>2, TriggerGrowth
<1>4. /\ TeacherSlots(out) \in SUBSET (1..(MaxSpecLen + 1)) /\ MaxSpecLen + 1 \in Nat
      /\ TeacherBreaks(out) \in SUBSET TeacherSlots(out)
  BY SpecLenAssumption DEF TeacherBreaks, TeacherSlots, Accepted, Emitted, Slots
<1>5. Cardinality(TeacherBreaks(out)) <= Cardinality(TeacherSlots(out))
  BY <1>4, SlotSubset
<1> QED
  BY <1>1, <1>3, <1>5 DEF BeginLeg

(* Who writes, in the words of RelayResponse.                              *)
LEMMA WriterIs ==
    ASSUME TypeOK
    PROVE  /\ Writer = "stopped" <=> finish = "stop"
           /\ Writer = "ended" <=> finish \in {"eos", "length"}
           /\ Writer = "teacher" <=> finish = "running" /\ mode = "relay" /\ tokensRemaining > 0
           /\ Writer = "student" <=> finish = "running" /\ ~(mode = "relay" /\ tokensRemaining > 0)
           /\ Writer \in {"stopped", "ended", "teacher", "student"}
<1>1. CASE finish = "stop"
  BY <1>1 DEF Writer
<1>2. CASE finish \in {"eos", "length"}
  BY <1>2 DEF Writer
<1>3. CASE finish = "running"
  BY <1>3 DEF Writer, InTakeover
<1> QED
  BY <1>1, <1>2, <1>3 DEF TypeOK

(* The writer of the next state, in the same words.                        *)
LEMMA NextWriterIs ==
    ASSUME TypeOK'
    PROVE  /\ Writer' = "stopped" <=> finish' = "stop"
           /\ Writer' = "ended" <=> finish' \in {"eos", "length"}
           /\ Writer' = "teacher" <=> finish' = "running" /\ mode' = "relay" /\ tokensRemaining' > 0
           /\ Writer' = "student" <=> finish' = "running" /\ ~(mode' = "relay" /\ tokensRemaining' > 0)
           /\ Writer' \in {"stopped", "ended", "teacher", "student"}
<1>1. CASE finish' = "stop"
  BY <1>1 DEF Writer
<1>2. CASE finish' \in {"eos", "length"}
  BY <1>2 DEF Writer
<1>3. CASE finish' = "running"
  BY <1>3 DEF Writer, InTakeover
<1> QED
  BY <1>1, <1>2, <1>3 DEF TypeOK

(* Where every leg is counted, a trigger sets up a budget.                 *)
LEMMA TriggerBudget ==
    ASSUME LegsCounted, TriggerTakeover
    PROVE  tokensRemaining' > 0
<1>1. PICK d \in DraftRows :
         Triggers(d) # {} /\ BeginTakeover(d[FirstOf(Triggers(d))].teacher = "para")
  BY DEF TriggerTakeover
<1> DEFINE e == FirstOf(Triggers(d))
<1>2. d[e].teacher \in TriggerKinds
  BY <1>1, TriggerRowShape
<1>3. ParagraphsPerTakeover > 0 /\ BeginTakeover(d[e].teacher = "para")
  BY <1>1 DEF TriggerTakeover
<1> HIDE DEF e
<1> QED
  BY <1>2, <1>3, CapAssumption, ParagraphsAssumption DEF BeginTakeover, LegsCounted

(* A row that does not use up the budget leaves some of it.                *)
LEMMA RowBudget ==
    ASSUME LegInv, TakeoverRow
    PROVE  tokensRemaining' > 0
<1>1. PICK n \in 1..MaxSpecLen : \E std \in StandardRows(n) :
         LET toks == DropBonus(std, n)
         IN  /\ Exhausted(toks) = {}
             /\ tokensRemaining' = tokensRemaining - Cardinality(DOMAIN toks)
  BY DEF TakeoverRow
<1>2. PICK std \in StandardRows(n) :
         LET toks == DropBonus(std, n)
         IN  /\ Exhausted(toks) = {}
             /\ tokensRemaining' = tokensRemaining - Cardinality(DOMAIN toks)
  BY <1>1
<1> DEFINE toks == DropBonus(std, n)
<1>3. PICK m \in 1..n : DOMAIN toks = 1..m
  BY BonusDropped
<1>4. m \in Nat /\ m \in DOMAIN toks /\ Cardinality(1..m) = m
  BY <1>3, FS_Interval, SpecLenAssumption
<1>5. Exhausted(toks) = {} /\ tokensRemaining' = tokensRemaining - m
  BY <1>2, <1>3, <1>4
<1> HIDE DEF toks
<1>6. ~(m >= tokensRemaining)
  BY <1>4, <1>5 DEF Exhausted
<1> QED
  BY <1>4, <1>5, <1>6, CapAssumption DEF LegInv, TypeOK

(* The teacher's rows never take anything from its leg.                    *)
LEMMA LegExtends ==
    ASSUME LegInv, TakeoverRow \/ EndTakeover
    PROVE  legTokens' >= legTokens /\ legParagraphs' >= legParagraphs
<1>1. PICK out : ExtendLeg(out)
  BY DEF TakeoverRow, EndTakeover
<1>2. /\ TeacherSlots(out) \in SUBSET (1..(MaxSpecLen + 1)) /\ MaxSpecLen + 1 \in Nat
      /\ TeacherBreaks(out) \in SUBSET (1..(MaxSpecLen + 1))
  BY SpecLenAssumption DEF TeacherBreaks, TeacherSlots, Accepted, Emitted, Slots
<1>3. Cardinality(TeacherSlots(out)) \in Nat /\ Cardinality(TeacherBreaks(out)) \in Nat
  BY <1>2, SlotSets
<1> QED
  BY <1>1, <1>3 DEF ExtendLeg, LegInv, TypeOK

(* What leaves something of a sum has not reached it.                      *)
LEMMA LeavesSome ==
    ASSUME NEW a \in Nat, NEW b \in Nat, NEW c, b > 0, a + b = c
    PROVE  a < c /\ ~(a >= c)
OBVIOUS

(* While the teacher has the pen its turn is not used up.                  *)
LEMMA PenKept ==
    ASSUME LegInv', FullInv', finish' = "running", tokensRemaining' > 0
    PROVE  ~Turns!UsedUp'
<1>1. /\ legTokens' + tokensRemaining' = MaxTakeoverTokens + 1
      /\ legParagraphs' + paragraphsRemaining' = ParagraphsPerTakeover
  BY DEF FullInv
<1>2. /\ tokensRemaining' \in Nat /\ paragraphsRemaining' \in Nat /\ paragraphsRemaining' > 0
      /\ legTokens' \in Nat /\ legParagraphs' \in Nat
  BY CapAssumption, ParagraphsAssumption DEF LegInv, TypeOK
<1>3. ~(legTokens' >= MaxTakeoverTokens + 1)
  BY <1>1, <1>2, LeavesSome
<1>4. ~(legParagraphs' >= ParagraphsPerTakeover)
  BY <1>1, <1>2, LeavesSome
<1> QED
  BY <1>3, <1>4 DEF Turns!UsedUp

(* The student has the pen only while turns of the teacher are left.       *)
LEMMA TurnsLeft ==
    ASSUME LegInv', CountInv', mode' = "relay", finish' = "running", tokensRemaining' = 0
    PROVE  legs' < MaxTakeovers
<1>1. /\ completedTakeovers' < MaxTakeovers
      /\ legs' = completedTakeovers' + (IF tokensRemaining' > 0 THEN 1 ELSE 0)
  BY DEF CountInv
<1>2. completedTakeovers' \in Nat
  BY DEF LegInv, TypeOK
<1>3. legs' = completedTakeovers' + 0
  BY <1>1
<1> QED
  BY <1>1, <1>2, <1>3

-----------------------------------------------------------------------------
(* A row that begins and continues no leg is the student's alone.  (The    *)
(* first token would be read as the teacher's if a takeover were on before *)
(* it: that never happens, and no invariant is needed to say so.)          *)
LEMMA TurnPlain ==
    ASSUME LegInv, LegInv', FullInv', FirstToken \/ StudentRow
    PROVE  Turns!StudentWrites \/ Turns!TeacherWrites
<1>1. finish' # "stop"
  BY PlainRow, NoStopFinish DEF Commit
<1>2. /\ finish = "running" /\ mode' = mode /\ tokensRemaining' = tokensRemaining
      /\ legs' = legs /\ legTokens' = legTokens /\ legParagraphs' = legParagraphs
  BY DEF FirstToken, StudentRow, StudentLeg, sampler, history
<1>3. CASE ~(mode = "relay" /\ tokensRemaining > 0)
  <2>1. Writer = "student" /\ Writer' \in {"student", "ended"}
    BY <1>1, <1>2, <1>3, WriterIs, NextWriterIs DEF LegInv
  <2> QED
    BY <1>2, <2>1 DEF Turns!StudentWrites, Turns!turn
<1>4. CASE mode = "relay" /\ tokensRemaining > 0
  <2>1. Writer = "teacher" /\ Writer' \in {"teacher", "ended"}
    BY <1>1, <1>2, <1>4, WriterIs, NextWriterIs DEF LegInv
  <2>2. Writer' = "teacher" => ~Turns!UsedUp'
    BY <1>2, <1>4, PenKept, NextWriterIs DEF LegInv
  <2>3. Turns!PassOn
    BY <2>1, <2>2 DEF Turns!PassOn
  <2>4. /\ legTokens' \in legTokens..(MaxTakeoverTokens + 1)
        /\ legParagraphs' \in legParagraphs..ParagraphsPerTakeover
    BY <1>2, <1>4, CapAssumption, ParagraphsAssumption DEF LegInv, LegBudget, LegBounded, TypeOK
  <2> QED
    BY <1>2, <2>1, <2>3, <2>4 DEF Turns!TeacherWrites
<1> QED
  BY <1>3, <1>4

(* The first divergence of trigger_stop mode ends the response.            *)
LEMMA TurnStop ==
    ASSUME LegsCounted, LegInv, LegInv', TriggerStop
    PROVE  Turns!StopAtDivergence
<1>1. PICK d \in DraftRows :
         Triggers(d) # {} /\ Commit(StoppedRow(d, FirstOf(Triggers(d))))
  BY DEF TriggerStop
<1> DEFINE e == FirstOf(Triggers(d))
           out == StoppedRow(d, e)
<1>2. e + 1 \in Slots /\ out[e + 1].kind = "stop"
  <2>1. e + 1 \in Slots /\ \A i \in Slots : out[i].kind = "stop" <=> i = e + 1
    BY <1>1, StoppedRowShape DEF LegsCounted
  <2> QED
    BY <2>1
<1>3. finish' # "running"
  BY <1>1, <1>2, CommitProperties DEF Commit
<1>4. /\ finish = "running" /\ mode = "trigger_stop" /\ mode' = mode
      /\ legs' = legs /\ legTokens' = legTokens /\ legParagraphs' = legParagraphs
  BY DEF TriggerStop, StudentLeg, history
<1>5. Writer = "student" /\ Writer' \in {"stopped", "ended"}
  BY <1>3, <1>4, WriterIs, NextWriterIs DEF LegInv
<1> QED
  BY <1>4, <1>5 DEF Turns!StopAtDivergence, Turns!turn

(* A trigger in relay mode gives the pen to the teacher while a turn is    *)
(* left; a turn of no paragraphs is over with its first token.             *)
LEMMA TurnBegins ==
    ASSUME LegsCounted, LegInv, LegInv', CountInv, CountInv', FullInv',
           TriggerTakeover \/ TriggerOnly
    PROVE  Turns!TakeOver
<1>1. /\ finish = "running" /\ mode = "relay" /\ mode' = mode /\ ~(tokensRemaining > 0)
  BY DEF TriggerTakeover, TriggerOnly, StudentLeg, InTakeover
<1>2. legs' = legs + 1 /\ legTokens' \in 0..1 /\ legParagraphs' \in 0..legTokens'
  BY LegBegins
<1>3. Writer = "student"
  BY <1>1, WriterIs DEF LegInv
<1>4. legs < MaxTakeovers
  BY <1>1, TakeoversAssumption DEF CountInv, LegInv, TypeOK
<1>5. Turns!PassOn
  <2>1. CASE Writer' = "teacher"
    <3>1. ~Turns!UsedUp'
      BY <2>1, PenKept, NextWriterIs DEF LegInv
    <3> QED
      BY <2>1, <3>1 DEF Turns!PassOn
  <2>2. CASE TriggerTakeover /\ Writer' # "teacher"
    <3>1. finish' # "stop"
      BY <2>2, PlainRow, NoStopFinish DEF Commit
    <3>2. tokensRemaining' > 0
      BY <2>2, TriggerBudget
    <3>3. Writer' = "ended"
      BY <1>1, <2>2, <3>1, <3>2, NextWriterIs DEF LegInv
    <3> QED
      BY <3>3 DEF Turns!PassOn
  <2>3. CASE TriggerOnly
    <3>1. ParagraphsPerTakeover = 0 /\ tokensRemaining' = 0 /\ CountTakeover
      BY <2>3 DEF TriggerOnly, BeginTakeover
    <3>2. Turns!UsedUp'
      BY <1>2, <3>1 DEF Turns!UsedUp
    <3>3. finish' = "running" => legs' < MaxTakeovers
      BY <1>1, <3>1, TurnsLeft
    <3>4. finish' = "stop" => legs' = MaxTakeovers
      BY <1>1, <1>2, <2>3, StopIsLast, TakeoversAssumption
      DEF CountInv, LegInv, TypeOK, LastTakeover
    <3> QED
      BY <1>1, <3>1, <3>2, <3>3, <3>4, NextWriterIs DEF LegInv, Turns!PassOn
  <2> QED
    BY <2>1, <2>2, <2>3
<1> QED
  BY <1>1, <1>2, <1>3, <1>4, <1>5 DEF Turns!TakeOver

(* The teacher's rows: the pen goes on exactly when the turn is used up.   *)
LEMMA TurnGoesOn ==
    ASSUME LegInv, LegInv', CountInv, CountInv', FullInv, FullInv',
           TakeoverRow \/ EndTakeover
    PROVE  Turns!TeacherWrites
<1>1. /\ finish = "running" /\ mode = "relay" /\ mode' = mode /\ tokensRemaining > 0
      /\ legs' = legs
  BY DEF TakeoverRow, EndTakeover, InTakeover, ExtendLeg
<1>2. Writer = "teacher"
  BY <1>1, WriterIs DEF LegInv
<1>3. legTokens' \in legTokens..(MaxTakeoverTokens + 1)
      /\ legParagraphs' \in legParagraphs..ParagraphsPerTakeover
  <2>1. legTokens' >= legTokens /\ legParagraphs' >= legParagraphs
    BY LegExtends
  <2>2. /\ legTokens' <= MaxTakeoverTokens + 1 /\ legParagraphs' <= ParagraphsPerTakeover
        /\ legTokens \in Nat /\ legTokens' \in Nat /\ legParagraphs \in Nat /\ legParagraphs' \in Nat
    BY <1>1 DEF LegInv, LegBudget, LegBounded, TypeOK
  <2> QED
    BY <2>1, <2>2, CapAssumption, ParagraphsAssumption
<1>4. Turns!PassOn
  <2>1. CASE Writer' = "teacher"
    <3>1. ~Turns!UsedUp'
      BY <2>1, PenKept, NextWriterIs DEF LegInv
    <3> QED
      BY <2>1, <3>1 DEF Turns!PassOn
  <2>2. CASE TakeoverRow /\ Writer' # "teacher"
    <3>1. finish' # "stop"
      BY <2>2, PlainRow, NoStopFinish DEF Commit
    <3>2. tokensRemaining' > 0
      BY <2>2, RowBudget
    <3>3. Writer' = "ended"
      BY <1>1, <2>2, <3>1, <3>2, NextWriterIs DEF LegInv
    <3> QED
      BY <3>3 DEF Turns!PassOn
  <2>3. CASE EndTakeover
    <3>1. tokensRemaining' = 0
      BY <2>3 DEF EndTakeover, ClearBudget
    <3>2. finish' \in {"running", "stop"} => Turns!UsedUp'
      <4>1. SUFFICES ASSUME finish' \in {"running", "stop"} PROVE Turns!UsedUp'
        OBVIOUS
      <4>2. legTokens' = MaxTakeoverTokens + 1 \/ legParagraphs' = ParagraphsPerTakeover
        BY <2>3, <4>1, EndsUsedUp
      <4> QED
        BY <4>2, CapAssumption, ParagraphsAssumption DEF Turns!UsedUp
    <3>3. finish' = "running" => legs' < MaxTakeovers
      BY <1>1, <3>1, TurnsLeft
    <3>4. finish' = "stop" => legs' = MaxTakeovers
      BY <1>1, <2>3, StopIsLast, TakeoversAssumption
      DEF CountInv, LegInv, TypeOK, LastTakeover
    <3> QED
      BY <1>1, <3>1, <3>2, <3>3, <3>4, NextWriterIs DEF LegInv, Turns!PassOn
  <2> QED
    BY <2>1, <2>2, <2>3
<1> QED
  BY <1>1, <1>2, <1>3, <1>4 DEF Turns!TeacherWrites

(* While every leg is counted, the sampler implements RelayResponse: every *)
(* engine step is a step of a response that student and teacher write in   *)
(* turns, each turn of the teacher to the end of its budget.               *)
THEOREM ImplementsTurns ==
    ASSUME LegsCounted
    PROVE  Spec => WritesInTurns
<1>1. Init => CountInv /\ FullInv
  BY TakeoversAssumption DEF Init, CountInv, FullInv, StopAfterFullLeg
<1>2. Init => Turns!Init
  BY ModeAssumption DEF Init, Turns!Init, Writer, InTakeover
<1>3. LegInv /\ LegInv' /\ CountInv /\ [Next]_vars => CountInv'
  BY CountInvNext
<1>4. LegInv /\ LegInv' /\ CountInv /\ CountInv' /\ FullInv /\ FullInv' /\ [Next]_vars
          => [Turns!Next]_<<mode, Writer, legs, legTokens, legParagraphs>>
  <2>1. UNCHANGED vars => UNCHANGED <<mode, Writer, legs, legTokens, legParagraphs>>
    BY DEF vars, Writer, InTakeover
  <2> QED
    BY <2>1, TurnPlain, TurnStop, TurnBegins, TurnGoesOn DEF Next, Turns!Next
<1> QED
  BY <1>1, <1>2, <1>3, <1>4, LegInvInit, LegInvNext, FullInvNext, PTL
  DEF Spec, WritesInTurns, Turns!Spec

-----------------------------------------------------------------------------
(***************************************************************************)
(* The student distributions behind the trigger: DraftProbs, the batch of  *)
(* the same patch, drafting K tokens a step.  The sampler has a row for    *)
(* every drafted token, whoever joins, leaves or has drafts cut between    *)
(* two steps.                                                              *)
(***************************************************************************)

(* A set of numbers with 0 and with the successor of each member has all.  *)
LEMMA AllNumbers ==
    ASSUME NEW S \in SUBSET Nat, 0 \in S, \A n \in S : n + 1 \in S
    PROVE  \A n \in Nat : n \in S
<1> SUFFICES ASSUME Nat \ S # {} PROVE FALSE
  OBVIOUS
<1>1. PICK m \in Nat \ S : \A j \in Nat \ S : m <= j
  BY FirstOfLeast
<1>2. m - 1 \in Nat /\ m - 1 + 1 = m /\ ~(m <= m - 1)
  BY <1>1
<1>3. m - 1 \in S
  BY <1>1, <1>2
<1> QED
  BY <1>1, <1>2, <1>3

(* f[i] is what the first i of the sequences s give one after the other.   *)
Joined(f, s, i) == IF i = 1 THEN s[i] ELSE f[i - 1] \o s[i]
Joins(f, s, m) == f = [i \in 1..m |-> Joined(f, s, i)]

(* The recursion that joins sequences has a solution.                      *)
LEMMA JoinExists ==
    ASSUME NEW s
    PROVE  \A m \in Nat : \E f : Joins(f, s, m)
<1> DEFINE S == {m \in Nat : \E f : Joins(f, s, m)}
<1>1. 0 \in S
  <2> DEFINE f == [i \in 1..0 |-> s[i]]
  <2>1. \A i \in 1..0 : FALSE
    OBVIOUS
  <2>2. f = [i \in 1..0 |-> Joined(f, s, i)]
    BY <2>1
  <2>3. Joins(f, s, 0)
    BY <2>2 DEF Joins
  <2> QED
    BY <2>3
<1>2. ASSUME NEW m \in S PROVE m + 1 \in S
  <2>1. PICK g : Joins(g, s, m)
    OBVIOUS
  <2>2. m \in Nat /\ m + 1 \in Nat
    OBVIOUS
  <2> HIDE DEF S
  <2>g. ASSUME NEW i \in 1..m PROVE g[i] = Joined(g, s, i)
    BY <2>1 DEF Joins
  <2> DEFINE new == IF m + 1 = 1 THEN s[m + 1] ELSE g[m] \o s[m + 1]
             f == [i \in 1..(m + 1) |-> IF i = m + 1 THEN new ELSE g[i]]
  <2> HIDE DEF new
  <2>3. f[m + 1] = new /\ \A i \in 1..m : f[i] = g[i]
    <3>1. m + 1 \in 1..(m + 1) /\ \A i \in 1..m : i \in 1..(m + 1) /\ i # m + 1
      BY <2>2
    <3> QED
      BY <3>1
  <2>4. DOMAIN f = 1..(m + 1) /\ f = [i \in 1..(m + 1) |-> f[i]]
    OBVIOUS
  <2>5. ASSUME NEW i \in 1..(m + 1)
        PROVE  f[i] = Joined(f, s, i)
    <3>1. CASE i = m + 1
      <4> HIDE DEF f
      <4>1. CASE i = 1
        <5>1. f[i] = s[i]
          BY <2>3, <3>1, <4>1 DEF new
        <5> QED
          BY <4>1, <5>1 DEF Joined
      <4>2. CASE i # 1
        <5>1. i - 1 = m /\ m \in 1..m
          BY <2>2, <3>1, <4>2
        <5>2. f[i] = g[m] \o s[i]
          BY <2>3, <3>1, <4>2 DEF new
        <5>3. f[i - 1] = g[m]
          BY <2>3, <5>1
        <5>4. Joined(f, s, i) = f[i - 1] \o s[i]
          BY <4>2 DEF Joined
        <5> QED
          BY <5>2, <5>3, <5>4, Zenon
      <4> QED
        BY <4>1, <4>2
    <3>2. CASE i # m + 1
      <4>1. i \in 1..m /\ (i # 1 => i - 1 \in 1..m)
        BY <2>2, <3>2
      <4> HIDE DEF f
      <4> QED
        BY <2>g, <2>3, <4>1 DEF Joined
    <3> QED
      BY <3>1, <3>2
  <2> HIDE DEF f
  <2>6. Joins(f, s, m + 1)
    BY <2>4, <2>5 DEF Joins
  <2> QED
    BY <2>2, <2>6 DEF S
<1> HIDE DEF S
<1>3. \A m \in Nat : m \in S
  <2>1. S \in SUBSET Nat
    BY DEF S
  <2> QED
    BY <1>1, <1>2, <2>1, AllNumbers
<1> QED
  BY <1>3 DEF S

(* Joining sequences over X gives one, and its length is the sum w of the  *)
(* lengths.                                                                *)
LEMMA FlattenLength ==
    ASSUME NEW X, NEW s \in Seq(Seq(X))
    PROVE  /\ FlattenSeq(s) \in Seq(X)
           /\ \E w \in [0..Len(s) -> Nat] :
                /\ w[0] = 0 /\ w[Len(s)] = Len(FlattenSeq(s))
                /\ \A i \in 1..Len(s) : w[i] = w[i - 1] + Len(s[i])
<1> DEFINE n == Len(s)
<1>1. n \in Nat /\ \A i \in 1..n : s[i] \in Seq(X) /\ Len(s[i]) \in Nat
  BY LenProperties, ElementOfSeq
<1>2. CASE n = 0
  <2>1. s = <<>> /\ FlattenSeq(s) = <<>> /\ Len(<<>>) = 0
    BY <1>2, EmptySeq DEF FlattenSeq
  <2> DEFINE w == [i \in 0..0 |-> 0]
  <2>2. w \in [0..0 -> Nat] /\ w[0] = 0
    OBVIOUS
  <2> HIDE DEF w
  <2>3. \A i \in 1..0 : FALSE
    OBVIOUS
  <2> QED
    BY <1>2, <2>1, <2>2, <2>3
<1>3. CASE n # 0
  <2>1. \E f : Joins(f, s, n)
    BY <1>1, JoinExists
  <2> DEFINE f == CHOOSE f : f = [i \in 1..n |-> IF i = 1 THEN s[i] ELSE f[i - 1] \o s[i]]
  <2>2. Joins(f, s, n)
    BY <2>1 DEF Joins, Joined
  <2>3. FlattenSeq(s) = f[n]
    BY <1>3 DEF FlattenSeq
  <2> HIDE DEF f
  <2>4. ASSUME NEW i \in 1..n PROVE f[i] = IF i = 1 THEN s[i] ELSE f[i - 1] \o s[i]
    BY <2>2 DEF Joins, Joined
  <2> HIDE DEF n
  <2>5. \A i \in 1..n : f[i] \in Seq(X)
    <3> DEFINE S == {m \in Nat : m \in 1..n => f[m] \in Seq(X)}
    <3>1. 0 \in S
      OBVIOUS
    <3>2. ASSUME NEW m \in S PROVE m + 1 \in S
      <4> SUFFICES ASSUME m + 1 \in 1..n PROVE f[m + 1] \in Seq(X)
        OBVIOUS
      <4>1. CASE m = 0
        BY <1>1, <2>4, <4>1
      <4>2. CASE m # 0
        <5>1. m \in 1..n /\ m + 1 # 1 /\ m + 1 - 1 = m
          BY <1>1, <4>2
        <5>2. f[m + 1] = f[m] \o s[m + 1]
          <6>1. f[m + 1] = IF m + 1 = 1 THEN s[m + 1] ELSE f[m + 1 - 1] \o s[m + 1]
            BY <2>4
          <6> QED
            BY <5>1, <6>1
        <5>3. f[m] \in Seq(X) /\ s[m + 1] \in Seq(X)
          BY <1>1, <5>1
        <5> QED
          BY <5>2, <5>3, ConcatProperties
      <4> QED
        BY <4>1, <4>2
    <3> HIDE DEF S
    <3>3. \A m \in Nat : m \in S
      <4>1. S \in SUBSET Nat
        BY DEF S
      <4> QED
        BY <3>1, <3>2, <4>1, AllNumbers
    <3> QED
      BY <1>1, <3>3 DEF S
  <2> DEFINE w == [i \in 0..n |-> IF i = 0 THEN 0 ELSE Len(f[i])]
  <2>6. /\ w[0] = 0 /\ \A i \in 1..n : w[i] = Len(f[i])
    BY <1>1
  <2>7. w \in [0..n -> Nat]
    <3>1. \A i \in 0..n : i # 0 => i \in 1..n
      BY <1>1
    <3>2. \A i \in 1..n : Len(f[i]) \in Nat
      BY <2>5, LenProperties
    <3> QED
      BY <3>1, <3>2
  <2> HIDE DEF w
  <2>8. ASSUME NEW i \in 1..n PROVE w[i] = w[i - 1] + Len(s[i])
    <3>1. CASE i = 1
      <4>1. f[i] = s[i] /\ i - 1 = 0
        BY <2>4, <3>1
      <4> QED
        BY <1>1, <2>6, <4>1
    <3>2. CASE i # 1
      <4>1. i - 1 \in 1..n
        BY <1>1, <3>2
      <4>2. f[i] = f[i - 1] \o s[i] /\ f[i - 1] \in Seq(X) /\ s[i] \in Seq(X)
        BY <1>1, <2>4, <2>5, <3>2, <4>1
      <4>3. Len(f[i]) = Len(f[i - 1]) + Len(s[i])
        BY <4>2, ConcatProperties
      <4> QED
        BY <2>6, <4>1, <4>3
    <3> QED
      BY <3>1, <3>2
  <2>9. n \in 1..n
    BY <1>1, <1>3
  <2>10. w[n] = Len(FlattenSeq(s)) /\ FlattenSeq(s) \in Seq(X)
    BY <2>3, <2>5, <2>6, <2>9
  <2> QED
    BY <2>6, <2>7, <2>8, <2>10 DEF n
<1> QED
  BY <1>2, <1>3


(* A function on 1..n is a sequence of length n.                           *)
LEMMA FunctionSeq ==
    ASSUME NEW S, NEW n \in Nat, NEW q \in [1..n -> S]
    PROVE  q \in Seq(S) /\ Len(q) = n
<1>1. q \in Seq(S)
  BY SeqDef
<1>2. Len(q) \in Nat /\ 1..Len(q) = 1..n
  BY <1>1, LenProperties
<1>3. \A i \in Nat : 1 <= i /\ i <= Len(q) <=> 1 <= i /\ i <= n
  BY <1>2
<1> QED
  BY <1>1, <1>2, <1>3

(* A row of student distributions, and the rows of a batch.                *)
Origin == Requests \X Nat
RowsOf(order, n) == [i \in DOMAIN order |-> [j \in 1..n[order[i]] |-> <<order[i], j>>]]

(* Every request of a batch has as many rows as it has drafts.             *)
LEMMA RowsShape ==
    ASSUME NEW order \in Seq(Requests), NEW n \in [Requests -> Nat]
    PROVE  /\ RowsOf(order, n) \in Seq(Seq(Origin)) /\ Len(RowsOf(order, n)) = Len(order)
           /\ Len(order) \in Nat
           /\ \A i \in 1..Len(order) : order[i] \in Requests
           /\ \A i \in 1..Len(order) : Len(RowsOf(order, n)[i]) = n[order[i]]
<1> DEFINE s == RowsOf(order, n)
<1>1. /\ Len(order) \in Nat /\ DOMAIN order = 1..Len(order)
      /\ \A i \in 1..Len(order) : order[i] \in Requests
  BY LenProperties, ElementOfSeq
<1>2. ASSUME NEW i \in 1..Len(order)
      PROVE  s[i] \in Seq(Origin) /\ Len(s[i]) = n[order[i]]
  <2> DEFINE t == [j \in 1..n[order[i]] |-> <<order[i], j>>]
  <2>1. s[i] = t
    BY <1>1 DEF RowsOf
  <2>2. n[order[i]] \in Nat
    BY <1>1
  <2>3. t \in [1..n[order[i]] -> Origin]
    BY <1>1, <2>2 DEF Origin
  <2> HIDE DEF t
  <2>4. t \in Seq(Origin) /\ Len(t) = n[order[i]]
    BY <2>2, <2>3, FunctionSeq
  <2> QED
    BY <2>1, <2>4
<1>3. s \in [1..Len(order) -> Seq(Origin)]
  <2>1. s = [i \in 1..Len(order) |-> s[i]]
    BY <1>1 DEF RowsOf
  <2> HIDE DEF s
  <2> QED
    BY <1>2, <2>1
<1> HIDE DEF s
<1>4. s \in Seq(Seq(Origin)) /\ Len(s) = Len(order)
  BY <1>1, <1>3, FunctionSeq
<1> QED
  BY <1>1, <1>2, <1>4 DEF s

(* Flattening a batch adds up the drafts of its requests.                  *)
LEMMA FlattenBatch ==
    ASSUME NEW order \in Seq(Requests), NEW n \in [Requests -> Nat]
    PROVE  /\ Flatten(order, n) \in Seq(Origin)
           /\ \E w \in [0..Len(order) -> Nat] :
                /\ w[0] = 0 /\ w[Len(order)] = Len(Flatten(order, n))
                /\ \A i \in 1..Len(order) : w[i] = w[i - 1] + n[order[i]]
<1> DEFINE s == RowsOf(order, n)
<1>1. Flatten(order, n) = FlattenSeq(s)
  BY DEF Flatten, RowsOf
<1>2. /\ s \in Seq(Seq(Origin)) /\ Len(s) = Len(order)
      /\ \A i \in 1..Len(order) : Len(s[i]) = n[order[i]]
  BY RowsShape
<1> HIDE DEF s
<1>3. /\ FlattenSeq(s) \in Seq(Origin)
      /\ \E w \in [0..Len(s) -> Nat] :
            /\ w[0] = 0 /\ w[Len(s)] = Len(FlattenSeq(s))
            /\ \A i \in 1..Len(s) : w[i] = w[i - 1] + Len(s[i])
  BY <1>2, FlattenLength
<1>4. PICK w \in [0..Len(s) -> Nat] :
            /\ w[0] = 0 /\ w[Len(s)] = Len(FlattenSeq(s))
            /\ \A i \in 1..Len(s) : w[i] = w[i - 1] + Len(s[i])
  BY <1>3
<1>5. ASSUME NEW i \in 1..Len(order) PROVE w[i] = w[i - 1] + n[order[i]]
  BY <1>2, <1>4
<1>6. /\ w \in [0..Len(order) -> Nat] /\ w[0] = 0
      /\ w[Len(order)] = Len(Flatten(order, n))
  BY <1>1, <1>2, <1>4
<1> QED
  BY <1>1, <1>3, <1>5, <1>6

(* Products grow with a factor.                                            *)
LEMMA Times ==
    ASSUME NEW a \in Nat, NEW b \in Nat, NEW c \in Nat
    PROVE  /\ a * b \in Nat /\ a * (b + 1) = a * b + a /\ a * 0 = 0
           /\ b <= c => a * b <= a * c
OBVIOUS

(* The proposer keeps K rows of every request.                             *)
LEMMA StackedLength ==
    ASSUME NEW order \in Seq(Requests)
    PROVE  /\ Stacked(order) \in Seq(Origin) /\ Len(order) \in Nat
           /\ Len(Stacked(order)) = K * Len(order)
<1> DEFINE n == [r \in Requests |-> K]
<1>1. n \in [Requests -> Nat] /\ K \in Nat /\ Len(order) \in Nat
  BY KAssumption, LenProperties
<1>2. Stacked(order) = Flatten(order, n)
  BY DEF Stacked
<1>3. \A i \in 1..Len(order) : n[order[i]] = K
  BY ElementOfSeq
<1> HIDE DEF n
<1>4. PICK w \in [0..Len(order) -> Nat] :
            /\ w[0] = 0 /\ w[Len(order)] = Len(Flatten(order, n))
            /\ \A i \in 1..Len(order) : w[i] = w[i - 1] + n[order[i]]
  BY <1>1, FlattenBatch
<1> DEFINE S == {m \in Nat : m <= Len(order) => w[m] = K * m}
<1>5. 0 \in S
  BY <1>1, <1>4, Times
<1>6. ASSUME NEW m \in S PROVE m + 1 \in S
  <2>1. m \in Nat /\ m + 1 \in Nat
    OBVIOUS
  <2> SUFFICES ASSUME m + 1 <= Len(order) PROVE w[m + 1] = K * (m + 1)
    BY <2>1
  <2>2. m <= Len(order) /\ m + 1 \in 1..Len(order) /\ m + 1 - 1 = m
    BY <1>1, <2>1
  <2>3. w[m + 1] = w[m] + K
    BY <1>3, <1>4, <2>2
  <2>4. w[m] = K * m
    BY <2>2
  <2> QED
    BY <1>1, <2>1, <2>3, <2>4, Times
<1> HIDE DEF S
<1>7. Len(order) \in S
  <2>1. S \in SUBSET Nat
    BY DEF S
  <2> QED
    BY <1>1, <1>5, <1>6, <2>1, AllNumbers
<1>8. w[Len(order)] = K * Len(order)
  BY <1>1, <1>7 DEF S
<1> QED
  BY <1>1, <1>2, <1>4, <1>8, FlattenBatch

(* The requests with drafts.                                               *)
Held == {r \in Requests : drafts[r] > 0}

(* A request is in the batch once, and has at most K drafts.               *)
BatchInv ==
    /\ batch \in Seq(Requests)
    /\ \A i, j \in 1..Len(batch) : batch[i] = batch[j] => i = j
    /\ \A i \in 1..Len(batch) : batch[i] \notin waiting
    /\ drafts \in [Requests -> 0..K]

(* K rows are kept for every request that still has drafts.                *)
KeptInv ==
    /\ probs \in Seq(Origin)
    /\ IsFiniteSet(Held) /\ K * Cardinality(Held) <= Len(probs)

(* A batch has at most K drafted tokens for every request that             *)
(* has any.                                                                *)
LEMMA DraftedLength ==
    ASSUME BatchInv, IsFiniteSet(Held)
    PROVE  /\ Flatten(batch, drafts) \in Seq(Origin)
           /\ Len(Flatten(batch, drafts)) <= K * Cardinality(Held)
<1>1. /\ batch \in Seq(Requests) /\ Len(batch) \in Nat /\ K \in Nat
      /\ drafts \in [Requests -> 0..K] /\ drafts \in [Requests -> Nat]
      /\ \A i, j \in 1..Len(batch) : batch[i] = batch[j] => i = j
      /\ \A i \in 1..Len(batch) : batch[i] \in Requests
  BY LenProperties, ElementOfSeq, KAssumption DEF BatchInv
<1>2. Flatten(batch, drafts) \in Seq(Origin)
  BY <1>1, FlattenBatch
<1>3. PICK w \in [0..Len(batch) -> Nat] :
            /\ w[0] = 0 /\ w[Len(batch)] = Len(Flatten(batch, drafts))
            /\ \A i \in 1..Len(batch) : w[i] = w[i - 1] + drafts[batch[i]]
  BY <1>1, FlattenBatch
<1> DEFINE Upto(m) == {r \in Held : \E i \in 1..m : batch[i] = r}
<1>4. \A m \in Nat : IsFiniteSet(Upto(m)) /\ Cardinality(Upto(m)) \in Nat
                     /\ Cardinality(Upto(m)) <= Cardinality(Held)
  <2> SUFFICES ASSUME NEW m \in Nat
               PROVE  IsFiniteSet(Upto(m)) /\ Cardinality(Upto(m)) \in Nat
                      /\ Cardinality(Upto(m)) <= Cardinality(Held)
    OBVIOUS
  <2>1. Upto(m) \in SUBSET Held
    OBVIOUS
  <2> HIDE DEF Upto
  <2> QED
    BY <2>1, FS_Subset, FS_CardinalityType
<1> DEFINE S == {m \in Nat : m <= Len(batch) => w[m] <= K * Cardinality(Upto(m))}
<1>5. 0 \in S
  <2>1. Cardinality(Upto(0)) \in Nat
    BY <1>4
  <2> HIDE DEF Upto
  <2>2. K * Cardinality(Upto(0)) \in Nat
    BY <1>1, <2>1, Times
  <2> QED
    BY <1>3, <2>2
<1>6. ASSUME NEW m \in S PROVE m + 1 \in S
  <2>1. m \in Nat /\ m + 1 \in Nat
    OBVIOUS
  <2> SUFFICES ASSUME m + 1 <= Len(batch)
               PROVE  w[m + 1] <= K * Cardinality(Upto(m + 1))
    BY <2>1
  <2> DEFINE r == batch[m + 1]
  <2>2. m <= Len(batch) /\ m + 1 \in 1..Len(batch) /\ m + 1 - 1 = m /\ m \in 0..Len(batch)
    BY <1>1, <2>1
  <2>3. w[m] <= K * Cardinality(Upto(m))
    BY <2>2
  <2>4. w[m + 1] = w[m] + drafts[r] /\ w[m] \in Nat /\ drafts[r] \in 0..K /\ r \in Requests
    BY <1>1, <1>3, <2>2
  <2>5. /\ Cardinality(Upto(m)) \in Nat /\ Cardinality(Upto(m + 1)) \in Nat
        /\ IsFiniteSet(Upto(m)) /\ IsFiniteSet(Upto(m + 1))
    BY <1>4, <2>1
  <2>6. CASE r \in Held
    <3>1. r \notin Upto(m)
      <4>1. \A i \in 1..m : i \in 1..Len(batch) /\ i # m + 1
        BY <1>1, <2>1, <2>2
      <4> QED
        BY <1>1, <2>2, <4>1
    <3>2. Upto(m + 1) = Upto(m) \cup {r}
      <4>1. \A i : i \in 1..(m + 1) <=> i \in 1..m \/ i = m + 1
        BY <2>1
      <4> QED
        BY <2>6, <4>1
    <3> HIDE DEF Upto, r, S
    <3>3. Cardinality(Upto(m + 1)) = Cardinality(Upto(m)) + 1
      BY <2>5, <3>1, <3>2, FS_AddElement
    <3>4. PICK c \in Nat : c = Cardinality(Upto(m))
      BY <2>5
    <3>5. K * Cardinality(Upto(m + 1)) = K * c + K /\ K * c \in Nat
      BY <1>1, <3>3, <3>4, Times
    <3> QED
      BY <1>1, <2>3, <2>4, <3>4, <3>5
  <2>7. CASE r \notin Held
    <3>1. drafts[r] = 0
      BY <1>1, <2>4, <2>7 DEF Held
    <3>2. Upto(m) \in SUBSET Upto(m + 1)
      BY <2>1
    <3> HIDE DEF Upto, r, S
    <3>3. Cardinality(Upto(m)) <= Cardinality(Upto(m + 1))
      BY <2>5, <3>2, FS_Subset
    <3>4. K * Cardinality(Upto(m)) <= K * Cardinality(Upto(m + 1))
      BY <1>1, <2>5, <3>3, Times
    <3>5. K * Cardinality(Upto(m)) \in Nat /\ K * Cardinality(Upto(m + 1)) \in Nat
      BY <1>1, <2>5, Times
    <3> QED
      BY <2>3, <2>4, <3>1, <3>4, <3>5
  <2> QED
    BY <2>6, <2>7
<1> HIDE DEF S, Upto
<1>7. Len(batch) \in S
  <2>1. S \in SUBSET Nat
    BY DEF S
  <2> QED
    BY <1>1, <1>5, <1>6, <2>1, AllNumbers
<1>8. w[Len(batch)] <= K * Cardinality(Upto(Len(batch))) /\ w[Len(batch)] \in Nat
  BY <1>1, <1>3, <1>7 DEF S
<1>9. /\ Cardinality(Upto(Len(batch))) \in Nat /\ Cardinality(Held) \in Nat
      /\ Cardinality(Upto(Len(batch))) <= Cardinality(Held)
  BY <1>1, <1>4, FS_CardinalityType
<1>10. /\ K * Cardinality(Upto(Len(batch))) <= K * Cardinality(Held)
       /\ K * Cardinality(Upto(Len(batch))) \in Nat /\ K * Cardinality(Held) \in Nat
  BY <1>1, <1>9, Times
<1> QED
  BY <1>2, <1>3, <1>8, <1>10


(* A new request joins the end of the batch.                               *)
LEMMA AdmitStep ==
    ASSUME BatchInv, NEW r \in Requests, Admit(r)
    PROVE  BatchInv'
<1>1. /\ r \in waiting /\ batch' = Append(batch, r) /\ waiting' = waiting \ {r} /\ drafts' = drafts
  BY DEF Admit
<1>2. /\ batch' \in Seq(Requests) /\ Len(batch') = Len(batch) + 1 /\ Len(batch) \in Nat
      /\ batch'[Len(batch) + 1] = r
      /\ \A k \in 1..Len(batch) : batch'[k] = batch[k]
  BY <1>1, AppendProperties, LenProperties DEF BatchInv
<1>3. \A k \in 1..Len(batch') : k \in 1..Len(batch) \/ k = Len(batch) + 1
  BY <1>2
<1>4. /\ \A i, j \in 1..Len(batch) : batch[i] = batch[j] => i = j
      /\ \A i \in 1..Len(batch) : batch[i] \notin waiting
  BY DEF BatchInv
<1>5. ASSUME NEW i \in 1..Len(batch'), NEW j \in 1..Len(batch'), batch'[i] = batch'[j] PROVE i = j
  BY <1>1, <1>2, <1>3, <1>4, <1>5
<1>6. ASSUME NEW i \in 1..Len(batch') PROVE batch'[i] \notin waiting'
  BY <1>1, <1>2, <1>3, <1>4
<1> QED
  BY <1>1, <1>2, <1>5, <1>6 DEF BatchInv

(* The last request moves into the place of one that leaves.               *)
LEMMA LeaveStep ==
    ASSUME BatchInv, NEW i \in DOMAIN batch, Leave(i)
    PROVE  BatchInv' /\ Held' \subseteq Held
<1> DEFINE n == Len(batch)
           moved == [batch EXCEPT ![i] = batch[n]]
<1>1. /\ batch \in Seq(Requests) /\ n \in Nat /\ DOMAIN batch = 1..n
      /\ batch \in [1..n -> Requests]
      /\ drafts \in [Requests -> 0..K]
      /\ \A j, k \in 1..n : batch[j] = batch[k] => j = k
      /\ \A k \in 1..n : batch[k] \notin waiting
  BY LenProperties DEF BatchInv
<1>2. /\ batch' = SubSeq(moved, 1, n - 1) /\ waiting' = waiting
      /\ drafts' = [drafts EXCEPT ![batch[i]] = 0]
  BY DEF Leave, Condense, Last
<1>3. i \in 1..n /\ n \in 1..n /\ n - 1 \in Nat /\ n - 1 <= n
  BY <1>1
<1>4. /\ moved \in [1..n -> Requests]
      /\ \A k \in 1..n : moved[k] = IF k = i THEN batch[n] ELSE batch[k]
  BY <1>1, <1>3
<1> HIDE DEF n, moved
<1>5. moved \in Seq(Requests) /\ Len(moved) = n
  BY <1>1, <1>4, FunctionSeq
<1>6. /\ batch' \in Seq(Requests)
      /\ Len(batch') = IF 1 <= n - 1 THEN n - 1 - 1 + 1 ELSE 0
      /\ \A k \in 1..(n - 1 - 1 + 1) : batch'[k] = moved[1 + k - 1]
  <2>1. \A k \in 1..(n - 1) : moved[k] \in Requests
    BY <1>1, <1>4
  <2> QED
    BY <1>2, <1>3, <1>5, <2>1, SubSeqProperties
<1>7. Len(batch') = n - 1
  BY <1>3, <1>6
<1>8. ASSUME NEW k \in 1..Len(batch')
      PROVE  k \in 1..n /\ k # n /\ batch'[k] = IF k = i THEN batch[n] ELSE batch[k]
  <2>1. k \in 1..n /\ k # n /\ k \in 1..(n - 1 - 1 + 1) /\ 1 + k - 1 = k
    BY <1>3, <1>7
  <2>2. batch'[k] = moved[k]
    BY <1>6, <2>1
  <2> QED
    BY <1>4, <2>1, <2>2
<1>9. ASSUME NEW j \in 1..Len(batch'), NEW k \in 1..Len(batch'), batch'[j] = batch'[k] PROVE j = k
  BY <1>1, <1>3, <1>8, <1>9
<1>10. ASSUME NEW k \in 1..Len(batch') PROVE batch'[k] \notin waiting'
  BY <1>1, <1>2, <1>3, <1>8
<1>11. drafts' \in [Requests -> 0..K]
  BY <1>1, <1>2, KAssumption
<1>12. Held' \subseteq Held
  BY <1>1, <1>2 DEF Held
<1> QED
  BY <1>6, <1>9, <1>10, <1>11, <1>12 DEF BatchInv

(* The scheduler only takes drafts away.                                   *)
LEMMA TrimStep ==
    ASSUME BatchInv, NEW i \in DOMAIN batch, Trim(i)
    PROVE  BatchInv' /\ Held' \subseteq Held
<1>1. /\ batch' = batch /\ waiting' = waiting /\ drafts[batch[i]] > 0
      /\ drafts' = [drafts EXCEPT ![batch[i]] = drafts[batch[i]] - 1]
  BY DEF Trim
<1>2. drafts \in [Requests -> 0..K] /\ batch[i] \in Requests
  BY LenProperties, ElementOfSeq DEF BatchInv
<1>3. drafts[batch[i]] - 1 \in 0..K
  BY <1>1, <1>2, KAssumption
<1>4. drafts' \in [Requests -> 0..K]
  BY <1>1, <1>2, <1>3
<1>5. Held' \subseteq Held
  BY <1>1, <1>2 DEF Held
<1> QED
  BY <1>1, <1>4, <1>5 DEF BatchInv

(* The proposer keeps rows for the requests it drafts for.                 *)
LEMMA ProposeStep ==
    ASSUME BatchInv, Propose
    PROVE  BatchInv' /\ KeptInv'
<1>1. /\ batch \in Seq(Requests) /\ Len(batch) \in Nat /\ DOMAIN batch = 1..Len(batch)
      /\ \A i \in 1..Len(batch) : batch[i] \in Requests
      /\ K \in Nat /\ K > 0
  BY LenProperties, ElementOfSeq, KAssumption DEF BatchInv
<1>2. /\ batch' = batch /\ waiting' = waiting /\ probs' = Stacked(batch)
      /\ drafts' = [r \in Requests |-> IF \E i \in DOMAIN batch : batch[i] = r THEN K ELSE 0]
  BY DEF Propose
<1>3. drafts' \in [Requests -> 0..K]
  BY <1>1, <1>2
<1>4. probs' \in Seq(Origin) /\ Len(probs') = K * Len(batch)
  BY <1>1, <1>2, StackedLength
<1> DEFINE T == {r \in Requests : \E i \in 1..Len(batch) : batch[i] = r}
<1>5. Held' = T
  BY <1>1, <1>2 DEF Held
<1>6. IsFiniteSet(T) /\ Cardinality(T) <= Len(batch)
  <2>1. batch \in [1..Len(batch) -> T]
    BY <1>1, LenProperties
  <2>2. batch \in Surjection(1..Len(batch), T)
    BY <2>1 DEF Surjection
  <2> HIDE DEF T
  <2>3. IsFiniteSet(1..Len(batch)) /\ Cardinality(1..Len(batch)) = Len(batch)
    <3>1. /\ IsFiniteSet(1..Len(batch))
          /\ Cardinality(1..Len(batch)) = IF 1 > Len(batch) THEN 0 ELSE Len(batch) - 1 + 1
      BY <1>1, FS_Interval
    <3> QED
      BY <1>1, <3>1
  <2> QED
    BY <2>2, <2>3, FS_Surjection
<1> HIDE DEF T
<1>7. K * Cardinality(T) <= Len(probs')
  BY <1>1, <1>4, <1>6, FS_CardinalityType, Times
<1>8. BatchInv'
  BY <1>2, <1>3 DEF BatchInv
<1>9. KeptInv'
  BY <1>4, <1>5, <1>6, <1>7 DEF KeptInv
<1> QED
  BY <1>8, <1>9

(* The sampler finds a row for every drafted token.                        *)
LEMMA SampleStep ==
    ASSUME BatchInv, KeptInv, Sample
    PROVE  EveryTokenHasARow'
<1> DEFINE toks == Flatten(batch, drafts)
<1>1. paired' = [i \in DOMAIN toks |->
                    [token |-> toks[i], row |-> IF i \in DOMAIN probs THEN probs[i] ELSE <<>>]]
  BY DEF Sample
<1>2. toks \in Seq(Origin) /\ Len(toks) <= K * Cardinality(Held)
  BY DraftedLength DEF KeptInv
<1>3. /\ probs \in Seq(Origin) /\ K * Cardinality(Held) <= Len(probs)
      /\ Cardinality(Held) \in Nat /\ K \in Nat
  BY FS_CardinalityType, KAssumption DEF KeptInv
<1> HIDE DEF toks
<1>4. /\ Len(toks) \in Nat /\ Len(probs) \in Nat /\ K * Cardinality(Held) \in Nat
      /\ DOMAIN toks = 1..Len(toks) /\ DOMAIN probs = 1..Len(probs)
  BY <1>2, <1>3, LenProperties, Times
<1>5. Len(toks) <= Len(probs)
  BY <1>2, <1>3, <1>4
<1>6. ASSUME NEW i \in DOMAIN paired' PROVE paired'[i].row # <<>>
  <2>1. i \in DOMAIN toks
    BY <1>1
  <2>2. i \in 1..Len(probs) /\ i \in DOMAIN probs
    BY <1>4, <1>5, <2>1
  <2>3. paired'[i].row = probs[i]
    BY <1>1, <2>1, <2>2
  <2>4. PICK o : o = probs[i]
    OBVIOUS
  <2>5. o \in Requests \X Nat
    BY <1>3, <2>2, <2>4, ElementOfSeq DEF Origin
  <2>6. o # <<>>
    BY <2>5
  <2> QED
    BY <2>3, <2>4, <2>6
<1> QED
  BY <1>6 DEF EveryTokenHasARow

(* However requests come, go and are cut, for any number of them and any   *)
(* number of drafts: the sampler has a kept row for every drafted token    *)
(* (draft_probs[:n] in _patched_sample).                                   *)
THEOREM RowForEveryToken == DraftsSpec => []EveryTokenHasARow
<1> DEFINE Inv == BatchInv /\ KeptInv /\ EveryTokenHasARow
<1>1. DraftsInit => Inv
  <2> SUFFICES ASSUME DraftsInit PROVE Inv
    OBVIOUS
  <2>1. /\ batch = <<>> /\ drafts = [r \in Requests |-> 0] /\ probs = <<>> /\ paired = <<>>
    BY DEF DraftsInit
  <2>2. Len(<<>>) = 0 /\ DOMAIN <<>> = {}
    OBVIOUS
  <2>3. BatchInv
    BY <2>1, <2>2, KAssumption DEF BatchInv
  <2>4. Held = {}
    BY <2>1 DEF Held
  <2>5. KeptInv
    BY <2>1, <2>2, <2>4, FS_EmptySet, KAssumption, Times DEF KeptInv
  <2>6. EveryTokenHasARow
    BY <2>1, <2>2 DEF EveryTokenHasARow
  <2> QED
    BY <2>3, <2>5, <2>6
<1>2. Inv /\ [DraftsNext]_draftsVars => Inv'
  <2> SUFFICES ASSUME Inv, [DraftsNext]_draftsVars PROVE Inv'
    OBVIOUS
  <2>0. ASSUME probs' = probs, Held' \subseteq Held PROVE KeptInv'
    <3>1. /\ IsFiniteSet(Held) /\ K * Cardinality(Held) <= Len(probs)
          /\ K \in Nat /\ Len(probs) \in Nat /\ probs \in Seq(Origin)
      BY LenProperties, KAssumption DEF KeptInv
    <3>2. IsFiniteSet(Held') /\ Cardinality(Held') <= Cardinality(Held)
      BY <2>0, <3>1, FS_Subset
    <3>3. Cardinality(Held') \in Nat /\ Cardinality(Held) \in Nat
      BY <3>1, <3>2, FS_CardinalityType
    <3>4. /\ K * Cardinality(Held') <= K * Cardinality(Held)
          /\ K * Cardinality(Held') \in Nat /\ K * Cardinality(Held) \in Nat
      BY <3>1, <3>2, <3>3, Times
    <3> QED
      BY <2>0, <3>1, <3>2, <3>4 DEF KeptInv
  <2>1. ASSUME NEW r \in Requests, Admit(r) PROVE Inv'
    <3>1. probs' = probs /\ drafts' = drafts /\ paired' = paired
      BY <2>1 DEF Admit
    <3>2. Held' = Held /\ EveryTokenHasARow'
      BY <3>1 DEF Held, EveryTokenHasARow
    <3> QED
      BY <2>0, <2>1, <3>1, <3>2, AdmitStep
  <2>2. ASSUME NEW i \in DOMAIN batch, Leave(i) \/ Trim(i) PROVE Inv'
    <3>1. probs' = probs /\ paired' = paired
      BY <2>2 DEF Leave, Trim
    <3>2. EveryTokenHasARow'
      BY <3>1 DEF EveryTokenHasARow
    <3> QED
      BY <2>0, <2>2, <3>1, <3>2, LeaveStep, TrimStep
  <2>3. CASE Sample
    <3>1. UNCHANGED <<batch, drafts, probs, waiting>>
      BY <2>3 DEF Sample
    <3>2. BatchInv' /\ KeptInv'
      BY <3>1 DEF BatchInv, KeptInv, Held
    <3> QED
      BY <2>3, <3>2, SampleStep
  <2>4. CASE Propose
    <3>1. EveryTokenHasARow'
      BY <2>4 DEF Propose, EveryTokenHasARow
    <3> QED
      BY <2>4, <3>1, ProposeStep
  <2>5. CASE Execute \/ UNCHANGED draftsVars
    <3>1. UNCHANGED <<batch, drafts, probs, paired, waiting>>
      BY <2>5 DEF Execute, draftsVars
    <3> QED
      BY <3>1 DEF BatchInv, KeptInv, Held, EveryTokenHasARow
  <2> QED
    BY <2>1, <2>2, <2>3, <2>4, <2>5 DEF DraftsNext
<1> QED
  BY <1>1, <1>2, PTL DEF DraftsSpec

=============================================================================
