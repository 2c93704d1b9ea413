-------------------------- MODULE CheckpointProofs --------------------------
(***************************************************************************)
(* Proofs about Checkpoint for any retention limits, save frequency,       *)
(* number of versions and number of crashes: what the tracker names can be *)
(* loaded unless a limit is 1, a restart continues from the last save that *)
(* returned, and a life of the program leaves a bounded number of          *)
(* checkpoints behind.                                                     *)
(***************************************************************************)
EXTENDS Checkpoint, FiniteSetTheorems, FunctionTheorems, SequenceTheorems, TLAPS

(* The state of a part on the disk, the steps of a save.                   *)
Files == {"absent", "partial", "complete"}
Statuses == {"up", "down", "failed", "done"}

Types ==
    /\ keep \in Retention
    /\ status \in Statuses
    /\ version \in 0..LastVersion
    /\ lastCkpt \in 0..LastVersion
    /\ step \in {"train", "tracker"} \cup Parts
    /\ open \in BOOLEAN
    /\ paths \in [Managed -> Seq(Versions)]
    /\ disk \in [Parts -> [Versions -> Files]]
    /\ folders \in SUBSET Versions
    /\ tracker \in Versions \cup {Absent, Torn}
    /\ saved \in 0..LastVersion
    /\ crashes \in 0..MaxCrashes

(* A running program knows what it has saved, and the tracker names it     *)
(* except between the two steps of writing it.                             *)
LifeInv ==
    /\ status \in {"up", "done"} => lastCkpt = saved
    /\ saved <= version
    /\ step # "train" => status = "up" /\ saved < version
    /\ open => step # "train"
    /\ status = "down" => \A p \in Managed : paths[p] = <<>>
    /\ tracker = saved \/ (tracker = Torn /\ (status \in {"up", "done"} => step = "tracker" /\ open))

(* No version between the last save and this one was due to be saved.      *)
DueInv == \A m \in Nat : saved < m /\ m < version => m % SaveFreq # 0

(* The folder of the checkpoint, and data.pt when the tracker's turn comes.*)
FolderInv ==
    /\ saved \in Versions => saved \in folders
    /\ step # "train" /\ (step # "actor" \/ open) => version \in folders
    /\ step = "tracker" => disk["data"][version] = "complete"

(* Part p has been written in the save that runs.                          *)
Behind(p) ==
    \/ p = "actor" /\ step \in {"critic", "data", "tracker"}
    \/ p = "critic" /\ step \in {"data", "tracker"}

(* What a checkpoint manager remembers: complete checkpoints of this life, *)
(* in order, the last one being the one that was saved, or its part of the *)
(* next one after that.                                                    *)
Remembers(p, s, n, k) ==
    /\ \A i, j \in 1..n : i < j => s[i] < s[j]
    /\ \A i \in 1..n : disk[p][s[i]] = "complete"
    /\ k > 0 => n <= k
    /\ step = p /\ open /\ k > 1 => n <= k - 1
    /\ Behind(p) => n >= 1 /\ s[n] = version /\ (n >= 2 => s[n - 1] = saved)
    /\ ~Behind(p) => (n >= 1 => s[n] = saved)

PathsInv == \A p \in Managed : Remembers(p, paths[p], Len(paths[p]), keep[p])

Kept(p) == {v \in Versions : disk[p][v] # "absent"}
Current(p) ==
    {paths[p][i] : i \in 1..Len(paths[p])}
        \cup (IF step = p /\ open THEN {version} ELSE {})

(* What earlier lives have left, apart from what this life keeps.          *)
LeftInv ==
    \A p \in Managed :
        keep[p] > 0 => Cardinality(Kept(p) \ Current(p)) <= PerLife(keep[p]) * crashes

(* The saved checkpoint is whole.                                          *)
SavedInv == saved \in Versions => \A p \in Parts : disk[p][saved] = "complete"

IInv == Types /\ LifeInv /\ DueInv /\ FolderInv /\ PathsInv /\ LeftInv

(* Every retention limit leaves room for the checkpoint that the tracker   *)
(* names and for the next one.                                             *)
RoomForTwo == \A k \in Retention : \A p \in DOMAIN k : k[p] # 1
-----------------------------------------------------------------------------
(* Quotient and remainder by the save frequency.                           *)
LEMMA Division ==
    ASSUME NEW f \in Nat \ {0}, NEW a \in Nat
    PROVE  a % f \in 0..(f - 1) /\ a \div f \in Int /\ a = f * (a \div f) + (a % f)
<1>1. a % f \in 0..(f - 1)
  OBVIOUS
<1>2. a \div f \in Int
  OBVIOUS
<1>3. a = f * (a \div f) + (a % f)
  OBVIOUS
<1> QED
  BY <1>1, <1>2, <1>3

(* A remainder that is a multiple of the save frequency is 0.              *)
LEMMA NoRemainder ==
    ASSUME NEW f \in Nat \ {0}, NEW t \in 0..(f - 1), NEW x \in Int, t = f * x
    PROVE  t = 0
<1>1. x >= 1 => f * x >= f
  OBVIOUS
<1>2. x <= -1 => f * x <= -f
  OBVIOUS
<1>3. x = 0 => f * x = 0
  OBVIOUS
<1> QED
  BY <1>1, <1>2, <1>3

(* Among SaveFreq versions in a row one is a multiple of it.               *)
LEMMA Multiple ==
    ASSUME NEW a \in Nat
    PROVE  \E m \in Nat : a < m /\ m <= a + SaveFreq /\ m % SaveFreq = 0
<1>1. PICK f \in Nat \ {0} : f = SaveFreq
  BY NumberAssumption
<1>2. PICK q \in Int, r \in 0..(f - 1) : a = f * q + r
  BY Division
<1>3. PICK m \in Nat : m = a + f - r
  BY <1>2
<1>4. PICK d \in Int, t \in 0..(f - 1) : m = f * d + t /\ t = m % f
  BY Division
<1>5. t = f * (q + 1 - d) /\ q + 1 - d \in Int
  <2>1. f * (q + 1 - d) = f * q + f - f * d
    OBVIOUS
  <2> QED
    BY <1>2, <1>3, <1>4, <2>1
<1>6. t = 0
  BY <1>5, NoRemainder
<1> QED
  BY <1>1, <1>2, <1>3, <1>4, <1>6

(* The parts of a checkpoint.                                              *)
LEMMA ManagedParts ==
    ASSUME keep \in Retention
    PROVE  /\ Managed \in {{"actor"}, {"actor", "critic"}}
           /\ \A p \in Managed : keep[p] \in Nat
  BY RetentionAssumption DEF Managed

(* What LastOnes keeps and FirstOnes names.                                *)
LEMMA Retained ==
    ASSUME NEW s \in Seq(Versions), NEW n \in Nat
    PROVE  \E off \in 0..Len(s) :
            /\ off = IF Len(s) > n THEN Len(s) - n ELSE 0
            /\ LastOnes(s, n) \in Seq(Versions) /\ Len(LastOnes(s, n)) = Len(s) - off
            /\ \A i \in 1..(Len(s) - off) : LastOnes(s, n)[i] = s[i + off]
            /\ FirstOnes(s, n) = {s[i] : i \in 1..off}
<1>1. Len(s) \in Nat
  BY LenProperties
<1> DEFINE off == IF Len(s) > n THEN Len(s) - n ELSE 0
<1>2. off \in 0..Len(s)
  BY <1>1
<1>3. CASE Len(s) > n
  <2>1. LastOnes(s, n) = SubSeq(s, off + 1, Len(s))
    BY <1>1, <1>3 DEF LastOnes
  <2>2. /\ off \in Int /\ off <= Len(s) /\ Len(s) - (off + 1) + 1 = Len(s) - off
        /\ \A i \in (off + 1)..Len(s) : s[i] \in Versions
    BY <1>1, <1>2, <1>3, ElementOfSeq
  <2> HIDE DEF off
  <2>3. /\ SubSeq(s, off + 1, Len(s)) \in Seq(Versions)
        /\ Len(SubSeq(s, off + 1, Len(s))) = Len(s) - off
        /\ \A i \in 1..(Len(s) - off) : SubSeq(s, off + 1, Len(s))[i] = s[i + off]
    <3>1. /\ SubSeq(s, off + 1, Len(s)) \in Seq(Versions)
          /\ Len(SubSeq(s, off + 1, Len(s))) =
                IF off + 1 <= Len(s) THEN Len(s) - (off + 1) + 1 ELSE 0
          /\ \A i \in 1..(Len(s) - (off + 1) + 1) :
                SubSeq(s, off + 1, Len(s))[i] = s[off + 1 + i - 1]
      BY <1>1, <2>2, SubSeqProperties
    <3>2. ASSUME NEW i \in 1..(Len(s) - off)
          PROVE  SubSeq(s, off + 1, Len(s))[i] = s[i + off]
      <4>1. i \in 1..(Len(s) - (off + 1) + 1) /\ off + 1 + i - 1 = i + off
        BY <1>1, <1>2, <2>2
      <4>2. SubSeq(s, off + 1, Len(s))[i] = s[off + 1 + i - 1]
        BY <3>1, <4>1
      <4> QED
        BY <4>1, <4>2
    <3>3. Len(SubSeq(s, off + 1, Len(s))) = Len(s) - off
      <4>1. CASE off + 1 <= Len(s)
        BY <2>2, <3>1, <4>1
      <4>2. CASE off = Len(s)
        <5>1. ~(off + 1 <= Len(s)) /\ Len(s) - off = 0
          BY <1>1, <4>2
        <5> QED
          BY <3>1, <5>1
      <4>3. off + 1 <= Len(s) \/ off = Len(s)
        BY <1>1, <1>2
      <4> QED
        BY <4>1, <4>2, <4>3
    <3> QED
      BY <3>1, <3>2, <3>3
  <2>4. FirstOnes(s, n) = {s[i] : i \in 1..off}
    BY <1>1, <1>3 DEF FirstOnes, off
  <2>5. off = IF Len(s) > n THEN Len(s) - n ELSE 0
    BY DEF off
  <2> QED
    BY <1>2, <2>1, <2>3, <2>4, <2>5
<1>4. CASE ~(Len(s) > n)
  <2>1. LastOnes(s, n) = s /\ off = 0
    BY <1>4 DEF LastOnes
  <2>2. FirstOnes(s, n) = {s[i] : i \in 1..off}
    BY <1>1, <1>4 DEF FirstOnes
  <2> QED
    BY <1>1, <1>2, <2>1, <2>2
<1> QED
  BY <1>3, <1>4

(* At most n versions in a sequence of length n.                           *)
LEMMA FewerThanLength ==
    ASSUME NEW s \in Seq(Versions)
    PROVE  /\ IsFiniteSet({s[i] : i \in 1..Len(s)})
           /\ Cardinality({s[i] : i \in 1..Len(s)}) <= Len(s)
<1> DEFINE S == 1..Len(s)
           T == {s[i] : i \in S}
           g == [i \in S |-> s[i]]
<1>1. Len(s) \in Nat
  BY LenProperties
<1>2. IsFiniteSet(S) /\ Cardinality(S) = Len(s)
  BY <1>1, FS_Interval, SMTT(30)
<1>3. g \in [S -> T] /\ \A t \in T : \E i \in S : g[i] = t
  OBVIOUS
<1>4. g \in Surjection(S, T)
  BY <1>3 DEF Surjection
<1> HIDE DEF S, T, g
<1>5. IsFiniteSet(T) /\ Cardinality(T) <= Cardinality(S)
  BY <1>2, <1>4, FS_Surjection
<1> QED
  BY <1>2, <1>5 DEF S, T

(* Numbers, and finite sets of versions.                                   *)
LEMMA FiniteVersions ==
    ASSUME NEW S, S \subseteq Versions
    PROVE  IsFiniteSet(S) /\ Cardinality(S) \in Nat
<1>1. IsFiniteSet(Versions)
  BY NumberAssumption, FS_Interval DEF Versions
<1> QED
  BY <1>1, FS_Subset, FS_CardinalityType

-----------------------------------------------------------------------------
(* Init.                                                                   *)
LEMMA InitInv == Init => IInv /\ SavedInv
<1> SUFFICES ASSUME Init PROVE IInv /\ SavedInv
  OBVIOUS
<1>1. Managed \in {{"actor"}, {"actor", "critic"}} /\ \A p \in Managed : keep[p] \in Nat
  BY ManagedParts DEF Init
<1>2. Types
  <2>1. \A p \in Managed : paths[p] \in Seq(Versions)
    BY EmptySeq DEF Init
  <2>2. paths \in [Managed -> Seq(Versions)]
    BY <2>1 DEF Init
  <2>3. disk \in [Parts -> [Versions -> Files]]
    BY DEF Init, Files
  <2>4. 0 \in 0..LastVersion /\ 0 \in 0..MaxCrashes
    BY NumberAssumption
  <2> QED
    BY <2>2, <2>3, <2>4 DEF Init, Types, Statuses, Absent
<1>3. LifeInv /\ DueInv /\ FolderInv
  BY DEF Init, LifeInv, DueInv, FolderInv, Absent, Versions
<1>4. PathsInv
  <2>1. \A p \in Managed : Len(paths[p]) = 0
    BY EmptySeq DEF Init
  <2> QED
    BY <1>1, <2>1 DEF Init, PathsInv, Remembers, Behind
<1>5. LeftInv
  <2>1. \A p \in Managed : Kept(p) = {}
    BY DEF Init, Kept, Parts
  <2>2. \A p \in Managed : Kept(p) \ Current(p) = {}
    BY <2>1
  <2>3. \A p \in Managed : Cardinality(Kept(p) \ Current(p)) = 0
    BY <2>2, FS_EmptySet
  <2>4. \A p \in Managed : PerLife(keep[p]) \in Nat
    BY <1>1 DEF PerLife
  <2>5. \A p \in Managed : PerLife(keep[p]) * crashes = 0
    BY <2>4 DEF Init
  <2> QED
    BY <2>3, <2>5 DEF LeftInv
<1>6. SavedInv
  BY DEF Init, SavedInv, Versions
<1> QED
  BY <1>2, <1>3, <1>4, <1>5, <1>6 DEF IInv

-----------------------------------------------------------------------------
(* What the numbers and the parts are, in a state of the right types.      *)
LEMMA TypeFacts ==
    ASSUME Types
    PROVE  /\ Managed \in {{"actor"}, {"actor", "critic"}} /\ "data" \notin Managed
           /\ \A p \in Managed : keep[p] \in Nat /\ p \in Parts
           /\ \A p \in Managed : paths[p] \in Seq(Versions) /\ Len(paths[p]) \in Nat
           /\ \A p \in Managed : \A i \in 1..Len(paths[p]) : paths[p][i] \in Versions
           /\ version \in Nat /\ version <= LastVersion /\ saved \in Nat /\ crashes \in Nat
           /\ LastVersion \in Nat
<1>1. Managed \in {{"actor"}, {"actor", "critic"}} /\ \A p \in Managed : keep[p] \in Nat
  BY ManagedParts DEF Types
<1>2. \A p \in Managed : paths[p] \in Seq(Versions)
  BY DEF Types
<1>3. \A p \in Managed : Len(paths[p]) \in Nat
  BY <1>2, LenProperties
<1>4. \A p \in Managed : \A i \in 1..Len(paths[p]) : paths[p][i] \in Versions
  BY <1>2, ElementOfSeq
<1> QED
  BY <1>1, <1>2, <1>3, <1>4, NumberAssumption DEF Types, Parts

(* A version that is being saved is one of Versions.                       *)
LEMMA SavingVersion ==
    ASSUME Types, LifeInv, step # "train"
    PROVE  version \in Versions /\ saved < version
BY TypeFacts DEF LifeInv, Versions

(* ensure_checkpoint_capacity: the off oldest checkpoints of the manager   *)
(* go, the new one is begun.                                               *)
LEMMA BeginEffect ==
    ASSUME Types, LifeInv, NEW p \in Managed, BeginPart(p)
    PROVE  \E off \in 0..Len(paths[p]) :
            /\ off = IF keep[p] > 1 /\ Len(paths[p]) >= keep[p]
                     THEN Len(paths[p]) - (keep[p] - 1) ELSE 0
            /\ Len(paths'[p]) = Len(paths[p]) - off
            /\ \A i \in 1..(Len(paths[p]) - off) : paths'[p][i] = paths[p][i + off]
            /\ \A v \in Versions : disk'[p][v] =
                IF v = version THEN "partial"
                ELSE IF v \in {paths[p][i] : i \in 1..off} THEN "absent" ELSE disk[p][v]
            /\ \A q \in Parts : q # p => disk'[q] = disk[q]
            /\ \A q \in Managed : q # p => paths'[q] = paths[q]
            /\ disk' \in [Parts -> [Versions -> Files]] /\ paths' \in [Managed -> Seq(Versions)]
<1> DEFINE s == paths[p]
           k == keep[p]
           n == Spared(k, s)
<1>1. /\ p \in Parts /\ k \in Nat /\ s \in Seq(Versions) /\ Len(s) \in Nat
      /\ version \in Versions
  <2>1. step = p /\ step # "train"
    BY TypeFacts DEF BeginPart
  <2> QED
    BY <2>1, TypeFacts, SavingVersion
<1>2. n \in Nat
  BY <1>1 DEF Spared
<1>3. PICK off \in 0..Len(s) :
            /\ off = IF Len(s) > n THEN Len(s) - n ELSE 0
            /\ LastOnes(s, n) \in Seq(Versions) /\ Len(LastOnes(s, n)) = Len(s) - off
            /\ \A i \in 1..(Len(s) - off) : LastOnes(s, n)[i] = s[i + off]
            /\ FirstOnes(s, n) = {s[i] : i \in 1..off}
  BY <1>1, <1>2, Retained
<1>4. off = IF k > 1 /\ Len(s) >= k THEN Len(s) - (k - 1) ELSE 0
  BY <1>1, <1>3 DEF Spared
<1>5. /\ paths' = [paths EXCEPT ![p] = LastOnes(s, n)]
      /\ disk' = [disk EXCEPT ![p] =
            [remove_previous_save_local_path(disk[p], FirstOnes(s, n)) EXCEPT ![version] = "partial"]]
  BY <1>1 DEF BeginPart, ensure_checkpoint_capacity, Types
<1>6. /\ paths'[p] = LastOnes(s, n) /\ paths' \in [Managed -> Seq(Versions)]
      /\ \A q \in Managed : q # p => paths'[q] = paths[q]
  BY <1>3, <1>5 DEF Types
<1>7. /\ disk' \in [Parts -> [Versions -> Files]]
      /\ \A q \in Parts : q # p => disk'[q] = disk[q]
      /\ \A v \in Versions : disk'[p][v] =
            IF v = version THEN "partial"
            ELSE IF v \in FirstOnes(s, n) THEN "absent" ELSE disk[p][v]
  BY <1>1, <1>5 DEF Types, remove_previous_save_local_path, Files
<1> HIDE DEF s, k, n
<1> QED
  BY <1>3, <1>4, <1>6, <1>7 DEF s, k

(* EndPart leaves the other parts alone.                                   *)
LEMMA EndOthers ==
    ASSUME Types, NEW p \in Managed, EndPart(p), NEW q \in Managed, q # p
    PROVE  paths'[q] = paths[q] /\ disk'[q] = disk[q]
<1> DEFINE s == Append(paths[p], version)
           t == LastOnes(s, Limit(keep[p], s))
           d == remove_previous_save_local_path([disk[p] EXCEPT ![version] = "complete"],
                                                FirstOnes(s, Limit(keep[p], s)))
<1>1. p \in Parts /\ q \in Parts
  BY TypeFacts
<1>2. paths' = [paths EXCEPT ![p] = t] /\ disk' = [disk EXCEPT ![p] = d]
  BY <1>1 DEF EndPart, register_checkpoint, Types
<1> HIDE DEF t, d
<1> QED
  BY <1>1, <1>2 DEF Types

(* register_checkpoint: the new one is complete, the off oldest ones go.   *)
LEMMA EndEffect ==
    ASSUME Types, LifeInv, NEW p \in Managed, EndPart(p)
    PROVE  \E off \in 0..(Len(paths[p]) + 1), u \in Seq(Versions) :
            /\ Len(u) = Len(paths[p]) + 1 /\ u[Len(u)] = version
            /\ \A i \in 1..Len(paths[p]) : u[i] = paths[p][i]
            /\ off = IF keep[p] > 0 /\ Len(u) > keep[p] THEN Len(u) - keep[p] ELSE 0
            /\ Len(paths'[p]) = Len(u) - off
            /\ \A i \in 1..(Len(u) - off) : paths'[p][i] = u[i + off]
            /\ \A v \in Versions : disk'[p][v] =
                IF v \in {u[i] : i \in 1..off} THEN "absent"
                ELSE IF v = version THEN "complete" ELSE disk[p][v]
            /\ \A q \in Parts : q # p => disk'[q] = disk[q]
            /\ \A q \in Managed : q # p => paths'[q] = paths[q]
            /\ disk' \in [Parts -> [Versions -> Files]] /\ paths' \in [Managed -> Seq(Versions)]
<1> DEFINE s == Append(paths[p], version)
           k == keep[p]
           n == Limit(k, s)
<1>1. p \in Parts /\ k \in Nat /\ version \in Versions /\ Len(paths[p]) \in Nat
  <2>1. step = p /\ step # "train"
    BY TypeFacts DEF EndPart
  <2> QED
    BY <2>1, TypeFacts, SavingVersion
<1>2. /\ s \in Seq(Versions) /\ Len(s) = Len(paths[p]) + 1 /\ s[Len(s)] = version
      /\ \A i \in 1..Len(paths[p]) : s[i] = paths[p][i]
  <2>1. paths[p] \in Seq(Versions)
    BY TypeFacts
  <2> QED
    BY <1>1, <2>1, AppendProperties
<1> HIDE DEF s
<1>3. n \in Nat
  BY <1>1, <1>2 DEF Limit
<1>4. PICK off \in 0..Len(s) :
            /\ off = IF Len(s) > n THEN Len(s) - n ELSE 0
            /\ LastOnes(s, n) \in Seq(Versions) /\ Len(LastOnes(s, n)) = Len(s) - off
            /\ \A i \in 1..(Len(s) - off) : LastOnes(s, n)[i] = s[i + off]
            /\ FirstOnes(s, n) = {s[i] : i \in 1..off}
  BY <1>2, <1>3, Retained
<1>5. off = IF k > 0 /\ Len(s) > k THEN Len(s) - k ELSE 0
  BY <1>1, <1>2, <1>4 DEF Limit
<1>6. /\ paths' = [paths EXCEPT ![p] = LastOnes(s, n)]
      /\ disk' = [disk EXCEPT ![p] =
            remove_previous_save_local_path([disk[p] EXCEPT ![version] = "complete"],
                                            FirstOnes(s, n))]
  BY <1>1 DEF EndPart, register_checkpoint, Types, s
<1>7. /\ paths'[p] = LastOnes(s, n) /\ paths' \in [Managed -> Seq(Versions)]
      /\ \A q \in Managed : q # p => paths'[q] = paths[q]
  BY <1>4, <1>6 DEF Types
<1>8. /\ disk' \in [Parts -> [Versions -> Files]]
      /\ \A q \in Parts : q # p => disk'[q] = disk[q]
      /\ \A v \in Versions : disk'[p][v] =
            IF v \in FirstOnes(s, n) THEN "absent"
            ELSE IF v = version THEN "complete" ELSE disk[p][v]
  BY <1>1, <1>6 DEF Types, remove_previous_save_local_path, Files
<1> HIDE DEF n
<1>9. off \in 0..(Len(paths[p]) + 1)
  BY <1>2
<1>10. \A v \in Versions : disk'[p][v] =
                IF v \in {s[i] : i \in 1..off} THEN "absent"
                ELSE IF v = version THEN "complete" ELSE disk[p][v]
  BY <1>4, <1>8
<1> USE <1>2, <1>9
<1> WITNESS off \in 0..(Len(paths[p]) + 1), s \in Seq(Versions)
<1> QED
  BY <1>2, <1>4, <1>5, <1>7, <1>8, <1>10

-----------------------------------------------------------------------------
(* The deployment, and with it the parts, never changes.                   *)
LEMMA SameParts ==
    ASSUME [Next]_vars
    PROVE  keep' = keep /\ Managed' = Managed /\ Parts' = Parts
<1>1. keep' = keep
  BY DEF Next, vars, Train, BeginSave, BeginPart, EndPart, SaveData, OpenTracker, CloseTracker,
         Finish, Crash, StartFromScratch, Resume, FailToLoad, StartUp
<1> QED
  BY <1>1 DEF Managed, Parts

(* Every step keeps the types.                                             *)
LEMMA TypesStep ==
    ASSUME Types, LifeInv, [Next]_vars
    PROVE  Types'
<1> USE NumberAssumption
<1>1. keep' = keep /\ Managed' = Managed /\ Parts' = Parts
  BY SameParts
<1>2. Managed \in {{"actor"}, {"actor", "critic"}} /\ Parts = Managed \cup {"data"}
  BY TypeFacts DEF Parts
<1>3. CASE Train
  BY <1>1, <1>3 DEF Train, Types, storage
<1>4. CASE BeginSave
  BY <1>1, <1>2, <1>4 DEF BeginSave, Types, storage
<1>5. ASSUME NEW p \in Managed, BeginPart(p) PROVE Types'
  <2>1. /\ disk' \in [Parts -> [Versions -> Files]] /\ paths' \in [Managed -> Seq(Versions)]
    BY <1>5, BeginEffect
  <2>2. version \in Versions
    BY <1>2, <1>5, SavingVersion DEF BeginPart
  <2> QED
    BY <1>1, <1>5, <2>1, <2>2 DEF BeginPart, Types
<1>6. ASSUME NEW p \in Managed, EndPart(p) PROVE Types'
  <2>1. /\ disk' \in [Parts -> [Versions -> Files]] /\ paths' \in [Managed -> Seq(Versions)]
    BY <1>6, EndEffect
  <2>2. After(p) \in {"tracker"} \cup Parts
    BY <1>2 DEF After
  <2> QED
    BY <1>1, <1>6, <2>1, <2>2 DEF EndPart, Types
<1>7. CASE SaveData
  <2>1. version \in Versions
    BY <1>7, SavingVersion DEF SaveData
  <2>2. disk' \in [Parts -> [Versions -> Files]]
    BY <1>2, <1>7, <2>1 DEF SaveData, Types, Files
  <2>3. After("data") = "tracker"
    BY DEF After
  <2> QED
    BY <1>1, <1>7, <2>1, <2>2, <2>3 DEF SaveData, Types
<1>8. CASE OpenTracker
  BY <1>1, <1>8 DEF OpenTracker, Types
<1>9. CASE CloseTracker
  <2>1. version \in Versions
    BY <1>9, SavingVersion DEF CloseTracker
  <2> QED
    BY <1>1, <1>9, <2>1 DEF CloseTracker, Types
<1>10. CASE Finish \/ FailToLoad
  BY <1>1, <1>10 DEF Finish, FailToLoad, Types, process, storage, Statuses
<1>11. CASE Crash
  <2>1. paths' \in [Managed -> Seq(Versions)]
    BY <1>11, EmptySeq DEF Crash
  <2>2. crashes' \in 0..MaxCrashes /\ 0 \in 0..LastVersion
    BY <1>11 DEF Crash, Types
  <2> QED
    BY <1>1, <1>11, <2>1, <2>2 DEF Crash, Types, storage, Statuses
<1>12. CASE StartFromScratch
  BY <1>1, <1>12 DEF StartFromScratch, StartUp, Types, storage, Statuses
<1>13. CASE Resume
  <2>1. tracker \in 0..LastVersion
    BY <1>13 DEF Resume, Types, Versions
  <2> QED
    BY <1>1, <1>13, <2>1 DEF Resume, StartUp, Types, storage, Statuses
<1>14. CASE UNCHANGED vars
  BY <1>1, <1>14 DEF vars, process, storage, Types
<1> QED
  BY <1>3, <1>4, <1>5, <1>6, <1>7, <1>8, <1>9, <1>10, <1>11, <1>12, <1>13, <1>14 DEF Next

(* The steps between the parts of a save.                                  *)
LEMMA AfterPart ==
    ASSUME Types, NEW p \in Managed
    PROVE  After(p) \in {"critic", "data"} /\ (After(p) = "critic" => p = "actor" /\ "critic" \in Managed)
           /\ p \in {"actor", "critic"} /\ (p = "actor" /\ "critic" \in Managed => After(p) = "critic")
BY TypeFacts DEF After

(* Saved version and tracker: the tracker is torn only while it is         *)
(* written.                                                                *)
LEMMA LifeStep ==
    ASSUME Types, LifeInv, FolderInv, [Next]_vars
    PROVE  LifeInv'
<1>1. keep' = keep /\ Managed' = Managed /\ Parts' = Parts
  BY SameParts
<1>2. /\ version \in Nat /\ saved \in Nat /\ "train" \notin Managed /\ "tracker" \notin Managed
  BY TypeFacts
<1>3. CASE Train
  BY <1>1, <1>2, <1>3 DEF Train, LifeInv, storage
<1>4. CASE BeginSave
  BY <1>1, <1>2, <1>4 DEF BeginSave, LifeInv, storage, Unsaved
<1>5. ASSUME NEW p \in Managed, BeginPart(p) PROVE LifeInv'
  BY <1>1, <1>2, <1>5 DEF BeginPart, LifeInv
<1>6. ASSUME NEW p \in Managed, EndPart(p) PROVE LifeInv'
  <2>1. After(p) \in {"critic", "data"}
    BY AfterPart
  <2> QED
    BY <1>1, <1>2, <1>6, <2>1 DEF EndPart, LifeInv
<1>7. CASE SaveData
  BY <1>1, <1>2, <1>7 DEF SaveData, LifeInv, After
<1>8. CASE OpenTracker
  BY <1>1, <1>2, <1>8 DEF OpenTracker, LifeInv
<1>9. CASE CloseTracker
  BY <1>1, <1>2, <1>9 DEF CloseTracker, LifeInv
<1>10. CASE Finish \/ FailToLoad
  BY <1>1, <1>2, <1>10 DEF Finish, FailToLoad, LifeInv, process, storage
<1>11. CASE Crash
  BY <1>1, <1>2, <1>11 DEF Crash, LifeInv, storage
<1>12. CASE StartFromScratch
  <2>1. tracker = Absent /\ saved = 0
    BY <1>12 DEF StartFromScratch, NoCheckpoint, LifeInv, FolderInv, Types, Absent, Torn, Versions
  <2> QED
    BY <1>1, <1>2, <1>12, <2>1 DEF StartFromScratch, StartUp, LifeInv, storage, Absent, Torn
<1>13. CASE Resume
  <2>1. tracker = saved
    BY <1>13 DEF Resume, LifeInv, Types, Torn, Versions
  <2> QED
    BY <1>1, <1>2, <1>13, <2>1 DEF Resume, StartUp, LifeInv, storage
<1>14. CASE UNCHANGED vars
  BY <1>1, <1>14 DEF vars, process, storage, LifeInv
<1> QED
  BY <1>3, <1>4, <1>5, <1>6, <1>7, <1>8, <1>9, <1>10, <1>11, <1>12, <1>13, <1>14 DEF Next

(* Every due version is saved before the next one begins.                  *)
LEMMA DueStep ==
    ASSUME Types, LifeInv, FolderInv, DueInv, [Next]_vars
    PROVE  DueInv'
<1>1. version \in Nat /\ saved \in Nat /\ SaveFreq \in Nat \ {0}
  BY TypeFacts, NumberAssumption
<1>2. CASE Train
  <2>1. version' = version + 1 /\ saved' = saved /\ lastCkpt = saved
    BY <1>2 DEF Train, storage, LifeInv
  <2>2. version = saved \/ version % SaveFreq # 0
    BY <1>2, <2>1 DEF Train, Due, Unsaved
  <2>3. ASSUME NEW m \in Nat, saved < m, m < version + 1 PROVE m % SaveFreq # 0
    <3>1. m < version \/ (m = version /\ version # saved)
      BY <1>1, <2>3
    <3> QED
      BY <2>2, <2>3, <3>1 DEF DueInv
  <2> QED
    BY <2>1, <2>3 DEF DueInv
<1>3. CASE CloseTracker
  BY <1>1, <1>3 DEF CloseTracker, DueInv
<1>4. CASE StartFromScratch
  <2>1. version' = 0
    BY <1>4 DEF StartFromScratch, StartUp
  <2> QED
    BY <1>1, <2>1 DEF DueInv
<1>5. CASE Resume
  <2>1. version' = saved /\ saved' = saved
    BY <1>5 DEF Resume, StartUp, storage, LifeInv, Types, Torn, Versions
  <2> QED
    BY <1>1, <2>1 DEF DueInv
<1>6. CASE UNCHANGED <<version, saved>>
  BY <1>6 DEF DueInv
<1> QED
  BY <1>2, <1>3, <1>4, <1>5, <1>6
  DEF Next, vars, process, storage, BeginSave, BeginPart, EndPart, SaveData, OpenTracker,
      Finish, Crash, FailToLoad

(* The folder is there before the parts that write into it, and a crash    *)
(* leaves what is on the disk.                                             *)
LEMMA FolderStep ==
    ASSUME Types, LifeInv, FolderInv, [Next]_vars
    PROVE  FolderInv'
<1>1. /\ version \in Nat /\ saved \in Nat /\ Managed \in {{"actor"}, {"actor", "critic"}}
  BY TypeFacts
<1>2. CASE Train \/ BeginSave
  BY <1>2 DEF Train, BeginSave, FolderInv, LifeInv, storage
<1>3. ASSUME NEW p \in Managed, BeginPart(p) PROVE FolderInv'
  <2>1. step # "tracker"
    BY <1>1, <1>3 DEF BeginPart
  <2> QED
    BY <1>3, <2>1 DEF BeginPart, FolderInv
<1>4. ASSUME NEW p \in Managed, EndPart(p) PROVE FolderInv'
  <2>1. After(p) \in {"critic", "data"}
    BY AfterPart
  <2>2. version \in folders
    BY <1>1, <1>4 DEF EndPart, FolderInv
  <2> QED
    BY <1>4, <2>1, <2>2 DEF EndPart, FolderInv
<1>5. CASE SaveData
  <2>1. version \in Versions /\ "data" \in Parts
    BY <1>5, SavingVersion DEF SaveData, Parts
  <2>2. open => disk'["data"][version] = "complete"
    BY <1>5, <2>1 DEF SaveData, Types
  <2> QED
    BY <1>5, <2>2 DEF SaveData, FolderInv
<1>6. CASE OpenTracker
  BY <1>6 DEF OpenTracker, FolderInv
<1>7. CASE CloseTracker
  BY <1>7 DEF CloseTracker, FolderInv
<1>8. CASE StartFromScratch \/ Resume
  BY <1>8 DEF StartFromScratch, Resume, StartUp, FolderInv, LifeInv, storage
<1>9. CASE Crash \/ Finish \/ FailToLoad
  BY <1>9 DEF Crash, Finish, FailToLoad, FolderInv, storage, process
<1>10. CASE UNCHANGED vars
  BY <1>10 DEF vars, process, storage, FolderInv
<1> QED
  BY <1>2, <1>3, <1>4, <1>5, <1>6, <1>7, <1>8, <1>9, <1>10 DEF Next

-----------------------------------------------------------------------------
(* Nothing a manager remembers is newer than the save that runs.           *)
LEMMA PathsBounded ==
    ASSUME Types, LifeInv, PathsInv, NEW p \in Managed, ~Behind(p),
           NEW i \in 1..Len(paths[p])
    PROVE  /\ paths[p][i] <= saved /\ paths[p][i] \in Versions
           /\ i < Len(paths[p]) => paths[p][i] < saved
<1>1. /\ Len(paths[p]) \in Nat /\ paths[p][i] \in Versions /\ saved \in Nat
      /\ paths[p][Len(paths[p])] \in Versions
  BY TypeFacts
<1>2. paths[p][Len(paths[p])] = saved
  BY <1>1 DEF PathsInv, Remembers
<1>3. i < Len(paths[p]) => paths[p][i] < paths[p][Len(paths[p])]
  BY <1>1 DEF PathsInv, Remembers
<1> QED
  BY <1>1, <1>2, <1>3 DEF Versions

(* ensure_checkpoint_capacity makes room for the version that begins.      *)
LEMMA RemembersBegin ==
    ASSUME Types, LifeInv, PathsInv, NEW p \in Managed, BeginPart(p)
    PROVE  Remembers(p, paths[p], Len(paths[p]), keep[p])'
<1>1. PICK off \in 0..Len(paths[p]) :
            /\ off = IF keep[p] > 1 /\ Len(paths[p]) >= keep[p]
                     THEN Len(paths[p]) - (keep[p] - 1) ELSE 0
            /\ Len(paths'[p]) = Len(paths[p]) - off
            /\ \A i \in 1..(Len(paths[p]) - off) : paths'[p][i] = paths[p][i + off]
            /\ \A v \in Versions : disk'[p][v] =
                IF v = version THEN "partial"
                ELSE IF v \in {paths[p][i] : i \in 1..off} THEN "absent" ELSE disk[p][v]
  BY BeginEffect
<1>2. /\ step = p /\ UNCHANGED <<keep, step, version, saved>> /\ ~Behind(p) /\ ~Behind(p)'
      /\ step # "train"
  BY TypeFacts DEF BeginPart, Behind
<1>3. version \in Versions /\ saved < version
  BY <1>2, SavingVersion
<1>4. /\ Len(paths[p]) \in Nat /\ keep[p] \in Nat /\ version \in Nat /\ saved \in Nat
  BY TypeFacts
<1> DEFINE n == Len(paths[p])
           m == n - off
<1>5. n \in Nat /\ m \in Nat /\ m <= n /\ off \in 0..n /\ m = n - off
  BY <1>1, <1>4
<1>6. /\ \A i, j \in 1..n : i < j => paths[p][i] < paths[p][j]
      /\ \A i \in 1..n : disk[p][paths[p][i]] = "complete"
      /\ keep[p] > 0 => n <= keep[p]
      /\ n >= 1 => paths[p][n] = saved
  BY <1>2 DEF PathsInv, Remembers
<1>7. \A i \in 1..n : paths[p][i] \in Versions /\ paths[p][i] <= saved
  BY <1>2, PathsBounded
<1>8. \A i \in 1..m : i + off \in 1..n /\ paths'[p][i] = paths[p][i + off]
  BY <1>1, <1>5
<1> HIDE DEF n, m
<1>9. ASSUME NEW i \in 1..m, NEW j \in 1..m, i < j PROVE paths'[p][i] < paths'[p][j]
  <2>1. i + off \in 1..n /\ j + off \in 1..n /\ i + off < j + off
    BY <1>5, <1>8, <1>9
  <2>2. paths[p][i + off] < paths[p][j + off]
    BY <1>6, <2>1
  <2> QED
    BY <1>8, <2>2
<1>10. ASSUME NEW i \in 1..m PROVE disk'[p][paths'[p][i]] = "complete"
  <2>1. PICK v \in Versions : v = paths[p][i + off] /\ v = paths'[p][i]
    BY <1>7, <1>8
  <2>2. v # version
    BY <1>3, <1>4, <1>7, <1>8, <2>1 DEF Versions
  <2>3. ASSUME NEW h \in 1..off PROVE paths[p][h] # v
    <3>1. h \in 1..n /\ h < i + off
      BY <1>5
    <3>2. paths[p][h] < paths[p][i + off]
      BY <1>6, <1>8, <3>1
    <3> QED
      BY <1>7, <3>1, <3>2, <2>1 DEF Versions
  <2>4. disk'[p][v] = disk[p][v]
    BY <1>1, <2>2, <2>3
  <2> QED
    BY <1>6, <1>8, <2>1, <2>4
<1>11. keep[p] > 0 => m <= keep[p]
  BY <1>4, <1>5, <1>6
<1>12. keep[p] > 1 => m <= keep[p] - 1
  BY <1>1, <1>4, <1>5 DEF n
<1>13. m >= 1 => paths'[p][m] = saved
  <2>1. m >= 1 => m + off = n /\ m \in 1..m /\ n >= 1
    BY <1>5
  <2> QED
    BY <1>6, <1>8, <2>1
<1>14. Len(paths'[p]) = m
  BY <1>1 DEF n, m
<1> QED
  BY <1>2, <1>9, <1>10, <1>11, <1>12, <1>13, <1>14 DEF Remembers

(* register_checkpoint appends the version and deletes the oldest.         *)
LEMMA RemembersEnd ==
    ASSUME Types, LifeInv, PathsInv, NEW p \in Managed, EndPart(p)
    PROVE  Remembers(p, paths[p], Len(paths[p]), keep[p])'
<1>1. PICK off \in 0..(Len(paths[p]) + 1), u \in Seq(Versions) :
            /\ Len(u) = Len(paths[p]) + 1 /\ u[Len(u)] = version
            /\ \A i \in 1..Len(paths[p]) : u[i] = paths[p][i]
            /\ off = IF keep[p] > 0 /\ Len(u) > keep[p] THEN Len(u) - keep[p] ELSE 0
            /\ Len(paths'[p]) = Len(u) - off
            /\ \A i \in 1..(Len(u) - off) : paths'[p][i] = u[i + off]
            /\ \A v \in Versions : disk'[p][v] =
                IF v \in {u[i] : i \in 1..off} THEN "absent"
                ELSE IF v = version THEN "complete" ELSE disk[p][v]
  BY EndEffect, ZenonT(40)
<1>2. /\ step = p /\ step' = After(p) /\ UNCHANGED <<keep, version, saved>> /\ ~open'
      /\ ~Behind(p) /\ Behind(p)' /\ step # "train"
  BY AfterPart DEF EndPart, Behind
<1>3. version \in Versions /\ saved < version
  BY <1>2, SavingVersion
<1>4. /\ Len(paths[p]) \in Nat /\ keep[p] \in Nat /\ version \in Nat /\ saved \in Nat
  BY TypeFacts
<1> DEFINE l == Len(paths[p])
           n == Len(u)
           m == n - off
<1>5. /\ l \in Nat /\ n = l + 1 /\ n \in Nat /\ m \in Nat /\ m <= n /\ off \in 0..n /\ m = n - off
      /\ m >= 1
  BY <1>1, <1>4, SMTT(30)
<1>6. /\ \A i, j \in 1..l : i < j => paths[p][i] < paths[p][j]
      /\ \A i \in 1..l : disk[p][paths[p][i]] = "complete"
      /\ l >= 1 => paths[p][l] = saved
  BY <1>2 DEF PathsInv, Remembers
<1>7. \A i \in 1..l : paths[p][i] \in Versions /\ paths[p][i] <= saved
  BY <1>2, PathsBounded
<1>8. \A i \in 1..m : i + off \in 1..n /\ paths'[p][i] = u[i + off]
  BY <1>1, <1>5, SMTT(30)
<1>9. /\ \A i \in 1..l : u[i] = paths[p][i]
      /\ u[n] = version
  BY <1>1
<1>10. off = IF keep[p] > 0 /\ n > keep[p] THEN n - keep[p] ELSE 0
  BY <1>1
<1>11. Len(paths'[p]) = m
  BY <1>1
<1> HIDE DEF l, n, m
<1>12. \A i \in 1..n : u[i] \in Versions /\ u[i] \in Nat
  <2>1. \A i \in 1..n : u[i] \in Versions
    BY ElementOfSeq DEF n
  <2>2. \A v \in Versions : v \in Nat
    BY TypeFacts DEF Versions
  <2> QED
    BY <2>1, <2>2
<1>13. ASSUME NEW i \in 1..n, NEW j \in 1..n, i < j PROVE u[i] < u[j]
  <2>1. CASE j = n
    BY <1>3, <1>4, <1>5, <1>7, <1>9, <1>13, <2>1, SMTT(30) DEF Versions
  <2>2. CASE j # n
    BY <1>5, <1>6, <1>9, <1>13, <2>2
  <2> QED
    BY <2>1, <2>2
<1>14. \A i, j \in 1..m : i < j => paths'[p][i] < paths'[p][j]
  BY <1>5, <1>8, <1>13
<1>15. ASSUME NEW i \in 1..m PROVE disk'[p][paths'[p][i]] = "complete"
  <2>1. PICK v \in Versions : v = u[i + off] /\ v = paths'[p][i]
    BY <1>8, <1>12
  <2>2. ASSUME NEW h \in 1..off PROVE u[h] # v
    <3>1. h \in 1..n /\ h < i + off
      BY <1>5
    <3> QED
      BY <1>8, <1>12, <1>13, <2>1, <3>1
  <2>3. disk'[p][v] = IF v = version THEN "complete" ELSE disk[p][v]
    BY <1>1, <2>2
  <2>4. v # version => disk[p][v] = "complete"
    <3>1. i + off \in 1..n /\ (i + off # n => i + off \in 1..l)
      BY <1>5, <1>8
    <3> QED
      BY <1>6, <1>9, <2>1, <3>1
  <2> QED
    BY <2>1, <2>3, <2>4
<1>16. keep[p] > 0 => m <= keep[p]
  BY <1>4, <1>5, <1>10
<1>17. paths'[p][m] = version
  <2>1. m \in 1..m /\ m + off = n
    BY <1>5
  <2> QED
    BY <1>8, <1>9, <2>1
<1>18. m >= 2 => paths'[p][m - 1] = saved
  <2>1. m >= 2 => m - 1 \in 1..m /\ m - 1 + off = l /\ l \in 1..l
    BY <1>5
  <2> QED
    BY <1>6, <1>8, <1>9, <2>1
<1> QED
  BY <1>2, <1>5, <1>11, <1>14, <1>15, <1>16, <1>17, <1>18 DEF Remembers

(* The remembered paths are the latest saves of this life, in order.       *)
LEMMA PathsStep ==
    ASSUME Types, LifeInv, PathsInv, [Next]_vars
    PROVE  PathsInv'
<1>1. keep' = keep /\ Managed' = Managed
  BY SameParts
<1>2. Managed \in {{"actor"}, {"actor", "critic"}} /\ Parts = Managed \cup {"data"}
  BY TypeFacts DEF Parts
<1>3. ASSUME NEW p \in Managed, BeginPart(p) PROVE PathsInv'
  <2>1. ASSUME NEW q \in Managed, q # p PROVE Remembers(q, paths[q], Len(paths[q]), keep[q])'
    <3>1. paths'[q] = paths[q] /\ disk'[q] = disk[q] /\ UNCHANGED <<step, version, saved>>
          /\ step = p
      BY <1>2, <1>3, <2>1, BeginEffect DEF BeginPart
    <3> QED
      BY <1>1, <2>1, <3>1 DEF PathsInv, Remembers, Behind
  <2> QED
    BY <1>1, <1>3, <2>1, RemembersBegin DEF PathsInv
<1>4. ASSUME NEW p \in Managed, EndPart(p) PROVE PathsInv'
  <2>1. ASSUME NEW q \in Managed, q # p PROVE Remembers(q, paths[q], Len(paths[q]), keep[q])'
    <3>1. /\ paths'[q] = paths[q] /\ disk'[q] = disk[q] /\ UNCHANGED <<version, saved>>
          /\ step = p /\ step' = After(p) /\ ~open'
      BY <1>2, <1>4, <2>1, EndOthers DEF EndPart
    <3>2. Behind(q)' <=> Behind(q)
      BY <1>2, <2>1, <3>1, AfterPart DEF Behind
    <3> QED
      BY <1>1, <2>1, <3>1, <3>2 DEF PathsInv, Remembers
  <2> QED
    BY <1>1, <1>4, <2>1, RemembersEnd DEF PathsInv
<1>5. CASE SaveData
  <2>1. ASSUME NEW q \in Managed PROVE Remembers(q, paths[q], Len(paths[q]), keep[q])'
    <3>1. /\ paths'[q] = paths[q] /\ disk'[q] = disk[q] /\ UNCHANGED <<version, saved>>
          /\ step = "data" /\ step' \in {"data", "tracker"}
      BY <1>2, <1>5 DEF SaveData, Types, After
    <3>2. (Behind(q)' <=> Behind(q)) /\ step' # q
      BY <1>2, <3>1 DEF Behind
    <3> QED
      BY <1>1, <3>1, <3>2 DEF PathsInv, Remembers
  <2> QED
    BY <1>1, <2>1 DEF PathsInv
<1>6. CASE CloseTracker
  <2>1. ASSUME NEW q \in Managed PROVE Remembers(q, paths[q], Len(paths[q]), keep[q])'
    <3>1. /\ UNCHANGED <<paths, disk, version>> /\ saved' = version /\ step = "tracker"
          /\ step' = "train"
      BY <1>6 DEF CloseTracker
    <3>2. Behind(q) /\ ~Behind(q)' /\ step' # q
      BY <1>2, <3>1 DEF Behind
    <3> QED
      BY <1>1, <3>1, <3>2 DEF PathsInv, Remembers
  <2> QED
    BY <1>1, <2>1 DEF PathsInv
<1>7. CASE Crash
  <2>1. \A q \in Managed : paths'[q] = <<>> /\ Len(paths'[q]) = 0
    BY <1>7, EmptySeq DEF Crash
  <2>2. \A q \in Managed : ~Behind(q)' /\ keep[q] \in Nat /\ q # "train"
    BY <1>2, <1>7, TypeFacts DEF Crash, Behind
  <2>3. step' = "train"
    BY <1>7 DEF Crash
  <2> QED
    BY <1>1, <2>1, <2>2, <2>3 DEF PathsInv, Remembers
<1>8. CASE StartFromScratch \/ Resume
  <2>1. /\ \A q \in Managed : paths'[q] = <<>> /\ Len(paths'[q]) = 0
        /\ step' = step /\ step = "train"
    BY <1>8, EmptySeq DEF StartFromScratch, Resume, StartUp, LifeInv
  <2>2. \A q \in Managed : ~Behind(q)' /\ keep[q] \in Nat /\ q # "train"
    BY <1>2, <2>1, TypeFacts DEF Behind
  <2> QED
    BY <1>1, <2>1, <2>2 DEF PathsInv, Remembers
<1>9. CASE Train
  <2>1. UNCHANGED <<paths, disk, saved, step, open>> /\ step = "train"
    BY <1>9 DEF Train, storage
  <2>2. \A q \in Managed : ~Behind(q)' /\ ~Behind(q) /\ q # "train"
    BY <1>2, <2>1 DEF Behind
  <2> QED
    BY <1>1, <2>1, <2>2 DEF PathsInv, Remembers
<1>10. CASE BeginSave
  <2>1. UNCHANGED <<paths, disk, saved, version, open>> /\ ~open /\ step = "train" /\ step' = "actor"
    BY <1>10 DEF BeginSave, storage, LifeInv
  <2>2. \A q \in Managed : ~Behind(q)' /\ ~Behind(q)
    BY <1>2, <2>1 DEF Behind
  <2> QED
    BY <1>1, <2>1, <2>2 DEF PathsInv, Remembers
<1>11. CASE OpenTracker
  <2>1. UNCHANGED <<paths, disk, saved, version, step>> /\ step = "tracker"
    BY <1>11 DEF OpenTracker
  <2>2. \A q \in Managed : (Behind(q)' <=> Behind(q)) /\ q # "tracker"
    BY <1>2, <2>1 DEF Behind
  <2> QED
    BY <1>1, <2>1, <2>2 DEF PathsInv, Remembers
<1>12. CASE UNCHANGED <<paths, disk, saved, version, step, open>>
  BY <1>1, <1>12 DEF PathsInv, Remembers, Behind
<1> QED
  BY <1>3, <1>4, <1>5, <1>6, <1>7, <1>8, <1>9, <1>10, <1>11, <1>12
  DEF Next, vars, process, storage, Finish, FailToLoad

-----------------------------------------------------------------------------
(* One life keeps at most PerLife checkpoints of a part.                   *)
LEMMA CurrentBound ==
    ASSUME Types, LifeInv, PathsInv, NEW p \in Managed
    PROVE  /\ Current(p) \subseteq Versions
           /\ keep[p] > 0 => Cardinality(Current(p)) <= PerLife(keep[p])
<1> DEFINE s == paths[p]
           R == {s[i] : i \in 1..Len(s)}
<1>1. s \in Seq(Versions) /\ Len(s) \in Nat /\ keep[p] \in Nat /\ R \subseteq Versions
      /\ "train" \notin Managed
  BY TypeFacts
<1>2. IsFiniteSet(R) /\ Cardinality(R) <= Len(s) /\ Cardinality(R) \in Nat
  BY <1>1, FewerThanLength, FS_CardinalityType
<1>3. /\ keep[p] > 0 => Len(s) <= keep[p]
      /\ step = p /\ open /\ keep[p] > 1 => Len(s) <= keep[p] - 1
  BY DEF PathsInv, Remembers
<1>4. Current(p) = R \cup (IF step = p /\ open THEN {version} ELSE {})
  BY DEF Current
<1> HIDE DEF s, R
<1>5. CASE step = p /\ open
  <2>1. version \in Versions
    BY <1>1, <1>5, SavingVersion
  <2>2. Cardinality(R \cup {version}) =
            IF version \in R THEN Cardinality(R) ELSE Cardinality(R) + 1
    BY <1>2, FS_AddElement
  <2>3. keep[p] > 0 => Cardinality(R \cup {version}) <= PerLife(keep[p])
    BY <1>1, <1>2, <1>3, <1>5, <2>2 DEF PerLife
  <2> QED
    BY <1>1, <1>4, <1>5, <2>1, <2>3
<1>6. CASE ~(step = p /\ open)
  <2>1. Current(p) = R
    BY <1>4, <1>6
  <2> QED
    BY <1>1, <1>2, <1>3, <2>1 DEF PerLife
<1> QED
  BY <1>5, <1>6

(* What this life and the earlier ones have left together.                 *)
LEMMA KeptBound ==
    ASSUME Types, LifeInv, PathsInv, LeftInv, NEW p \in Managed, keep[p] > 0
    PROVE  Cardinality(Kept(p)) <= PerLife(keep[p]) * (crashes + 1)
<1> DEFINE A == Kept(p) \ Current(p)
           C == Current(p)
<1>1. A \subseteq Versions /\ C \subseteq Versions /\ Cardinality(C) <= PerLife(keep[p])
  BY CurrentBound DEF Kept
<1>2. A \cap C \subseteq Versions /\ A \cup C \subseteq Versions /\ Kept(p) \subseteq A \cup C
      /\ Kept(p) \subseteq Versions
  BY <1>1
<1>3. Cardinality(A) <= PerLife(keep[p]) * crashes
  BY DEF LeftInv
<1> HIDE DEF A, C
<1>4. /\ IsFiniteSet(A) /\ Cardinality(A) \in Nat /\ IsFiniteSet(C) /\ Cardinality(C) \in Nat
      /\ Cardinality(A \cap C) \in Nat /\ IsFiniteSet(A \cup C) /\ Cardinality(A \cup C) \in Nat
      /\ Cardinality(Kept(p)) \in Nat
  BY <1>1, <1>2, FiniteVersions
<1>5. Cardinality(A \cup C) = Cardinality(A) + Cardinality(C) - Cardinality(A \cap C)
  BY <1>4, FS_Union
<1>6. Cardinality(Kept(p)) <= Cardinality(A \cup C)
  BY <1>2, <1>4, FS_Subset
<1>7. PerLife(keep[p]) \in Nat /\ crashes \in Nat
  BY TypeFacts DEF PerLife
<1>8. PerLife(keep[p]) * (crashes + 1) = PerLife(keep[p]) * crashes + PerLife(keep[p])
      /\ PerLife(keep[p]) * crashes \in Nat
  BY <1>7
<1> QED
  BY <1>1, <1>3, <1>4, <1>5, <1>6, <1>7, <1>8

(* Steps that leave no more behind than there was.                         *)
LEMMA LeftShrinks ==
    ASSUME LeftInv, Types, UNCHANGED <<keep, crashes>>, Managed' = Managed,
           \A p \in Managed : (Kept(p) \ Current(p))' \subseteq Kept(p) \ Current(p)
    PROVE  LeftInv'
<1>1. ASSUME NEW p \in Managed, keep[p] > 0
      PROVE  Cardinality((Kept(p) \ Current(p))') <= PerLife(keep[p]) * crashes
  <2>1. Kept(p) \ Current(p) \subseteq Versions
    BY DEF Kept
  <2>2. IsFiniteSet(Kept(p) \ Current(p)) /\ Cardinality(Kept(p) \ Current(p)) \in Nat
    BY <2>1, FiniteVersions
  <2>3. /\ Cardinality((Kept(p) \ Current(p))') <= Cardinality(Kept(p) \ Current(p))
        /\ IsFiniteSet((Kept(p) \ Current(p))')
    BY <2>2, FS_Subset
  <2>4. Cardinality((Kept(p) \ Current(p))') \in Nat
    BY <2>3, FS_CardinalityType
  <2>5. PerLife(keep[p]) \in Nat /\ crashes \in Nat
    BY TypeFacts DEF PerLife
  <2>6. PerLife(keep[p]) * crashes \in Nat
    BY <2>5
  <2>7. Cardinality(Kept(p) \ Current(p)) <= PerLife(keep[p]) * crashes
    BY <1>1 DEF LeftInv
  <2> QED
    BY <2>2, <2>3, <2>4, <2>6, <2>7
<1> QED
  BY <1>1 DEF LeftInv, PerLife

(* Making room deletes only what this life remembers: nothing is added to  *)
(* what earlier lives left.                                                *)
LEMMA LeftBegin ==
    ASSUME Types, LifeInv, PathsInv, NEW p \in Managed, BeginPart(p)
    PROVE  (Kept(p) \ Current(p))' \subseteq Kept(p) \ Current(p)
<1>1. PICK off \in 0..Len(paths[p]) :
            /\ Len(paths'[p]) = Len(paths[p]) - off
            /\ \A i \in 1..(Len(paths[p]) - off) : paths'[p][i] = paths[p][i + off]
            /\ \A v \in Versions : disk'[p][v] =
                IF v = version THEN "partial"
                ELSE IF v \in {paths[p][i] : i \in 1..off} THEN "absent" ELSE disk[p][v]
  BY BeginEffect
<1>2. /\ step = p /\ step' = p /\ ~open /\ open' /\ version' = version /\ Len(paths[p]) \in Nat
  BY TypeFacts DEF BeginPart
<1>3. SUFFICES ASSUME NEW v \in Versions, v \in Kept(p)', v \notin Current(p)'
               PROVE  v \in Kept(p) /\ v \notin Current(p)
  BY DEF Kept
<1>4. v # version /\ \A i \in 1..Len(paths'[p]) : v # paths'[p][i]
  BY <1>2, <1>3 DEF Current
<1>5. disk'[p][v] # "absent"
  BY <1>3 DEF Kept
<1>6. \A i \in 1..off : paths[p][i] # v
  BY <1>1, <1>4, <1>5
<1>7. disk[p][v] # "absent"
  BY <1>1, <1>4, <1>5, <1>6
<1>8. ASSUME NEW i \in 1..Len(paths[p]), paths[p][i] = v PROVE FALSE
  <2>1. i \in 1..off \/ (i - off \in 1..(Len(paths[p]) - off) /\ (i - off) + off = i)
    BY <1>2
  <2>2. CASE i \in 1..off
    BY <1>6, <1>8, <2>2
  <2>3. CASE i - off \in 1..(Len(paths[p]) - off) /\ (i - off) + off = i
    <3>1. paths'[p][i - off] = paths[p][i] /\ i - off \in 1..Len(paths'[p])
      BY <1>1, <2>3
    <3> QED
      BY <1>4, <1>8, <3>1
  <2> QED
    BY <2>1, <2>2, <2>3
<1> QED
  BY <1>2, <1>7, <1>8 DEF Kept, Current

(* Registering a save adds nothing to what earlier lives left.             *)
LEMMA LeftEnd ==
    ASSUME Types, LifeInv, PathsInv, NEW p \in Managed, EndPart(p)
    PROVE  (Kept(p) \ Current(p))' \subseteq Kept(p) \ Current(p)
<1>1. PICK off \in 0..(Len(paths[p]) + 1), u \in Seq(Versions) :
            /\ Len(u) = Len(paths[p]) + 1 /\ u[Len(u)] = version
            /\ \A i \in 1..Len(paths[p]) : u[i] = paths[p][i]
            /\ Len(paths'[p]) = Len(u) - off
            /\ \A i \in 1..(Len(u) - off) : paths'[p][i] = u[i + off]
            /\ \A v \in Versions : disk'[p][v] =
                IF v \in {u[i] : i \in 1..off} THEN "absent"
                ELSE IF v = version THEN "complete" ELSE disk[p][v]
  BY EndEffect, ZenonT(40)
<1>2. step = p /\ open /\ version' = version /\ Len(paths[p]) \in Nat
  BY TypeFacts DEF EndPart
<1>3. SUFFICES ASSUME NEW v \in Versions, v \in Kept(p)', v \notin Current(p)'
               PROVE  v \in Kept(p) /\ v \notin Current(p)
  BY DEF Kept
<1>4. \A i \in 1..Len(paths'[p]) : v # paths'[p][i]
  BY <1>3 DEF Current
<1>5. disk'[p][v] # "absent"
  BY <1>3 DEF Kept
<1>6. \A i \in 1..off : u[i] # v
  BY <1>1, <1>5
<1>7. ASSUME NEW i \in 1..Len(u), u[i] = v PROVE FALSE
  <2>1. i \in 1..off \/ (i - off \in 1..(Len(u) - off) /\ (i - off) + off = i)
    BY <1>1, <1>2
  <2>2. CASE i \in 1..off
    BY <1>6, <1>7, <2>2
  <2>3. CASE i - off \in 1..(Len(u) - off) /\ (i - off) + off = i
    <3>1. paths'[p][i - off] = u[i] /\ i - off \in 1..Len(paths'[p])
      BY <1>1, <2>3
    <3> QED
      BY <1>4, <1>7, <3>1
  <2> QED
    BY <2>1, <2>2, <2>3
<1>8. v # version /\ \A i \in 1..Len(paths[p]) : paths[p][i] # v
  <2>1. Len(u) \in 1..Len(u) /\ \A i \in 1..Len(paths[p]) : i \in 1..Len(u)
    BY <1>1, <1>2
  <2> QED
    BY <1>1, <1>7, <2>1
<1>9. disk[p][v] # "absent"
  BY <1>1, <1>5, <1>6, <1>8
<1> QED
  BY <1>2, <1>8, <1>9 DEF Kept, Current

(* Only a crash turns saves of this life into left ones, at most a         *)
(* retention limit and one of them.                                        *)
LEMMA LeftStep ==
    ASSUME Types, LifeInv, PathsInv, LeftInv, [Next]_vars
    PROVE  LeftInv'
<1>1. keep' = keep /\ Managed' = Managed
  BY SameParts
<1>2. Managed \in {{"actor"}, {"actor", "critic"}} /\ Parts = Managed \cup {"data"}
  BY TypeFacts DEF Parts
<1>3. ASSUME NEW p \in Managed, BeginPart(p) PROVE LeftInv'
  <2>1. ASSUME NEW q \in Managed, q # p PROVE (Kept(q) \ Current(q))' \subseteq Kept(q) \ Current(q)
    <3>1. paths'[q] = paths[q] /\ disk'[q] = disk[q] /\ step' = step /\ step = p
      BY <1>2, <1>3, <2>1, BeginEffect DEF BeginPart
    <3> QED
      BY <2>1, <3>1 DEF Kept, Current
  <2>2. crashes' = crashes
    BY <1>3 DEF BeginPart
  <2> QED
    BY <1>1, <1>3, <2>1, <2>2, LeftBegin, LeftShrinks
<1>4. ASSUME NEW p \in Managed, EndPart(p) PROVE LeftInv'
  <2>1. ASSUME NEW q \in Managed, q # p PROVE (Kept(q) \ Current(q))' \subseteq Kept(q) \ Current(q)
    <3>1. paths'[q] = paths[q] /\ disk'[q] = disk[q] /\ ~open' /\ step = p
      BY <1>2, <1>4, <2>1, EndOthers DEF EndPart
    <3> QED
      BY <2>1, <3>1 DEF Kept, Current
  <2>2. crashes' = crashes
    BY <1>4 DEF EndPart
  <2> QED
    BY <1>1, <1>4, <2>1, <2>2, LeftEnd, LeftShrinks
<1>5. CASE SaveData
  <2>1. ASSUME NEW q \in Managed PROVE (Kept(q) \ Current(q))' \subseteq Kept(q) \ Current(q)
    <3>1. /\ paths'[q] = paths[q] /\ disk'[q] = disk[q]
          /\ step = "data" /\ step' \in {"data", "tracker"} /\ q # "data" /\ q # "tracker"
      BY <1>2, <1>5 DEF SaveData, Types, After
    <3> QED
      BY <3>1 DEF Kept, Current
  <2>2. crashes' = crashes
    BY <1>5 DEF SaveData
  <2> QED
    BY <1>1, <2>1, <2>2, LeftShrinks
<1>6. CASE Crash
  <2>1. ASSUME NEW p \in Managed, keep[p] > 0
        PROVE  Cardinality((Kept(p) \ Current(p))') <= PerLife(keep[p]) * (crashes + 1)
    <3>1. paths'[p] = <<>> /\ disk' = disk /\ step' = "train" /\ p # "train"
      BY <1>2, <1>6 DEF Crash, storage
    <3>2. (Kept(p) \ Current(p))' = Kept(p)
      <4>1. Len(paths'[p]) = 0
        BY <3>1, EmptySeq
      <4> QED
        BY <3>1, <4>1 DEF Kept, Current
    <3> QED
      BY <2>1, <3>2, KeptBound
  <2>2. crashes' = crashes + 1
    BY <1>6 DEF Crash
  <2> QED
    BY <1>1, <2>1, <2>2 DEF LeftInv, PerLife
<1>7. CASE /\ UNCHANGED <<paths, disk, crashes>>
           /\ \A q \in Managed : ~(step = q /\ open) /\ ~(step' = q /\ open')
  BY <1>1, <1>7, LeftShrinks DEF Kept, Current
<1>8. CASE Train \/ BeginSave \/ OpenTracker \/ CloseTracker
  BY <1>2, <1>7, <1>8
     DEF Train, BeginSave, OpenTracker, CloseTracker, storage, LifeInv
<1>9. CASE StartFromScratch \/ Resume \/ Finish \/ FailToLoad
  BY <1>2, <1>7, <1>9
     DEF StartFromScratch, Resume, StartUp, Finish, FailToLoad, storage, process, LifeInv
<1>10. CASE UNCHANGED vars
  BY <1>1, <1>10, LeftShrinks DEF vars, process, storage, Kept, Current
<1> QED
  BY <1>3, <1>4, <1>5, <1>6, <1>8, <1>9, <1>10 DEF Next

(* With room for two, nothing removes a part of the saved checkpoint.      *)
LEMMA SavedStep ==
    ASSUME RoomForTwo, Types, LifeInv, FolderInv, PathsInv, SavedInv, [Next]_vars
    PROVE  SavedInv'
<1>1. keep' = keep /\ Managed' = Managed /\ Parts' = Parts
  BY SameParts
<1>2. Managed \in {{"actor"}, {"actor", "critic"}} /\ Parts = Managed \cup {"data"}
  BY TypeFacts DEF Parts
<1>3. version \in Nat /\ saved \in Nat
  BY TypeFacts
<1>4. ASSUME NEW p \in Managed, BeginPart(p) PROVE SavedInv'
  <2>1. PICK off \in 0..Len(paths[p]) :
            /\ off = IF keep[p] > 1 /\ Len(paths[p]) >= keep[p]
                     THEN Len(paths[p]) - (keep[p] - 1) ELSE 0
            /\ \A v \in Versions : disk'[p][v] =
                IF v = version THEN "partial"
                ELSE IF v \in {paths[p][i] : i \in 1..off} THEN "absent" ELSE disk[p][v]
            /\ \A q \in Parts : q # p => disk'[q] = disk[q]
    BY <1>4, BeginEffect
  <2>2. step = p /\ saved' = saved /\ ~Behind(p) /\ saved < version
    BY <1>2, <1>4, SavingVersion DEF BeginPart, Behind
  <2>3. Len(paths[p]) \in Nat /\ keep[p] \in Nat
    BY TypeFacts
  <2>4. ASSUME NEW i \in 1..off PROVE paths[p][i] # saved
    <3>1. i \in 1..Len(paths[p]) /\ i < Len(paths[p])
      BY <2>1, <2>3
    <3>2. paths[p][i] < saved /\ paths[p][i] \in Versions
      BY <2>2, <3>1, PathsBounded
    <3> QED
      BY <1>3, <3>2 DEF Versions
  <2> QED
    BY <1>1, <1>3, <2>1, <2>2, <2>4 DEF SavedInv
<1>5. ASSUME NEW p \in Managed, EndPart(p) PROVE SavedInv'
  <2>1. PICK off \in 0..(Len(paths[p]) + 1), u \in Seq(Versions) :
            /\ Len(u) = Len(paths[p]) + 1
            /\ \A i \in 1..Len(paths[p]) : u[i] = paths[p][i]
            /\ off = IF keep[p] > 0 /\ Len(u) > keep[p] THEN Len(u) - keep[p] ELSE 0
            /\ \A v \in Versions : disk'[p][v] =
                IF v \in {u[i] : i \in 1..off} THEN "absent"
                ELSE IF v = version THEN "complete" ELSE disk[p][v]
            /\ \A q \in Parts : q # p => disk'[q] = disk[q]
    BY <1>5, EndEffect, ZenonT(40)
  <2>2. step = p /\ saved' = saved /\ ~Behind(p) /\ saved < version
    BY <1>2, <1>5, SavingVersion DEF EndPart, Behind
  <2>3. Len(paths[p]) \in Nat /\ keep[p] \in Nat /\ keep[p] # 1
    BY TypeFacts DEF RoomForTwo, Types, Managed
  <2>4. ASSUME NEW i \in 1..off PROVE u[i] # saved
    <3>1. i \in 1..Len(paths[p]) /\ i < Len(paths[p])
      BY <2>1, <2>3
    <3>2. paths[p][i] < saved /\ paths[p][i] \in Versions
      BY <2>2, <3>1, PathsBounded
    <3> QED
      BY <1>3, <2>1, <3>1, <3>2 DEF Versions
  <2> QED
    BY <1>1, <1>3, <2>1, <2>2, <2>4 DEF SavedInv
<1>6. CASE SaveData
  <2>1. saved' = saved /\ saved < version /\ version \in Versions
    BY <1>6, SavingVersion DEF SaveData
  <2>2. \A q \in Parts, v \in Versions : v # version => disk'[q][v] = disk[q][v]
    BY <1>2, <1>6, <2>1 DEF SaveData, Types
  <2> QED
    BY <1>1, <1>3, <2>1, <2>2 DEF SavedInv
<1>7. CASE CloseTracker
  <2>1. /\ saved' = version /\ disk' = disk /\ step = "tracker"
    BY <1>7 DEF CloseTracker
  <2>2. ASSUME NEW p \in Managed PROVE disk[p][version] = "complete"
    <3>1. Behind(p)
      BY <1>2, <2>1 DEF Behind
    <3>2. Len(paths[p]) \in Nat /\ Len(paths[p]) >= 1 /\ paths[p][Len(paths[p])] = version
      <4>1. Len(paths[p]) \in Nat
        BY TypeFacts
      <4> QED
        BY <3>1, <4>1 DEF PathsInv, Remembers
    <3>3. Len(paths[p]) \in 1..Len(paths[p])
      BY <3>2
    <3> QED
      BY <3>2, <3>3 DEF PathsInv, Remembers
  <2>3. disk["data"][version] = "complete"
    BY <2>1 DEF FolderInv
  <2> QED
    BY <1>1, <1>2, <2>1, <2>2, <2>3 DEF SavedInv
<1>8. CASE UNCHANGED <<disk, saved>>
  BY <1>1, <1>8 DEF SavedInv
<1> QED
  BY <1>4, <1>5, <1>6, <1>7, <1>8
  DEF Next, vars, process, storage, Train, BeginSave, OpenTracker, Finish, Crash,
      StartFromScratch, Resume, FailToLoad, StartUp
-----------------------------------------------------------------------------
(* Every step keeps the invariant.                                         *)
LEMMA NextInv == IInv /\ [Next]_vars => IInv'
BY TypesStep, LifeStep, DueStep, FolderStep, PathsStep, LeftStep DEF IInv

(* The inductive invariant of saving, crashing and resuming.               *)
THEOREM Invariance == Spec => []IInv
BY InitInv, NextInv, PTL DEF Spec

(* What BaseCheckpointManager has in previous_saved_paths is on the disk   *)
(* and complete, whatever was removed and however often a save was begun.  *)
THEOREM TypeCorrect == Spec => []TypeOK
<1>1. IInv => TypeOK
  <2> SUFFICES ASSUME IInv PROVE TypeOK
    OBVIOUS
  <2>1. ASSUME NEW p \in Managed, NEW i \in DOMAIN paths[p]
        PROVE  disk[p][paths[p][i]] = "complete"
    <3>1. DOMAIN paths[p] = 1..Len(paths[p])
      BY TypeFacts, LenProperties DEF IInv
    <3> QED
      BY <2>1, <3>1 DEF IInv, PathsInv, Remembers
  <2> QED
    BY <2>1 DEF IInv, Types, TypeOK, Statuses, Files
<1> QED
  BY <1>1, Invariance, PTL

(* Unless some max_ckpt_to_keep is 1, the folder that                      *)
(* latest_checkpointed_iteration.txt names is complete at every moment, so *)
(* also when the program is killed in the middle of the next save.         *)
THEOREM TrackerLoadable ==
    ASSUME RoomForTwo PROVE Spec => []TrackerSound
<1>1. Init => SavedInv
  BY InitInv
<1>2. IInv /\ SavedInv /\ [Next]_vars => SavedInv'
  BY SavedStep DEF IInv
<1>3. IInv /\ SavedInv => TrackerSound
  <2> SUFFICES ASSUME IInv, SavedInv, tracker \in Versions
               PROVE  tracker \in folders /\ \A p \in Parts : disk[p][tracker] = "complete"
    BY DEF TrackerSound
  <2>1. tracker = saved
    BY DEF IInv, LifeInv, Torn, Versions
  <2> QED
    BY <2>1 DEF IInv, FolderInv, SavedInv
<1> QED
  BY <1>1, <1>2, <1>3, Invariance, PTL DEF Spec

(* A restart that comes up continues from the last save that returned, for *)
(* every retention limit, and repeats at most save_freq versions.          *)
THEOREM ProgressKept == Spec => RestartKeepsProgress
<1>1. IInv /\ [Next]_vars =>
        [(status = "down" /\ status' = "up") =>
            version' = saved /\ version - version' <= SaveFreq]_vars
  <2> SUFFICES ASSUME IInv, [Next]_vars, status = "down", status' = "up"
               PROVE  version' = saved /\ version - version' <= SaveFreq
    OBVIOUS
  <2>1. StartFromScratch \/ Resume
    BY DEF Next, vars, Train, BeginSave, BeginPart, EndPart, SaveData, OpenTracker,
           CloseTracker, Finish, Crash, FailToLoad
  <2>2. version' = saved
    BY <2>1 DEF StartFromScratch, Resume, StartUp, NoCheckpoint, IInv, LifeInv, FolderInv,
                Types, Absent, Torn, Versions
  <2>3. version \in Nat /\ saved \in Nat /\ SaveFreq \in Nat
    BY TypeFacts, NumberAssumption DEF IInv
  <2>4. PICK m \in Nat : saved < m /\ m <= saved + SaveFreq /\ m % SaveFreq = 0
    BY <2>3, Multiple
  <2>5. ~(m < version)
    BY <2>4 DEF IInv, DueInv
  <2> QED
    BY <2>2, <2>3, <2>4, <2>5
<1> QED
  BY <1>1, Invariance, PTL DEF Spec, RestartKeepsProgress

(* Retention holds within a life of the program for every limit: each life *)
(* adds at most its limit, or two checkpoints with a limit of 1.           *)
THEOREM DiskKept == Spec => []DiskBounded
<1>1. IInv => DiskBounded
  BY KeptBound DEF IInv, DiskBounded, Kept
<1> QED
  BY <1>1, Invariance, PTL
=============================================================================
