--------------------------- MODULE LearningProofs ---------------------------
(***************************************************************************)
(* Proofs about Learning, for any items, histories, replicas and           *)
(* thresholds: no replica trains on a corrected label or with hindsight,   *)
(* no candidate is judged on an item it was fitted on, and a day's roll-up *)
(* counts no suggestion twice.                                             *)
(***************************************************************************)
EXTENDS Learning, SequenceTheorems, FiniteSetTheorems, WellFoundedInduction, TLAPS

Entry == [kind : {"suggestion", "label"}, item : Items, source : Sources, label : Labels,
          auto : BOOLEAN]

(* The frame as it was when the first n entries were all there was. *)
FrameAt(n) == {TrainingRow(history, k) : k \in LabelEvents(history) \cap 1..n}

(* A retrain holds the frame of what it saw; the active model's rows come  *)
(* from the frame of what its trainer saw.                                 *)
FramesAreReal ==
    /\ \A r \in Replicas : pc[r] # "idle" => /\ seen[r] \in 0..Len(history)
                                            /\ frame[r] = FrameAt(seen[r])
    /\ active.seen \in 0..Len(history)
    /\ active.rows \subseteq BuildXY(FrameAt(active.seen))

(* Outcomes are of entries there are, and nothing is rolled up before its  *)
(* day has ended.                                                          *)
DayIsReal ==
    /\ DOMAIN outcome \subseteq 1..Len(history)
    /\ midnight \in 0..Len(history)
    /\ midnight = 0 => metrics = NoMetrics

(* A row of the day counts each of its suggestions at most once. *)
CountedOnce(row) ==
    /\ row.suggestions <= Cardinality(Yesterday)
    /\ row.accepted + row.corrected <= row.suggestions
    /\ row.autoCorrected <= row.corrected /\ row.auto + row.abstained <= row.suggestions

(* So does what a nightly job has aggregated and not yet written, however  *)
(* long ago.                                                               *)
TalliesAreReal ==
    /\ DOMAIN tally = Reporters
    /\ \A r \in Reporters : tally[r] # Nothing =>
            midnight > 0 /\ \E row : tally[r] = <<row>> /\ CountedOnce(row)

LearningInv ==
    /\ history \in Seq(Entry)
    /\ pc \in [Replicas -> {"idle", "train", "ship"}]
    /\ seen \in [Replicas -> Nat]
    /\ DOMAIN frame = Replicas
    /\ FramesAreReal
    /\ DayIsReal
    /\ TalliesAreReal
    /\ CountedOnce(metrics)

-----------------------------------------------------------------------------
(* A bounded set of numbers that is not empty has a greatest one. *)
LEMMA GreatestNumber ==
    ASSUME NEW n \in Nat, NEW T \in SUBSET (1..n), T # {}
    PROVE  \E m \in T : \A k \in T : k <= m
<1> DEFINE R == {ss \in Nat \X Nat : ss[1] < ss[2]}
           U == {n - k : k \in T}
<1>1. OpToRel(<, Nat) = R
  BY DEF OpToRel
<1>2. IsWellFoundedOn(R, Nat)
  BY <1>1, NatLessThanWellFounded
<1>3. \A x, y \in Nat : y < x => <<y, x>> \in R
  OBVIOUS
<1>4. U \subseteq Nat /\ U # {}
  <2>1. \A k \in T : n - k \in Nat
    OBVIOUS
  <2>2. PICK k \in T : TRUE
    OBVIOUS
  <2>3. n - k \in U
    BY <2>2
  <2> QED
    BY <2>1, <2>3
<1> HIDE DEF R, U
<1>5. PICK x \in U : \A y \in U : ~ (<<y, x>> \in R)
  BY <1>2, <1>4, WFMin
<1>6. \A y \in U : ~ (y < x)
  BY <1>3, <1>4, <1>5
<1>7. PICK m \in T : x = n - m
  BY DEF U
<1>8. \A k \in T : n - k \in U
  BY DEF U
<1> QED
  BY <1>6, <1>7, <1>8

(* The suggestions a label event's snapshot is taken from. *)
Before(h, k) == {j \in 1..k : IsSuggestion(h[j]) /\ h[j].item = h[k].item /\ h[j].source # "early"}

(* The greatest number of a set, 0 if it is empty. *)
Greatest(of) == IF of = {} THEN 0 ELSE CHOOSE j \in of : \A i \in of : i <= j

(* The snapshot depends on nothing else. *)
LEMMA SnapshotOf ==
    \A h, k : Snapshot(h, k) = Greatest(Before(h, k))
BY DEF Snapshot, Before, Greatest

(* The snapshot is one of them, or there is none. *)
LEMMA SnapshotIsOne ==
    ASSUME NEW h \in Seq(Entry), NEW k \in LabelEvents(h)
    PROVE  Snapshot(h, k) # 0 => Snapshot(h, k) \in Before(h, k) /\ Snapshot(h, k) < k
<1>1. k \in 1..Len(h) /\ Len(h) \in Nat /\ ~IsSuggestion(h[k])
  BY LenProperties DEF LabelEvents
<1>2. SUFFICES ASSUME Before(h, k) # {}
               PROVE  Snapshot(h, k) \in Before(h, k) /\ Snapshot(h, k) < k
  BY SnapshotOf DEF Greatest
<1>3. Before(h, k) \in SUBSET (1..k)
  BY DEF Before
<1>4. \E j \in Before(h, k) : \A i \in Before(h, k) : i <= j
  <2>1. k \in Nat
    BY <1>1
  <2> QED
    BY <2>1, <1>2, <1>3, GreatestNumber
<1>5. Snapshot(h, k) = CHOOSE j \in Before(h, k) : \A i \in Before(h, k) : i <= j
  BY <1>2, SnapshotOf DEF Greatest
<1>6. Snapshot(h, k) \in Before(h, k)
  BY <1>4, <1>5
<1>7. Snapshot(h, k) # k
  BY <1>1, <1>6 DEF Before
<1> QED
  BY <1>1, <1>6, <1>7 DEF Before

(* What was there stays there: an entry more changes no earlier row. *)
LEMMA RowsAreStable ==
    ASSUME history \in Seq(Entry), NEW e \in Entry, history' = Append(history, e)
    PROVE  /\ Len(history) \in Nat /\ Len(history') = Len(history) + 1
           /\ history' \in Seq(Entry)
           /\ \A k \in 1..Len(history) : history'[k] = history[k]
           /\ \A n \in 0..Len(history) : FrameAt(n)' = FrameAt(n)
<1>1. /\ Len(history) \in Nat /\ Len(history') = Len(history) + 1
      /\ history' \in Seq(Entry)
      /\ \A k \in 1..Len(history) : history'[k] = history[k]
      /\ DOMAIN history = 1..Len(history) /\ DOMAIN history' = 1..(Len(history) + 1)
  BY AppendProperties, LenProperties
<1>2. ASSUME NEW k \in 1..Len(history)
      PROVE  TrainingRow(history', k) = TrainingRow(history, k)
  <2>1. \A j \in 1..k : history'[j] = history[j]
    BY <1>1
  <2>2. Before(history', k) = Before(history, k)
    BY <1>2, <2>1 DEF Before
  <2>3. Snapshot(history', k) = Snapshot(history, k)
    BY <2>2, SnapshotOf
  <2> QED
    BY <1>1, <2>3 DEF TrainingRow
<1>3. \A n \in 0..Len(history) : LabelEvents(history') \cap 1..n = LabelEvents(history) \cap 1..n
  BY <1>1 DEF LabelEvents
<1>4. ASSUME NEW n \in 0..Len(history) PROVE FrameAt(n)' = FrameAt(n)
  <2> DEFINE K == LabelEvents(history) \cap 1..n
  <2>1. FrameAt(n)' = {TrainingRow(history', k) : k \in K}
    BY <1>3 DEF FrameAt
  <2>2. \A k \in K : k \in 1..Len(history)
    BY <1>1
  <2>3. \A k \in K : TrainingRow(history', k) = TrainingRow(history, k)
    BY <1>2, <2>2
  <2> HIDE DEF K
  <2> QED
    BY <2>1, <2>3 DEF FrameAt, K
<1> QED
  BY <1>1, <1>4

-----------------------------------------------------------------------------
(* The whole history's frame is the frame at its end. *)
LEMMA FetchIsFrameAt ==
    ASSUME history \in Seq(Entry)
    PROVE  FetchTrainingFrame(history) = FrameAt(Len(history)) /\ Len(history) \in Nat
<1>1. DOMAIN history = 1..Len(history) /\ Len(history) \in Nat
  BY LenProperties
<1>2. LabelEvents(history) \cap 1..Len(history) = LabelEvents(history)
  BY <1>1 DEF LabelEvents
<1> QED
  BY <1>1, <1>2 DEF FetchTrainingFrame, FrameAt

(* The day's suggestions are finitely many. *)
LEMMA YesterdayIsFinite ==
    ASSUME history \in Seq(Entry), DayIsReal
    PROVE  IsFiniteSet(Yesterday) /\ Cardinality(Yesterday) \in Nat
<1>1. Len(history) \in Nat
  BY LenProperties
<1>2. IsFiniteSet(1..Len(history))
  BY <1>1, FS_Interval
<1>3. Yesterday \subseteq 1..Len(history)
  BY DEF Yesterday, DayIsReal
<1> QED
  BY <1>2, <1>3, FS_Subset, FS_CardinalityType

(* Two disjoint parts of a finite set are together no larger than it. *)
LEMMA DisjointParts ==
    ASSUME NEW S, IsFiniteSet(S), NEW A \in SUBSET S, NEW B \in SUBSET S, A \cap B = {}
    PROVE  Cardinality(A) + Cardinality(B) <= Cardinality(S)
<1>1. IsFiniteSet(A) /\ IsFiniteSet(B) /\ Cardinality(A) \in Nat /\ Cardinality(B) \in Nat
  BY FS_Subset, FS_CardinalityType
<1>2. Cardinality(A \cup B) = Cardinality(A) + Cardinality(B)
  <2>1. Cardinality(A \cup B) = Cardinality(A) + Cardinality(B) - Cardinality(A \cap B)
    BY <1>1, FS_Union
  <2>2. Cardinality(A \cap B) = 0
    BY FS_EmptySet
  <2> QED
    BY <2>1, <2>2, <1>1
<1>3. A \cup B \subseteq S
  OBVIOUS
<1>4. Cardinality(A \cup B) <= Cardinality(S)
  BY <1>3, FS_Subset
<1> QED
  BY <1>2, <1>4

(* Whatever the outcomes, the aggregate of a day counts each of its        *)
(* suggestions at most once in each respect.                               *)
LEMMA AggregateCountsOnce ==
    ASSUME NEW rows, IsFiniteSet(rows), NEW out
    PROVE  LET new == Aggregate(rows, out) IN
           /\ new.suggestions = Cardinality(rows)
           /\ new.accepted + new.corrected <= new.suggestions
           /\ new.autoCorrected <= new.corrected
           /\ new.auto + new.abstained <= new.suggestions
<1> DEFINE accepted == {k \in rows : out[k] = "accepted"}
           corrected == {k \in rows : out[k] = "corrected"}
           abstained == {k \in rows : history[k].label \notin Classes}
           autos == {k \in rows : history[k].label \in Classes /\ history[k].auto}
           new == Aggregate(rows, out)
<1>1. /\ new.suggestions = Cardinality(rows)
      /\ new.accepted = Cardinality(accepted) /\ new.corrected = Cardinality(corrected)
      /\ new.abstained = Cardinality(abstained) /\ new.auto = Cardinality(autos)
      /\ new.autoCorrected = Cardinality(autos \cap corrected)
  BY DEF Aggregate
<1>2. Cardinality(accepted) + Cardinality(corrected) <= Cardinality(rows)
  <2>1. accepted \in SUBSET rows /\ corrected \in SUBSET rows /\ accepted \cap corrected = {}
    OBVIOUS
  <2> HIDE DEF accepted, corrected
  <2> QED
    BY <2>1, DisjointParts
<1>3. Cardinality(autos) + Cardinality(abstained) <= Cardinality(rows)
  <2>1. autos \in SUBSET rows /\ abstained \in SUBSET rows /\ autos \cap abstained = {}
    OBVIOUS
  <2> HIDE DEF autos, abstained
  <2> QED
    BY <2>1, DisjointParts
<1>4. Cardinality(autos \cap corrected) <= Cardinality(corrected)
  <2>1. corrected \in SUBSET rows /\ autos \cap corrected \in SUBSET corrected
    OBVIOUS
  <2> HIDE DEF autos, corrected
  <2>2. IsFiniteSet(corrected)
    BY <2>1, FS_Subset
  <2> QED
    BY <2>1, <2>2, FS_Subset
<1> HIDE DEF accepted, corrected, abstained, autos, new
<1>5. /\ new.suggestions = Cardinality(rows)
      /\ new.accepted + new.corrected <= new.suggestions
      /\ new.autoCorrected <= new.corrected
      /\ new.auto + new.abstained <= new.suggestions
  BY <1>1, <1>2, <1>3, <1>4
<1> QED
  BY <1>5 DEF new

-----------------------------------------------------------------------------
(* The invariant holds at first. *)
LEMMA InitLearningInv == Init => LearningInv
<1> SUFFICES ASSUME Init PROVE LearningInv
  OBVIOUS
<1>1. history \in Seq(Entry) /\ Len(history) \in Nat /\ DOMAIN history = 1..Len(history)
  BY LearningAssumption, LenProperties DEF Init, Entry
<1>2. FramesAreReal
  BY <1>1 DEF Init, FramesAreReal, NoModel
<1>3. DayIsReal
  BY <1>1 DEF Init, DayIsReal, Outcomes
<1>4. CountedOnce(metrics)
  BY <1>1, <1>3, YesterdayIsFinite DEF Init, CountedOnce, NoMetrics
<1>5. TalliesAreReal
  BY DEF Init, TalliesAreReal
<1> QED
  BY <1>1, <1>2, <1>3, <1>4, <1>5 DEF Init, LearningInv

(* The counts are of the day, and nothing else. *)
LEMMA SameCounts ==
    ASSUME LearningInv, Yesterday' = Yesterday, UNCHANGED <<midnight, metrics, tally>>
    PROVE  TalliesAreReal' /\ CountedOnce(metrics)'
<1>1. \A row : CountedOnce(row) => CountedOnce(row)'
  BY DEF CountedOnce
<1>2. CountedOnce(metrics)'
  BY DEF LearningInv, CountedOnce
<1>3. TalliesAreReal'
  BY <1>1 DEF LearningInv, TalliesAreReal
<1> QED
  BY <1>2, <1>3

(* An entry more, a suggestion or a label, leaves all of it. *)
LEMMA EntryKeeps ==
    ASSUME LearningInv, NEW e \in Entry, history' = Append(history, e),
           DOMAIN outcome' \subseteq DOMAIN outcome \cup {Len(history')},
           DOMAIN outcome \subseteq DOMAIN outcome',
           UNCHANGED <<day, trainers>>
    PROVE  LearningInv'
<1>1. history \in Seq(Entry)
  BY DEF LearningInv
<1>2. /\ Len(history) \in Nat /\ Len(history') = Len(history) + 1
      /\ history' \in Seq(Entry)
      /\ \A n \in 0..Len(history) : FrameAt(n)' = FrameAt(n)
  BY <1>1, RowsAreStable
<1>3. FramesAreReal'
  <2>1. ASSUME NEW r \in Replicas, pc'[r] # "idle"
        PROVE  seen'[r] \in 0..Len(history') /\ frame'[r] = FrameAt(seen[r])'
    BY <1>2, <2>1 DEF LearningInv, FramesAreReal, trainers
  <2>2. active'.seen \in 0..Len(history')
    BY <1>2 DEF LearningInv, FramesAreReal, trainers
  <2>3. FrameAt(active.seen)' = FrameAt(active.seen)
    BY <1>2 DEF LearningInv, FramesAreReal, trainers
  <2>4. active'.rows \subseteq BuildXY(FrameAt(active.seen)')
    BY <2>3 DEF LearningInv, FramesAreReal, trainers
  <2> QED
    BY <2>1, <2>2, <2>4 DEF FramesAreReal
<1>4. DayIsReal'
  BY <1>2 DEF LearningInv, DayIsReal, day
<1>5. Yesterday' = Yesterday
  BY <1>2 DEF LearningInv, DayIsReal, Yesterday, day
<1>6. TalliesAreReal' /\ CountedOnce(metrics)'
  BY <1>5, SameCounts DEF LearningInv, day
<1> QED
  BY <1>2, <1>3, <1>4, <1>6 DEF LearningInv, trainers

(* A retrain's step: it reads the history and what it read stays with it. *)
LEMMA RetrainKeeps ==
    ASSUME LearningInv, NEW r \in Replicas, Retrain(r)
    PROVE  LearningInv'
<1>1. /\ UNCHANGED <<history, outcome, midnight, metrics, tally>>
  BY DEF day, Retrain, Fetch, Raise, Ship, Cold, GatePassed, GateRejected
<1>2. history \in Seq(Entry) /\ Len(history) \in Nat
      /\ FetchTrainingFrame(history) = FrameAt(Len(history))
  BY FetchIsFrameAt DEF LearningInv
<1>3. \A n : FrameAt(n)' = FrameAt(n)
  BY <1>1 DEF FrameAt
<1>4. DayIsReal' /\ TalliesAreReal' /\ CountedOnce(metrics)'
  <2>1. Yesterday' = Yesterday
    BY <1>1 DEF Yesterday
  <2> QED
    BY <1>1, <2>1, SameCounts DEF LearningInv, DayIsReal
<1>5. /\ pc' \in [Replicas -> {"idle", "train", "ship"}]
      /\ seen' \in [Replicas -> Nat]
      /\ DOMAIN frame' = Replicas
  <2>1. CASE Fetch(r)
    BY <1>2, <2>1 DEF LearningInv, Fetch
  <2>2. CASE GatePassed(r)
    BY <2>2 DEF LearningInv, GatePassed
  <2>3. CASE Idle(r)
    BY <2>3 DEF LearningInv, Idle
  <2> QED
    BY <2>1, <2>2, <2>3 DEF Retrain, Raise, Ship, Cold, GateRejected
<1>6. \A q \in Replicas : pc'[q] # "idle" => /\ seen'[q] \in 0..Len(history)
                                            /\ frame'[q] = FrameAt(seen'[q])
  <2> SUFFICES ASSUME NEW q \in Replicas, pc'[q] # "idle"
               PROVE  seen'[q] \in 0..Len(history) /\ frame'[q] = FrameAt(seen'[q])
    OBVIOUS
  <2>0. pc[q] # "idle" => seen[q] \in 0..Len(history) /\ frame[q] = FrameAt(seen[q])
    BY DEF LearningInv, FramesAreReal
  <2>1. CASE Fetch(r)
    <3>1. CASE q = r
      <4>1. seen'[q] = Len(history) /\ frame'[q] = FrameAt(Len(history))
        BY <1>2, <2>1, <3>1 DEF LearningInv, Fetch
      <4> QED
        BY <1>2, <4>1
    <3>2. CASE q # r
      <4>1. pc'[q] = pc[q] /\ seen'[q] = seen[q] /\ frame'[q] = frame[q]
        BY <2>1, <3>2 DEF LearningInv, Fetch
      <4> QED
        BY <2>0, <4>1
    <3> QED
      BY <3>1, <3>2
  <2>2. CASE GatePassed(r)
    <3>1. pc[q] # "idle" /\ seen'[q] = seen[q] /\ frame'[q] = frame[q]
      BY <2>2 DEF LearningInv, GatePassed
    <3> QED
      BY <2>0, <3>1
  <2>3. CASE Idle(r)
    <3>1. q # r
      BY <2>3 DEF LearningInv, Idle
    <3>2. pc'[q] = pc[q] /\ seen'[q] = seen[q] /\ frame'[q] = frame[q]
      BY <2>3, <3>1 DEF LearningInv, Idle
    <3> QED
      BY <2>0, <3>2
  <2> QED
    BY <2>1, <2>2, <2>3 DEF Retrain, Raise, Ship, Cold, GateRejected
<1>7. /\ active'.seen \in 0..Len(history)
      /\ active'.rows \subseteq BuildXY(FrameAt(active'.seen))
  <2>1. CASE Ship(r)
    <3>1. /\ active'.rows = BuildXY(frame[r]) /\ active'.seen = seen[r]
      BY <2>1 DEF Ship
    <3>2. seen[r] \in 0..Len(history) /\ frame[r] = FrameAt(seen[r])
      BY <2>1 DEF Ship, LearningInv, FramesAreReal
    <3> QED
      BY <3>1, <3>2
  <2>2. CASE ~Ship(r)
    <3>1. active' = active
      BY <2>2 DEF Retrain, Fetch, Raise, Cold, GatePassed, GateRejected
    <3> QED
      BY <3>1 DEF LearningInv, FramesAreReal
  <2> QED
    BY <2>1, <2>2
<1>8. FramesAreReal'
  <2>1. Len(history') = Len(history) /\ \A n : FrameAt(n)' = FrameAt(n)
    BY <1>1, <1>3
  <2>2. FrameAt(active.seen)' = FrameAt(active'.seen) /\ \A q \in Replicas : FrameAt(seen[q])' = FrameAt(seen'[q])
    BY <1>1 DEF FrameAt
  <2> QED
    BY <2>1, <2>2, <1>6, <1>7 DEF FramesAreReal
<1> QED
  BY <1>1, <1>2, <1>4, <1>5, <1>8 DEF LearningInv

(* Every step keeps the invariant. *)
LEMMA StepLearningInv == LearningInv /\ [Next]_vars => LearningInv'
<1> SUFFICES ASSUME LearningInv, [Next]_vars PROVE LearningInv'
  OBVIOUS
<1>0. history \in Seq(Entry) /\ Len(history) \in Nat
  BY LenProperties DEF LearningInv
<1>1. CASE Suggest
  <2>1. PICK s \in Suggestions :
            history' = Append(history, [kind |-> "suggestion", item |-> s.item, source |-> s.source,
                                        label |-> s.label, auto |-> s.auto])
    BY <1>1 DEF Suggest
  <2>2. [kind |-> "suggestion", item |-> s.item, source |-> s.source,
         label |-> s.label, auto |-> s.auto] \in Entry
    BY LearningAssumption DEF Entry
  <2>3. DOMAIN outcome' = DOMAIN outcome \cup {Len(history')}
    BY <1>1 DEF Suggest
  <2>4. UNCHANGED <<day, trainers>>
    BY <1>1 DEF Suggest
  <2> QED
    BY <2>1, <2>2, <2>3, <2>4, EntryKeeps
<1>2. CASE DefectUpdate
  <2>1. PICK i \in Items, l \in Given :
            history' = Append(history, [kind |-> "label", item |-> i, source |-> "rp", label |-> l,
                                        auto |-> FALSE])
    BY <1>2 DEF DefectUpdate
  <2>2. [kind |-> "label", item |-> i, source |-> "rp", label |-> l, auto |-> FALSE] \in Entry
    <3>1. l \in Labels
      BY LearningAssumption
    <3>2. FALSE \in BOOLEAN /\ "rp" \in Sources
      BY DEF Sources
    <3> QED
      BY <3>1, <3>2 DEF Entry
  <2>3. DOMAIN outcome' = DOMAIN outcome
    BY <1>2 DEF DefectUpdate
  <2>4. UNCHANGED <<day, trainers>>
    BY <1>2 DEF DefectUpdate
  <2> QED
    BY <2>1, <2>2, <2>3, <2>4, EntryKeeps
<1>3. ASSUME UNCHANGED <<history, outcome, trainers>>
      PROVE  /\ history' \in Seq(Entry) /\ pc' \in [Replicas -> {"idle", "train", "ship"}]
             /\ seen' \in [Replicas -> Nat] /\ DOMAIN frame' = Replicas
             /\ FramesAreReal'
  BY <1>3 DEF LearningInv, FramesAreReal, FrameAt, trainers
<1>4. CASE Midnight
  <2>1. UNCHANGED <<history, outcome, trainers, tally>> /\ metrics = NoMetrics /\ metrics' = metrics
    BY <1>4 DEF Midnight, LearningInv, DayIsReal
  <2>2. DayIsReal'
    BY <1>0, <1>4, <2>1 DEF LearningInv, DayIsReal, Midnight
  <2>3. Cardinality(Yesterday') \in Nat
    <3>1. IsFiniteSet(1..Len(history))
      BY <1>0, FS_Interval
    <3>2. Yesterday' \subseteq 1..Len(history)
      BY <2>1 DEF LearningInv, DayIsReal, Yesterday
    <3> QED
      BY <3>1, <3>2, FS_Subset, FS_CardinalityType
  <2>4. CountedOnce(metrics)'
    BY <2>1, <2>3 DEF CountedOnce, NoMetrics
  <2>5. TalliesAreReal'
    BY <1>4, <2>1 DEF LearningInv, TalliesAreReal, Midnight
  <2> QED
    BY <1>3, <2>1, <2>2, <2>4, <2>5 DEF LearningInv
<1>5. ASSUME NEW r \in Reporters, FetchDay(r) PROVE LearningInv'
  <2>1. UNCHANGED <<history, outcome, midnight, metrics, trainers>>
        /\ midnight > 0 /\ tally' = [tally EXCEPT ![r] = <<Aggregate(Yesterday, outcome)>>]
    BY <1>5 DEF FetchDay
  <2>2. DayIsReal' /\ Yesterday' = Yesterday
    BY <2>1 DEF LearningInv, DayIsReal, Yesterday
  <2>3. IsFiniteSet(Yesterday) /\ Cardinality(Yesterday) \in Nat
    BY <1>0, YesterdayIsFinite DEF LearningInv
  <2> DEFINE row == Aggregate(Yesterday, outcome)
  <2>4. CountedOnce(row)
    BY <2>3, AggregateCountsOnce DEF CountedOnce
  <2>5. tally' = [tally EXCEPT ![r] = <<row>>]
    BY <2>1
  <2> HIDE DEF row
  <2>6. \A x : CountedOnce(x) => CountedOnce(x)'
    BY <2>2 DEF CountedOnce
  <2>7. CountedOnce(metrics)'
    BY <2>1, <2>2 DEF LearningInv, CountedOnce
  <2>8. TalliesAreReal'
    <3>1. DOMAIN tally = Reporters /\ DOMAIN tally' = Reporters
      BY <2>5 DEF LearningInv, TalliesAreReal
    <3>2. \A q \in Reporters : tally'[q] # Nothing =>
              midnight' > 0 /\ \E x : tally'[q] = <<x>> /\ CountedOnce(x)
      BY <2>1, <2>4, <2>5, <3>1 DEF LearningInv, TalliesAreReal
    <3> QED
      BY <2>6, <3>1, <3>2 DEF TalliesAreReal
  <2> QED
    BY <1>3, <2>1, <2>2, <2>7, <2>8 DEF LearningInv
<1>8. ASSUME NEW r \in Reporters, WriteDay(r) PROVE LearningInv'
  <2>1. UNCHANGED <<history, outcome, midnight, trainers>>
        /\ tally[r] # Nothing /\ metrics' = tally[r][1] /\ tally' = [tally EXCEPT ![r] = Nothing]
    BY <1>8 DEF WriteDay, UpsertDailyMetrics
  <2>2. PICK row : tally[r] = <<row>> /\ CountedOnce(row) /\ midnight > 0
    BY <2>1 DEF LearningInv, TalliesAreReal
  <2>3. DayIsReal' /\ Yesterday' = Yesterday
    BY <2>1, <2>2 DEF LearningInv, DayIsReal, Yesterday
  <2>4. \A x : CountedOnce(x) => CountedOnce(x)'
    BY <2>3 DEF CountedOnce
  <2>5. CountedOnce(metrics)'
    <3>1. metrics' = row
      BY <2>1, <2>2
    <3> QED
      BY <2>2, <2>3, <3>1 DEF CountedOnce
  <2>6. TalliesAreReal'
    BY <2>1, <2>4 DEF LearningInv, TalliesAreReal
  <2> QED
    BY <1>3, <2>1, <2>3, <2>5, <2>6 DEF LearningInv
<1>6. ASSUME NEW r \in Replicas, Retrain(r) PROVE LearningInv'
  BY <1>6, RetrainKeeps
<1>7. CASE UNCHANGED vars
  <2>1. UNCHANGED <<history, outcome, trainers>> /\ UNCHANGED <<midnight, metrics, tally>>
    BY <1>7 DEF vars, trainers
  <2>2. Yesterday' = Yesterday /\ DayIsReal'
    BY <2>1 DEF LearningInv, DayIsReal, Yesterday
  <2>3. TalliesAreReal' /\ CountedOnce(metrics)'
    BY <2>1, <2>2, SameCounts
  <2> QED
    BY <1>3, <2>1, <2>2, <2>3 DEF LearningInv
<1> QED
  BY <1>1, <1>2, <1>4, <1>5, <1>6, <1>7, <1>8 DEF Next

(* The invariant always holds. *)
LEMMA LearningInvHolds == Spec => []LearningInv
BY InitLearningInv, StepLearningInv, PTL DEF Spec

-----------------------------------------------------------------------------
(* The invariant rules out a corrected label and hindsight in the active   *)
(* model: its rows are the newest of their items in the frame it was       *)
(* fitted on, which is the frame of the history as its trainer read it.    *)
LEMMA HonestRows == LearningInv => TrainedHonestly
<1> SUFFICES ASSUME LearningInv, NEW row \in active.rows
             PROVE  /\ ~LaterLabel(row, active.seen)
                    /\ row.features < row.at
                    /\ history[row.features].source # "early"
                    /\ history[row.features].item = row.item
  BY DEF TrainedHonestly
<1> DEFINE n == active.seen
<1>1. history \in Seq(Entry) /\ Len(history) \in Nat /\ DOMAIN history = 1..Len(history)
  BY LenProperties DEF LearningInv
<1>2. n \in 0..Len(history) /\ row \in BuildXY(FrameAt(n))
  BY DEF LearningInv, FramesAreReal
<1>3. row \in FrameAt(n) /\ row.features # 0
      /\ \A y \in FrameAt(n) : y.item = row.item => y.at <= row.at
  BY <1>2 DEF BuildXY, DedupLatest, Usable
<1>4. PICK k \in LabelEvents(history) \cap 1..n : row = TrainingRow(history, k)
  BY <1>3 DEF FrameAt
<1>5. row.item = history[k].item /\ row.at = k /\ row.features = Snapshot(history, k)
  BY <1>4 DEF TrainingRow
<1>6. Snapshot(history, k) \in Before(history, k) /\ Snapshot(history, k) < k
  BY <1>1, <1>3, <1>4, <1>5, SnapshotIsOne
<1>7. ASSUME NEW j \in (k + 1)..n, ~IsSuggestion(history[j]), history[j].item = row.item
      PROVE  FALSE
  <2>1. j \in LabelEvents(history) \cap 1..n /\ j > k
    BY <1>1, <1>2, <1>4, <1>7 DEF LabelEvents
  <2>2. TrainingRow(history, j) \in FrameAt(n)
    BY <2>1 DEF FrameAt
  <2>3. TrainingRow(history, j).item = row.item /\ TrainingRow(history, j).at = j
    BY <1>7 DEF TrainingRow
  <2>4. j <= row.at
    BY <1>3, <2>2, <2>3
  <2> QED
    BY <1>2, <1>4, <1>5, <2>1, <2>4
<1>8. ~LaterLabel(row, n)
  BY <1>5, <1>7 DEF LaterLabel
<1> QED
  BY <1>5, <1>6, <1>8 DEF Before

(* No active model was ever fitted on a label that had been corrected when *)
(* its frame was read, or on features recorded after the label, whatever   *)
(* the replicas, their schemas and the order of labels and suggestions     *)
(* (labels.py:58-123, trainer.py:70-108).                                  *)
THEOREM NoHindsight == Spec => []TrainedHonestly
BY LearningInvHolds, HonestRows, PTL

(* Among the events replayed there is one of each item. *)
LEMMA OneEventPerItem ==
    ASSUME NEW n, NEW rows \in SUBSET FrameAt(n),
           NEW x \in DedupLatest(rows), NEW y \in DedupLatest(rows), x.item = y.item
    PROVE  x = y
<1>1. PICK j \in LabelEvents(history) \cap 1..n : x = TrainingRow(history, j)
  BY DEF DedupLatest, FrameAt
<1>2. PICK k \in LabelEvents(history) \cap 1..n : y = TrainingRow(history, k)
  BY DEF DedupLatest, FrameAt
<1>3. x.at <= y.at /\ y.at <= x.at
  BY DEF DedupLatest
<1>4. x.at = j /\ y.at = k /\ j \in Int /\ k \in Int
  BY <1>1, <1>2 DEF TrainingRow
<1> QED
  BY <1>1, <1>2, <1>3, <1>4

(* So no item is on both sides of the split. *)
LEMMA SlicesDisjoint == LearningInv => HeldOut
<1> SUFFICES ASSUME LearningInv, NEW r \in Replicas, pc[r] # "idle",
                    NEW t \in TrainSlice(UsableEvents(frame[r])),
                    NEW e \in EvalSlice(UsableEvents(frame[r])), t.item = e.item
             PROVE  FALSE
  BY DEF HeldOut
<1>1. frame[r] = FrameAt(seen[r])
  BY DEF LearningInv, FramesAreReal
<1> DEFINE usable == {x \in frame[r] : Usable(x)}
<1>2. usable \in SUBSET FrameAt(seen[r])
  BY <1>1
<1>3. t \in DedupLatest(usable) /\ e \in DedupLatest(usable)
  BY DEF TrainSlice, EvalSlice, UsableEvents
<1>4. t = e
  <2> HIDE DEF usable
  <2> QED
    BY <1>2, <1>3, OneEventPerItem
<1> QED
  BY <1>4 DEF EvalSlice

(* The gate's train and eval slices share no item, whatever the history,   *)
(* the frame read and the thresholds (eval.py:103-132, gate.py:165-213).   *)
THEOREM GateIsLeakageFree == Spec => []HeldOut
BY LearningInvHolds, SlicesDisjoint, PTL

(* However often and by however many replicas the roll-up is run, while    *)
(* outcomes change under it and a job writes what it read before another   *)
(* wrote, the day's row counts no suggestion twice                         *)
(* (stats.py:102-107 and 174-216).                                         *)
THEOREM RollupIsIdempotent == Spec => []RollupCountsOnce
<1>1. LearningInv => RollupCountsOnce
  BY DEF LearningInv, CountedOnce, RollupCountsOnce
<1> QED
  BY <1>1, LearningInvHolds, PTL
=============================================================================
