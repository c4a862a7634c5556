------------------------------ MODULE Learning ------------------------------
(***************************************************************************)
(* What a retrain learns from and when it may replace the active model:    *)
(* the training frame of db/repositories/labels.py, ml/trainer.py,         *)
(* the split of ml/eval.py, ml/gate.py, and the nightly rollup of          *)
(* ml/reporting.py over the same suggestion rows.  When a retrain is tried *)
(* is Retrain.tla, how a set of artifacts is swapped Serving.tla; here     *)
(* replicas, perhaps of two feature schemas, fetch, train, gate and ship.  *)
(* The booster is external: a model is the rows it was fitted on, and its  *)
(* scores on the held-out slice are any of Reports (in thousandths).  A    *)
(* row carries the place of its event in the history, which is all that    *)
(* the order of a list of rows says: the lists are sets here.              *)
(***************************************************************************)
EXTENDS Integers, Sequences, FiniteSets

CONSTANTS
    Replicas, Schema,    \* the processes, and the FEATURE_SCHEMA_VER of each one's image
    Reporters,           \* the replicas whose nightly roll-up is looked at
    Items,
    Starts,              \* histories a behaviour may start from
    Suggestions,         \* suggestions that may be stored: [item, source, label, auto]
    Given,               \* labels people give
    MinEvents,           \* GBM_MIN_EVENTS
    Reports,             \* [f1, auto, abstain, ece]; auto is Empty when the band is
    MaxHistory, MaxRaises   \* bounds: entries of the history, attempts that end in an error

Classes == {"pb", "ab", "si", "nd"}
Labels == Classes \cup {"ti"}
Empty == -1
NoModel == [rows |-> {}, seen |-> 0, schema |-> 0]

(* Who made a suggestion.  A full decision and the cold-start answer of the language model   *)
(* are both stored with a NULL source, but the latter's features hold its rubric rule and no *)
(* feature vector (insert_coldstart); a label is ReportPortal's.                              *)
Sources == {"early", "model", "coldstart", "rp"}

ASSUME LearningAssumption ==
    /\ Replicas # {} /\ Reporters \subseteq Replicas /\ MinEvents \in Nat \ {0}
    /\ Starts \subseteq Seq([kind : {"suggestion", "label"}, item : Items, source : Sources, label : Labels,
                             auto : BOOLEAN])
    /\ Suggestions \subseteq [item : Items, source : Sources, label : Labels, auto : BOOLEAN]
    /\ Given \subseteq Labels /\ \A r \in Replicas : Schema[r] > 0

VARIABLES
    history,    \* suggestions stored and labels given, in the order of their times
    outcome,    \* of each suggestion: "pending", "accepted" or "corrected"
    midnight,   \* the length of the history at the end of the first day, 0 before
    metrics,    \* that day's metrics_daily row; one stands for those of all projects
    tally,      \* what each replica's nightly job has aggregated and not yet written
    pc, seen, frame,    \* each replica's retrain: its place, and the history and frame it read
    active,     \* the active model
    raises      \* attempts that ended in an error

vars == <<history, outcome, midnight, metrics, tally, pc, seen, frame, active, raises>>
day == <<midnight, metrics, tally>>
trainers == <<pc, seen, frame, active, raises>>

Nothing == <<>>
NoMetrics == [suggestions |-> 0, accepted |-> 0, corrected |-> 0, abstained |-> 0,
              auto |-> 0, autoCorrected |-> 0]

-----------------------------------------------------------------------------
(* The training frame.                                                     *)

IsSuggestion(e) == e.kind = "suggestion"

(* The LATERAL join: the newest suggestion not later than the label, 'early' ones aside. *)
Snapshot(h, k) ==
    LET of == {j \in 1..k : IsSuggestion(h[j]) /\ h[j].item = h[k].item /\ h[j].source # "early"}
    IN  IF of = {} THEN 0 ELSE CHOOSE j \in of : \A i \in of : i <= j

(* fetch_training_frame: one row per label event. *)
TrainingRow(h, k) == [item |-> h[k].item, label |-> h[k].label, at |-> k, features |-> Snapshot(h, k)]
LabelEvents(h) == {k \in DOMAIN h : ~IsSuggestion(h[k])}
FetchTrainingFrame(h) == {TrainingRow(h, k) : k \in LabelEvents(h)}

Usable(row) == row.features # 0 /\ row.label \in Classes

(* _dedup_latest: the newest row of each item. *)
DedupLatest(rows) == {x \in rows : \A y \in rows : y.item = x.item => y.at <= x.at}

(* Mutant of BuildXY: unusable rows are dropped before the newest is picked. *)
BuildXYFiltered(rows) == DedupLatest({x \in rows : Usable(x)})

(* build_xy: the newest label of an item decides whether it trains at all. *)
BuildXY(rows) == {x \in DedupLatest(rows) : Usable(x)}

(* train_gbm raises TrainingError. *)
TooCold(rows) ==
    LET xy == BuildXY(rows)
    IN  Cardinality(xy) < MinEvents \/ Cardinality({r.label : r \in xy}) < 2

-----------------------------------------------------------------------------
(* The gate.                                                               *)

(* Mutant of UsableEvents: every usable event is an event to replay. *)
UsableEventsAll(rows) == {x \in rows : Usable(x)}

(* usable_events: filtered first, then the newest per item. *)
UsableEvents(rows) == DedupLatest({x \in rows : Usable(x)})

(* chronological_split: the oldest four fifths of the events, and the rest. *)
SplitAt(events) == (Cardinality(events) * 4) \div 5
TrainSlice(events) == {e \in events : Cardinality({x \in events : x.at <= e.at}) <= SplitAt(events)}
EvalSlice(events) == events \ TrainSlice(events)

(* _active_calibration_degraded: ECE above 0.15, and the candidate better by 0.05. *)
ActiveDegraded(cand, act) == act.ece > 150 /\ cand.ece <= act.ece - 50

(* passes_gate *)
PassesGate(cand, act) ==
    /\ cand.f1 >= act.f1 - (IF ActiveDegraded(cand, act) THEN 50 ELSE 5)
    /\ cand.auto # Empty => cand.auto >= IF act.auto > 855 THEN act.auto ELSE 855
    /\ cand.abstain <= act.abstain + 50

(* _load_active_model: a model of another schema counts as none. *)
ActiveFor(r) == IF active.schema = Schema[r] THEN active ELSE NoModel

(* Mutant of Verdicts: without data to compare on, nothing ships. *)
VerdictsOnData(rows, act) ==
    LET events == UsableEvents(rows) IN
    IF \/ EvalSlice(events) = {} \/ Cardinality(TrainSlice(events)) < MinEvents
       \/ TooCold(TrainSlice(events))
    THEN {FALSE}
    ELSE IF act = NoModel THEN {TRUE}
    ELSE {PassesGate(c, a) : c \in Reports, a \in Reports}

(* run_gate: no held-out slice, a train slice too small, or a proxy too cold to fit: only   *)
(* the first model ships; otherwise the proxy's report is compared with the active's.       *)
Verdicts(rows, act) ==
    LET events == UsableEvents(rows) IN
    IF \/ EvalSlice(events) = {} \/ Cardinality(TrainSlice(events)) < MinEvents
       \/ TooCold(TrainSlice(events))
    THEN {act = NoModel}
    ELSE IF act = NoModel THEN {TRUE}
    ELSE {PassesGate(c, a) : c \in Reports, a \in Reports}

-----------------------------------------------------------------------------
Outcomes(h) == [k \in {j \in DOMAIN h : IsSuggestion(h[j])} |-> "pending"]

Init ==
    /\ history \in Starts
    /\ outcome = Outcomes(history)
    /\ midnight = 0 /\ metrics = NoMetrics /\ tally = [r \in Reporters |-> Nothing]
    /\ pc = [r \in Replicas |-> "idle"] /\ seen = [r \in Replicas |-> 0]
    /\ frame = [r \in Replicas |-> {}]
    /\ active = NoModel /\ raises = 0

(* A suggestion is stored, with the features its maker has. *)
Suggest ==
    /\ Len(history) < MaxHistory
    /\ \E s \in Suggestions :
        history' = Append(history, [kind |-> "suggestion", item |-> s.item, source |-> s.source,
                                    label |-> s.label, auto |-> s.auto])
    /\ outcome' = [k \in DOMAIN outcome \cup {Len(history')} |->
                        IF k \in DOMAIN outcome THEN outcome[k] ELSE "pending"]
    /\ UNCHANGED <<day, trainers>>

(* defect_update: the event is appended and the item's pending suggestions resolved. *)
DefectUpdate ==
    /\ Len(history) < MaxHistory
    /\ \E i \in Items, l \in Given :
        /\ history' = Append(history, [kind |-> "label", item |-> i, source |-> "rp", label |-> l,
                                       auto |-> FALSE])
        /\ outcome' = [k \in DOMAIN outcome |->
                          IF history[k].item # i \/ outcome[k] # "pending" THEN outcome[k]
                          ELSE IF history[k].label = l THEN "accepted" ELSE "corrected"]
    /\ UNCHANGED <<day, trainers>>

(* _retrain *)
Fetch(r) ==
    /\ pc[r] = "idle"
    /\ pc' = [pc EXCEPT ![r] = "train"] /\ seen' = [seen EXCEPT ![r] = Len(history)]
    /\ frame' = [frame EXCEPT ![r] = FetchTrainingFrame(history)]
    /\ UNCHANGED <<history, outcome, day, active, raises>>

Idle(r) ==
    /\ pc' = [pc EXCEPT ![r] = "idle"] /\ seen' = [seen EXCEPT ![r] = 0]
    /\ frame' = [frame EXCEPT ![r] = {}]

Cold(r) ==
    /\ pc[r] = "train" /\ TooCold(frame[r])
    /\ Idle(r)
    /\ UNCHANGED <<history, outcome, day, active, raises>>

GatePassed(r) ==
    /\ pc[r] = "train" /\ ~TooCold(frame[r])
    /\ TRUE \in Verdicts(frame[r], ActiveFor(r))
    /\ pc' = [pc EXCEPT ![r] = "ship"]
    /\ UNCHANGED <<history, outcome, day, seen, frame, active, raises>>

(* The active model stays; the candidate is kept as an inactive row, which nothing here reads. *)
GateRejected(r) ==
    /\ pc[r] = "train" /\ ~TooCold(frame[r])
    /\ FALSE \in Verdicts(frame[r], ActiveFor(r))
    /\ Idle(r)
    /\ UNCHANGED <<history, outcome, day, active, raises>>

(* The model fitted on the whole frame ships. *)
Ship(r) ==
    /\ pc[r] = "ship"
    /\ active' = [rows |-> BuildXY(frame[r]), seen |-> seen[r], schema |-> Schema[r]]
    /\ Idle(r)
    /\ UNCHANGED <<history, outcome, day, raises>>

(* A query or the shipment raises. *)
Raise(r) ==
    /\ pc[r] # "idle" /\ raises < MaxRaises
    /\ raises' = raises + 1
    /\ Idle(r)
    /\ UNCHANGED <<history, outcome, day, active>>

-----------------------------------------------------------------------------
Midnight ==
    /\ midnight = 0 /\ midnight' = Len(history)
    /\ UNCHANGED <<history, outcome, metrics, tally, trainers>>

(* aggregate_daily, for the rows of the day. *)
Aggregate(rows, out) ==
    LET of(o) == {k \in rows : out[k] = o}
        autos == {k \in rows : history[k].label \in Classes /\ history[k].auto}
    IN  [suggestions |-> Cardinality(rows),
         accepted |-> Cardinality(of("accepted")),
         corrected |-> Cardinality(of("corrected")),
         abstained |-> Cardinality({k \in rows : history[k].label \notin Classes}),
         auto |-> Cardinality(autos),
         autoCorrected |-> Cardinality(autos \cap of("corrected"))]

(* Mutant of UpsertDailyMetrics: an increment. *)
BumpMetrics(old, new) == [c \in DOMAIN old |-> old[c] + new[c]]

(* upsert_daily_metrics: an absolute SET. *)
UpsertDailyMetrics(old, new) == new

Yesterday == {k \in DOMAIN outcome : k <= midnight}

(* MetricsDailyJob.run for the day that ended, by the nightly timer of each replica: the rows *)
(* are fetched and aggregated, and the result is written later, over whatever is there then.  *)
FetchDay(r) ==
    /\ midnight > 0 /\ tally[r] = Nothing
    /\ tally' = [tally EXCEPT ![r] = <<Aggregate(Yesterday, outcome)>>]
    /\ UNCHANGED <<history, outcome, midnight, metrics, trainers>>

WriteDay(r) ==
    /\ tally[r] # Nothing
    /\ metrics' = UpsertDailyMetrics(metrics, tally[r][1])
    /\ tally' = [tally EXCEPT ![r] = Nothing]
    /\ UNCHANGED <<history, outcome, midnight, trainers>>

Retrain(r) ==
    Fetch(r) \/ Raise(r) \/ Ship(r) \/ Cold(r) \/ GatePassed(r) \/ GateRejected(r)

Next == \/ Suggest \/ DefectUpdate \/ Midnight
        \/ \E r \in Replicas : Retrain(r)
        \/ \E r \in Reporters : FetchDay(r) \/ WriteDay(r)

Spec == Init /\ [][Next]_vars

(* The nightly trigger retrains again and again, and its statements and fits end. *)
Fairness == \A r \in Replicas : WF_vars(Retrain(r))

FairSpec == Spec /\ Fairness

-----------------------------------------------------------------------------
LaterLabel(row, to) ==
    \E k \in (row.at + 1)..to : ~IsSuggestion(history[k]) /\ history[k].item = row.item

(* The active model was fitted on the newest label each item had when the frame was read,    *)
(* for each on what a suggestion stored before that label was given, and not by the early    *)
(* pass: neither a corrected label nor hindsight trains it (labels.py:58-123, trainer.py:    *)
(* 70-108).  Not said: that the suggestion has a feature vector.  The newest may be a         *)
(* cold-start answer (labels.py:94-105, suggestion_ops.py:70-92), which trains with every     *)
(* feature at its default (core/features.py:524-528).                                         *)
TrainedHonestly ==
    \A row \in active.rows :
        /\ ~LaterLabel(row, active.seen)
        /\ row.features < row.at
        /\ history[row.features].source # "early" /\ history[row.features].item = row.item

(* The slice a candidate is judged on holds no item its proxy was fitted on, however often   *)
(* items were relabelled (eval.py:103-132, gate.py:165-213: "leakage-free").                 *)
HeldOut ==
    \A r \in Replicas : pc[r] # "idle" =>
        LET events == UsableEvents(frame[r]) IN
        {e.item : e \in TrainSlice(events)} \cap {e.item : e \in EvalSlice(events)} = {}

(* An install with enough usable labels gets its first model: the gate cannot hold it back   *)
(* for want of something to compare with (gate.py:193-204 "ships unconditionally").          *)
LearnableAt(k) ==
    /\ ~IsSuggestion(history[k]) /\ history[k].label \in Classes
    /\ \A j \in (k + 1)..Len(history) : IsSuggestion(history[j]) \/ history[j].item # history[k].item
    /\ \E j \in 1..(k - 1) : /\ IsSuggestion(history[j]) /\ history[j].item = history[k].item
                             /\ history[j].source # "early"
Trainable ==
    LET learnable == {k \in DOMAIN history : LearnableAt(k)}
    IN  /\ Cardinality(learnable) >= MinEvents
        /\ \E j, k \in learnable : history[j].label # history[k].label
Bootstraps == Trainable ~> (active # NoModel \/ ~Trainable)

(* The day's row never counts a suggestion twice, though every replica's timer writes it     *)
(* and may write it again, also with what it read before another wrote (stats.py:102-107     *)
(* and 174-216).                                                                             *)
RollupCountsOnce ==
    /\ metrics.suggestions <= Cardinality(Yesterday)
    /\ metrics.accepted + metrics.corrected <= metrics.suggestions
    /\ metrics.autoCorrected <= metrics.corrected /\ metrics.auto + metrics.abstained <= metrics.suggestions
=============================================================================
