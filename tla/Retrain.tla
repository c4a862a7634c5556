------------------------------ MODULE Retrain -------------------------------
(***************************************************************************)
(* The learning loop's triggers: ml/retrain.py (RetrainScheduler, its      *)
(* daemon thread, and Retrainer.maybe_retrain) with the callers in         *)
(* core/handlers.py and service.py and the label log and artifact clock of *)
(* the database as maybe_retrain reads them.  One process; the shipment    *)
(* itself is Serving.tla.                                                  *)
(*                                                                         *)
(* Time is the wall clock in units of the intervals' common measure; the   *)
(* database and the process read the same clock.                           *)
(***************************************************************************)
EXTENDS Integers, Sequences, FiniteSets

CONSTANTS
    Window,      \* ANALYZER_RETRAIN_DEBOUNCE_S (min_interval)
    Cooldown,    \* FAILED_ATTEMPT_COOLDOWN
    Threshold,   \* RETRAIN_EVENT_THRESHOLD
    MinEvents,   \* GBM_MIN_EVENTS
    MaxTime,     \* bound: how far the clock runs
    MaxEvents    \* bound: label events appended

ASSUME RetrainAssumption ==
    /\ Window \in Nat /\ Cooldown \in Nat
    /\ Threshold \in Nat /\ MinEvents \in Nat
    /\ MaxTime \in Nat /\ MaxEvents \in Nat

Reason == {"events", "nightly", "route"}
None == "none"
Never == -1

VARIABLES
    now,         \* the clock
    log,         \* label_event: the ts of each row
    pending,     \* _pending
    stopping,    \* _stopping
    pc,          \* the scheduler's thread
    reason,      \* the reason it took
    start,       \* maybe_retrain's now
    shippedAt,   \* last_shipped_at(): trained_at of the last shipped GBM
    failedAt,    \* _last_failed_attempt_at
    failedCold,  \* _last_failed_was_cold
    frame,       \* rows of the training frame in hand
    trained,     \* history: rows the shipped model was trained on
    asked,       \* history: the reasons requested since the last take
    last         \* history: when the last training began and how it ended

requestVars == <<log, pending, stopping, asked>>
trainVars == <<start, shippedAt, failedAt, failedCold, frame, trained, last>>
retrainVars == <<now, requestVars, pc, reason, trainVars>>

RetrainInit ==
    /\ now = 0
    /\ log = <<>>
    /\ pending = None
    /\ stopping = FALSE
    /\ pc = "loop"
    /\ reason = None
    /\ start = 0
    /\ shippedAt = Never
    /\ failedAt = Never
    /\ failedCold = FALSE
    /\ frame = 0
    /\ trained = 0
    /\ asked = {}
    /\ last = [at |-> Never, end |-> "none"]

-----------------------------------------------------------------------------
(* Requests.                                                               *)

(* _REASON_RANK, with no request below all of them. *)
Rank(r) == CASE r = "route" -> 3 [] r = "nightly" -> 2 [] r = "events" -> 1 [] OTHER -> 0

(* Mutant of Coalesced: the last request wins. *)
LatestWins(old, r) == r

(* request(): a pending reason is replaced by a stronger one only. *)
Coalesced(old, r) == IF Rank(r) > Rank(old) THEN r ELSE old

(* Mutant of Notified: nobody is woken. *)
NotifiedNobody == pc

(* notify_all(): the thread, if it waits, looks at its condition again. *)
Notified == IF pc = "asleep" THEN "loop" ELSE pc

Request(r) ==
    /\ pending' = Coalesced(pending, r)
    /\ asked' = asked \cup {r}
    /\ pc' = Notified

(* A defect_update handler appends an event for each item it knows ... *)
AppendEvent ==
    /\ Len(log) < MaxEvents
    /\ log' = Append(log, now)
    /\ UNCHANGED <<now, pending, stopping, asked, pc, reason, trainVars>>

(* ... and signals the scheduler at its end, whether it knew any item or   *)
(* not; one that raises on the way does not.                               *)
RequestEvents ==
    /\ Request("events")
    /\ UNCHANGED <<now, log, stopping, reason, trainVars>>

(* The train_models route, and the trigger of NightlyRetrainTimer. *)
RequestForced ==
    /\ \E r \in {"route", "nightly"} : Request(r)
    /\ UNCHANGED <<now, log, stopping, reason, trainVars>>

(* stop() *)
Stop ==
    /\ ~stopping
    /\ stopping' = TRUE
    /\ pc' = Notified
    /\ UNCHANGED <<now, log, pending, asked, reason, trainVars>>

-----------------------------------------------------------------------------
(* _loop *)

Sleep ==
    /\ pc = "loop"
    /\ pending = None /\ ~stopping
    /\ pc' = "asleep"
    /\ UNCHANGED <<now, requestVars, reason, trainVars>>

Quit ==
    /\ pc = "loop"
    /\ stopping
    /\ pc' = "ended"
    /\ UNCHANGED <<now, requestVars, reason, trainVars>>

Take ==
    /\ pc = "loop"
    /\ pending # None /\ ~stopping
    /\ reason' = pending
    /\ pending' = None
    /\ asked' = {}
    /\ pc' = "begin"
    /\ UNCHANGED <<now, log, stopping, trainVars>>

(* maybe_retrain returns or raises: its locals are gone and _loop goes     *)
(* round.                                                                  *)
Return ==
    /\ pc' = "loop"
    /\ reason' = None
    /\ start' = 0
    /\ frame' = 0

(* maybe_retrain: the clock is read first ... *)
Begin ==
    /\ pc = "begin"
    /\ start' = now
    /\ pc' = "decide"
    /\ UNCHANGED <<now, requestVars, reason, shippedAt, failedAt, failedCold,
                   frame, trained, last>>

(* A model shipped inside the window. *)
Debounced == shippedAt # Never /\ start - shippedAt < Window

(* A failed attempt inside the cooldown: a rejection holds back every      *)
(* reason, a cold install the events only.                                 *)
CoolingDown ==
    /\ failedAt # Never /\ start - failedAt < Cooldown
    /\ ~(failedCold /\ reason # "events")

(* Mutant of NewEvents: the whole log is counted. *)
NewEventsAll == Len(log)

(* count_events_since(shipped_at) *)
NewEvents == Cardinality({k \in DOMAIN log : log[k] > shippedAt})

(* ... then the last shipment, the cooldown and, for the events trigger,   *)
(* the count of new events are checked.                                    *)
Skip ==
    /\ pc = "decide"
    /\ \/ Debounced
       \/ CoolingDown
       \/ reason = "events" /\ shippedAt # Never /\ NewEvents < Threshold
    /\ Return
    /\ UNCHANGED <<now, requestVars, shippedAt, failedAt, failedCold, trained, last>>

(* fetch_training_frame *)
Fetch ==
    /\ pc = "decide"
    /\ ~Debounced /\ ~CoolingDown
    /\ reason = "events" /\ shippedAt # Never => NewEvents >= Threshold
    /\ frame' = Len(log)
    /\ pc' = "train"
    /\ UNCHANGED <<now, requestVars, reason, start, shippedAt, failedAt, failedCold,
                   trained, last>>

Ended(how) == last' = [at |-> start, end |-> how]

(* train_gbm raises TrainingError: too few usable events, or one class. *)
Cold ==
    /\ pc = "train"
    /\ failedAt' = start
    /\ failedCold' = TRUE
    /\ Ended("cold")
    /\ Return
    /\ UNCHANGED <<now, requestVars, shippedAt, trained>>

(* The ship gate rejects the candidate. *)
Reject ==
    /\ pc = "train"
    /\ frame >= MinEvents
    /\ failedAt' = start
    /\ failedCold' = FALSE
    /\ Ended("rejected")
    /\ Return
    /\ UNCHANGED <<now, requestVars, shippedAt, trained>>

(* ship() commits: trained_at is the database's now(). *)
Ship ==
    /\ pc = "train"
    /\ frame >= MinEvents
    /\ shippedAt' = now
    /\ trained' = frame
    /\ failedAt' = Never
    /\ Ended("shipped")
    /\ Return
    /\ UNCHANGED <<now, requestVars, failedCold>>

(* The shipment is committed but the refresh of the predictor raises: the  *)
(* failure marker stays as it was.                                         *)
ShipNotRefreshed ==
    /\ pc = "train"
    /\ frame >= MinEvents
    /\ shippedAt' = now
    /\ trained' = frame
    /\ Ended("raised")
    /\ Return
    /\ UNCHANGED <<now, requestVars, failedAt, failedCold>>

(* A query of maybe_retrain or the shipment raises: _loop logs it. *)
Raise ==
    /\ pc \in {"decide", "train"}
    /\ last' = IF pc = "train" THEN [at |-> start, end |-> "raised"] ELSE last
    /\ Return
    /\ UNCHANGED <<now, requestVars, shippedAt, failedAt, failedCold, trained>>

Tick ==
    /\ now < MaxTime
    /\ now' = now + 1
    /\ UNCHANGED <<requestVars, pc, reason, trainVars>>

-----------------------------------------------------------------------------
Loop ==
    \/ Sleep \/ Quit \/ Take \/ Begin \/ Skip \/ Fetch
    \/ Cold \/ Reject \/ Ship \/ ShipNotRefreshed \/ Raise

RetrainNext == AppendEvent \/ RequestEvents \/ RequestForced \/ Stop \/ Loop \/ Tick

RetrainSpec == RetrainInit /\ [][RetrainNext]_retrainVars

(* The scheduler's thread runs and its queries and trainings end. *)
RetrainFairSpec == RetrainSpec /\ WF_retrainVars(Loop)

-----------------------------------------------------------------------------
(* The variables' values, and that what the loop holds is not newer than   *)
(* the clock.                                                              *)
RetrainTypeOK ==
    /\ now \in Nat
    /\ log \in Seq(Nat)
    /\ pending \in Reason \cup {None} /\ asked \subseteq Reason
    /\ stopping \in BOOLEAN
    /\ pc \in {"loop", "asleep", "begin", "decide", "train", "ended"}
    /\ reason \in Reason \cup {None}
    /\ start \in 0..now
    /\ pc \in {"begin", "decide", "train"} => reason \in Reason
    /\ shippedAt \in {Never} \cup 0..now
    /\ failedAt \in {Never} \cup 0..now
    /\ failedCold \in BOOLEAN
    /\ frame \in 0..Len(log) /\ trained \in 0..Len(log)
    /\ last \in [at : {Never} \cup 0..now,
                end : {"none", "cold", "rejected", "shipped", "raised"}]

(* "debounced to at most one retrain per" window: two shipments of the     *)
(* process are a window apart, however requests, failures and slow         *)
(* trainings fall.                                                         *)
ShipSpacing ==
    [][shippedAt' # shippedAt /\ shippedAt # Never => shippedAt' - shippedAt >= Window]_retrainVars

(* "A forcing trigger (nightly/route) must not be demoted to a plain       *)
(* event-count check": what waits is the strongest reason requested since  *)
(* the thread last took one.                                               *)
StrongestKept ==
    /\ pending = None <=> asked = {}
    /\ \A r \in asked : pending \in asked /\ Rank(r) <= Rank(pending)

(* The cooldown "stops a failing trigger from hot-looping": after a        *)
(* rejected candidate no training of any reason begins, and after a cold   *)
(* one none of the events trigger, within the cooldown.                    *)
NoHotLoop ==
    [][pc = "decide" /\ pc' = "train" =>
          /\ last.end = "rejected" => start - last.at >= Cooldown
          /\ last.end = "cold" /\ reason = "events" => start - last.at >= Cooldown]_retrainVars

(* The counter trigger fires on news: a training it starts has at least    *)
(* Threshold events the shipped model was not trained on.                  *)
TriggerMeansNews ==
    pc = "train" /\ reason = "events" /\ shippedAt # Never
        => frame - trained >= Threshold

(* No request is lost between the handlers and the sleeping thread: each   *)
(* is taken, unless the scheduler is stopped first.                        *)
RequestsTaken == (pending # None) ~> (pc = "begin" \/ stopping)
=============================================================================
