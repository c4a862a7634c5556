------------------------------ MODULE Serving -------------------------------
(***************************************************************************)
(* The hot swap of the trained model: ml/artifacts.py (PgModelStore.ship   *)
(* and the reads of the active rows) and ml/serving.py (GbmPredictor).     *)
(*                                                                         *)
(* Several service processes share one PostgreSQL.  In each, the trainer   *)
(* thread ships a model and refreshes the predictor, while the workers'    *)
(* threads call predict(), which re-checks the table at most once per      *)
(* refresh interval.  A statement of a transaction is a step; the locked   *)
(* section of _ensure_current is one step per query it makes, for at most  *)
(* one thread of a process is in it and it does not matter which.          *)
(***************************************************************************)
EXTENDS Integers

CONSTANTS
    Proc,          \* the service processes
    Calib,         \* the calibrator keys: None for the install, the projects
    Ver,           \* the feature schema versions of the builds in use
    MaxShips,      \* bound: the model ids the sequence hands out
    MaxFaults      \* bound: database errors and process crashes

ASSUME ServingAssumption ==
    /\ MaxShips \in Nat /\ MaxFaults \in Nat
    /\ "gbm" \notin Calib

VARIABLES
    schemaVer,     \* FEATURE_SCHEMA_VER of the build each process runs
    active,        \* model_artifact: the rows with is_active
    nextId,        \* the sequence behind model_id
    faults,        \* database errors and crashes so far
    trainer,       \* where each trainer thread is
    snap,          \* the rows its UPDATE statement's snapshot holds
    mine,          \* the rows its open transaction has deactivated
    ship,          \* the model_id its INSERT returned
    check,         \* where the thread inside _ensure_current is
    checked,       \* _checked, and the interval has not passed
    got,           \* the model id read by load_active_gbm
    state          \* _state: the snapshot predict() reads

shipVars == <<nextId, trainer, snap, mine, ship>>
serveVars == <<check, checked, got, state>>
vars == <<schemaVer, active, faults, shipVars, serveVars>>

Id == 1..MaxShips
Store == INSTANCE ModelStore

(* model_id is an identity column: no row has the id 0, which stands for None. *)
NoModel == 0

(* _EMPTY: nothing is served and the caller falls back to the rules. *)
Empty == [model |-> NoModel, calibrators |-> {}]

GbmRows == {r \in active : r.key = "gbm"}
CalibRows == {r \in active : r.key # "gbm"}

Init ==
    /\ schemaVer \in [Proc -> Ver]
    /\ active = {}
    /\ nextId = 1
    /\ faults = 0
    /\ trainer = [p \in Proc |-> "idle"]
    /\ snap = [p \in Proc |-> {}]
    /\ mine = [p \in Proc |-> {}]
    /\ ship = [p \in Proc |-> NoModel]
    /\ check = [p \in Proc |-> "idle"]
    /\ checked = [p \in Proc |-> FALSE]
    /\ got = [p \in Proc |-> NoModel]
    /\ state = [p \in Proc |-> Empty]

-----------------------------------------------------------------------------
(* ship(): one READ COMMITTED transaction.                                 *)

(* BEGIN, and the UPDATE takes its snapshot of the committed active rows. *)
BeginShip(p) ==
    /\ trainer[p] = "idle"
    /\ nextId \in Id
    /\ trainer' = [trainer EXCEPT ![p] = "updating"]
    /\ snap' = [snap EXCEPT ![p] = active]
    /\ UNCHANGED <<schemaVer, active, nextId, faults, mine, ship, serveVars>>

(* The UPDATE waits for the transactions that hold a row of its snapshot,  *)
(* re-checks is_active on the rows it waited for, and locks what is left.  *)
Retired(p) == snap[p] \cap active

Retire(p) ==
    /\ trainer[p] = "updating"
    /\ \A q \in Proc \ {p} : mine[q] \cap snap[p] = {}
    /\ trainer' = [trainer EXCEPT ![p] = "updated"]
    /\ mine' = [mine EXCEPT ![p] = Retired(p)]
    /\ snap' = [snap EXCEPT ![p] = {}]
    /\ UNCHANGED <<schemaVer, active, nextId, faults, ship, serveVars>>

(* Mutant of Violates: the table has no partial unique index. *)
ViolatesNever(p, keys) == FALSE

(* The partial unique index on (kind, project) WHERE is_active: an insert  *)
(* of these keys meets an active row this transaction has not retired.     *)
Violates(p, keys) == \E r \in active \ mine[p] : r.key \in keys

(* The insert waits for another transaction that inserted the same key or  *)
(* is retiring the row in its way.                                         *)
InsertWaits(p) ==
    \E q \in Proc \ {p} : \/ trainer[q] = "inserted"
                          \/ \E r \in mine[q] : r.key = "gbm"

(* The INSERT of the GBM; the sequence moves on whether or not it succeeds. *)
InsertGbm(p) ==
    /\ trainer[p] = "updated"
    /\ nextId \in Id
    /\ ~InsertWaits(p)
    /\ ~Violates(p, {"gbm"})
    /\ nextId' = nextId + 1
    /\ ship' = [ship EXCEPT ![p] = nextId]
    /\ trainer' = [trainer EXCEPT ![p] = "inserted"]
    /\ UNCHANGED <<schemaVer, active, faults, snap, mine, serveVars>>

(* The transaction is rolled back and the exception leaves maybe_retrain:  *)
(* the predictor is not refreshed.                                         *)
Rollback(p) ==
    /\ trainer' = [trainer EXCEPT ![p] = "idle"]
    /\ snap' = [snap EXCEPT ![p] = {}]
    /\ mine' = [mine EXCEPT ![p] = {}]
    /\ ship' = [ship EXCEPT ![p] = NoModel]

InsertViolates(p) ==
    /\ trainer[p] = "updated"
    /\ nextId \in Id
    /\ ~InsertWaits(p)
    /\ Violates(p, {"gbm"})
    /\ nextId' = nextId + 1
    /\ Rollback(p)
    /\ UNCHANGED <<schemaVer, active, faults, serveVars>>

(* The INSERTs of the calibrators fit_calibrators produced, and COMMIT. *)
Commit(p) ==
    /\ trainer[p] = "inserted"
    /\ \E keys \in SUBSET Calib :
          /\ ~Violates(p, keys)
          /\ active' = (active \ mine[p])
                         \cup Store!Shipment(ship[p], schemaVer[p], keys)
    /\ trainer' = [trainer EXCEPT ![p] = "shipped"]
    /\ mine' = [mine EXCEPT ![p] = {}]
    /\ UNCHANGED <<schemaVer, nextId, faults, snap, ship, serveVars>>

(* A statement or the commit fails: the connection is lost, the server     *)
(* cancels it or ends a deadlock.                                          *)
ShipFails(p) ==
    /\ faults < MaxFaults
    /\ trainer[p] \in {"updating", "updated", "inserted"}
    /\ faults' = faults + 1
    /\ Rollback(p)
    /\ UNCHANGED <<schemaVer, active, nextId, serveVars>>

(* Mutant of Refresh: the last check stays good for its interval. *)
RefreshKeepsCheck(p) ==
    /\ trainer[p] = "shipped"
    /\ check[p] = "idle"
    /\ trainer' = [trainer EXCEPT ![p] = "refreshing"]
    /\ UNCHANGED <<schemaVer, active, faults, nextId, snap, mine, ship, serveVars>>

(* _retrain after ship(): predictor.refresh() makes the last check void    *)
(* under the predictor's lock and goes on to _ensure_current.              *)
Refresh(p) ==
    /\ trainer[p] = "shipped"
    /\ check[p] = "idle"
    /\ checked' = [checked EXCEPT ![p] = FALSE]
    /\ trainer' = [trainer EXCEPT ![p] = "refreshing"]
    /\ UNCHANGED <<schemaVer, active, faults, nextId, snap, mine, ship,
                   check, got, state>>

(* Its _ensure_current returns: it made the check itself, or it finds that *)
(* another thread has begun one since.                                     *)
Refreshed(p) ==
    /\ trainer[p] = "refreshing"
    /\ checked[p]
    /\ trainer' = [trainer EXCEPT ![p] = "idle"]
    /\ ship' = [ship EXCEPT ![p] = NoModel]
    /\ UNCHANGED <<schemaVer, active, faults, nextId, snap, mine, serveVars>>

-----------------------------------------------------------------------------
(* _ensure_current(), entered by any thread that predicts.                 *)

(* The refresh interval passes since the last check. *)
Expire(p) ==
    /\ checked[p]
    /\ checked' = [checked EXCEPT ![p] = FALSE]
    /\ UNCHANGED <<schemaVer, active, faults, shipVars, check, got, state>>

(* A thread takes the lock and stamps the check before it makes it. *)
BeginCheck(p) ==
    /\ check[p] = "idle"
    /\ ~checked[p]
    /\ checked' = [checked EXCEPT ![p] = TRUE]
    /\ check' = [check EXCEPT ![p] = "probe"]
    /\ UNCHANGED <<schemaVer, active, faults, shipVars, got, state>>

(* The locked section ends with s as the state served. *)
Serve(p, s) ==
    /\ check' = [check EXCEPT ![p] = "idle"]
    /\ state' = [state EXCEPT ![p] = s]
    /\ got' = [got EXCEPT ![p] = NoModel]
    /\ UNCHANGED <<schemaVer, active, faults, shipVars, checked>>

(* active_gbm_version(): nothing active, or the model already served ... *)
ProbeSettles(p) ==
    /\ check[p] = "probe"
    /\ \/ GbmRows = {} /\ Serve(p, Empty)
       \/ \E r \in GbmRows : r.id = state[p].model /\ Serve(p, state[p])

(* ... or another one: _build_state. *)
ProbeFindsNew(p) ==
    /\ check[p] = "probe"
    /\ \E r \in GbmRows : r.id # state[p].model
    /\ check' = [check EXCEPT ![p] = "load"]
    /\ UNCHANGED <<schemaVer, active, faults, shipVars, checked, got, state>>

(* Mutant of LoadNothing: a model of another schema leaves the old one. *)
LoadNothingKeeps(p) ==
    /\ check[p] = "load"
    /\ \A r \in GbmRows : r.ver # schemaVer[p]
    /\ Serve(p, state[p])

(* load_active_gbm() finds no row, or one of another feature schema. *)
LoadNothing(p) ==
    /\ check[p] = "load"
    /\ \A r \in GbmRows : r.ver # schemaVer[p]
    /\ Serve(p, Empty)

LoadGbm(p) ==
    /\ check[p] = "load"
    /\ \E r \in GbmRows :
          /\ r.ver = schemaVer[p]
          /\ got' = [got EXCEPT ![p] = r.id]
    /\ check' = [check EXCEPT ![p] = "calibrators"]
    /\ UNCHANGED <<schemaVer, active, faults, shipVars, checked, state>>

(* load_active_calibrators(), a statement and a snapshot of its own, and   *)
(* the swap of the reference.                                              *)
LoadCalibrators(p) ==
    /\ check[p] = "calibrators"
    /\ Serve(p, [model |-> got[p],
                 calibrators |-> {r \in CalibRows : r.ver = schemaVer[p]}])

(* A query fails: the lock is released with the check stamped and the      *)
(* state as it was.                                                        *)
CheckFails(p) ==
    /\ faults < MaxFaults
    /\ check[p] # "idle"
    /\ faults' = faults + 1
    /\ check' = [check EXCEPT ![p] = "idle"]
    /\ got' = [got EXCEPT ![p] = NoModel]
    /\ UNCHANGED <<schemaVer, active, shipVars, checked, state>>

(* The process dies, or is replaced by one of another build: a new one     *)
(* starts with a fresh GbmPredictor and the server rolls back what the old *)
(* one had open.                                                           *)
Restart(p) ==
    /\ faults < MaxFaults
    /\ \E v \in Ver : schemaVer' = [schemaVer EXCEPT ![p] = v]
    /\ faults' = faults + 1
    /\ Rollback(p)
    /\ check' = [check EXCEPT ![p] = "idle"]
    /\ checked' = [checked EXCEPT ![p] = FALSE]
    /\ got' = [got EXCEPT ![p] = NoModel]
    /\ state' = [state EXCEPT ![p] = Empty]
    /\ UNCHANGED <<active, nextId>>

-----------------------------------------------------------------------------
Next == \E p \in Proc :
    \/ BeginShip(p) \/ Retire(p) \/ InsertGbm(p) \/ InsertViolates(p)
    \/ Commit(p) \/ ShipFails(p) \/ Refresh(p) \/ Refreshed(p)
    \/ Expire(p) \/ BeginCheck(p) \/ ProbeSettles(p) \/ ProbeFindsNew(p)
    \/ LoadNothing(p) \/ LoadGbm(p) \/ LoadCalibrators(p)
    \/ CheckFails(p) \/ Restart(p)

Spec == Init /\ [][Next]_vars

(* Time passes, predictions keep coming and queries return.  Nothing is    *)
(* assumed of the trainers.                                                *)
Fairness == \A p \in Proc :
    /\ WF_vars(Expire(p))
    /\ WF_vars(BeginCheck(p))
    /\ WF_vars(ProbeSettles(p) \/ ProbeFindsNew(p))
    /\ WF_vars(LoadNothing(p) \/ LoadGbm(p) \/ LoadCalibrators(p))

FairSpec == Spec /\ Fairness

-----------------------------------------------------------------------------
(* Every variable holds what the code can put in it: ids come from the     *)
(* sequence, a transaction retires rows only while it is open, and a       *)
(* thread holds a model id only between its two reads.                     *)
ServingTypeOK ==
    /\ schemaVer \in [Proc -> Ver]
    /\ active \subseteq Store!Row
    /\ nextId \in 1..(MaxShips + 1)
    /\ faults \in 0..MaxFaults
    /\ trainer \in [Proc -> {"idle", "updating", "updated", "inserted",
                             "shipped", "refreshing"}]
    /\ snap \in [Proc -> SUBSET Store!Row]
    /\ mine \in [Proc -> SUBSET Store!Row]
    /\ ship \in [Proc -> Id \cup {NoModel}]
    /\ check \in [Proc -> {"idle", "probe", "load", "calibrators"}]
    /\ checked \in [Proc -> BOOLEAN]
    /\ got \in [Proc -> Id \cup {NoModel}]
    /\ state \in [Proc -> [model : Id \cup {NoModel},
                           calibrators : SUBSET Store!Row]]
    /\ \A p \in Proc :
          /\ mine[p] # {} => trainer[p] \in {"updated", "inserted"}
          /\ got[p] # NoModel <=> check[p] = "calibrators"

(* "The partial unique index guarantees at most one active artifact per    *)
(* key even under racing shippers" and a shipment is all or nothing: the   *)
(* active rows are one GBM and calibrators of the same shipment, whatever  *)
(* other shipments raced or failed.                                        *)
ActiveMatched ==
    \A r \in active :
        /\ \E g \in GbmRows : g.id = r.id
        /\ \A s \in active : s.id = r.id /\ s.ver = r.ver

(* serving.py: a prediction "can never observe the new booster paired with *)
(* the old calibrators": the calibrators served are never of an older      *)
(* shipment than the model, and the model that is live is served with all  *)
(* of its calibrators and with no other.                                   *)
NewNeverWithOld ==
    \A p \in Proc :
        /\ \A c \in state[p].calibrators : c.id >= state[p].model
        /\ (\E g \in GbmRows : g.id = state[p].model)
              => state[p].calibrators = CalibRows

(* refresh() is not lost: when the trainer's refresh has been answered by  *)
(* a complete check and no query failed, the process serves the model it   *)
(* shipped or a newer one (or rules, if a build of another feature schema  *)
(* shipped over it).                                                       *)
RefreshSticks ==
    \A p \in Proc :
        trainer[p] = "refreshing" /\ checked[p] /\ check[p] = "idle" /\ faults = 0
            => \/ state[p].model >= ship[p]
               \/ state[p] = Empty /\ \E q \in Proc : schemaVer[q] # schemaVer[p]

(* Within the life of a process the model served never goes back to an     *)
(* older one.                                                              *)
ServedMonotone ==
    [][\A p \in Proc : state'[p].model # NoModel
                          => state'[p].model >= state[p].model]_vars

(* Racing READ COMMITTED shipments implement the atomic register: the      *)
(* active set only ever changes to one complete newer shipment.            *)
AtomicSwap == Store!Spec

(* The model of this process's feature schema that is live is served with  *)
(* its calibrators, and rules are served when there is none.               *)
Current(p) ==
    LET live == {g \in GbmRows : g.ver = schemaVer[p]}
    IN  IF live = {} THEN state[p] = Empty
        ELSE \E g \in live : state[p] = [model |-> g.id, calibrators |-> CalibRows]

(* Once shipments and failures stop, every process that keeps predicting   *)
(* comes to serve the live set and stays with it: a torn read or a failed  *)
(* refresh heals at a later check.                                         *)
EventuallyCurrent == <>[](\A p \in Proc : Current(p))
=============================================================================
