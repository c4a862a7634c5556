---------------------------- MODULE ModelProofs -----------------------------
(***************************************************************************)
(* Proofs about the two halves of the model's life.  Serving, for every    *)
(* set of processes and calibrator keys and for every bound: shipments are *)
(* atomic and one is live at a time, a new model is never served with      *)
(* older calibrators, no process goes back to an older model and no        *)
(* trainer's refresh is lost.  Retrain, for every window, cooldown,        *)
(* threshold and bound: shipments are spaced, forcing requests are not     *)
(* demoted, failures do not hot-loop and the counter fires on news.        *)
(***************************************************************************)
EXTENDS Serving, Retrain, FiniteSetTheorems, TLAPS

-----------------------------------------------------------------------------
(* Serving *)

(* Everything read from the table so far is older than the model id n. *)
OlderThan(n) ==
    /\ \A r \in active : r.id < n
    /\ \A q \in Proc : /\ \A r \in snap[q] : r.id < n
                       /\ got[q] < n
                       /\ state[q].model < n

(* The sequence is ahead of everything read, and so is the id that an open *)
(* transaction has inserted: what it will commit is new to everyone.       *)
Sequence ==
    /\ OlderThan(nextId)
    /\ \A p \in Proc : trainer[p] = "inserted" =>
          ship[p] \in Id /\ ship[p] < nextId /\ OlderThan(ship[p])

(* A snapshot is either the live set or has nothing of it left, so that a  *)
(* transaction retires the whole live set or nothing.                      *)
Whole ==
    \A p \in Proc : /\ snap[p] = active \/ snap[p] \cap active = {}
                    /\ mine[p] = active \/ mine[p] = {}

(* A transaction that has inserted its GBM has retired the live set, and   *)
(* it is alone: no other has inserted one or holds a live row.             *)
Exclusive ==
    \A p \in Proc : trainer[p] = "inserted" =>
        /\ mine[p] = active
        /\ \A q \in Proc \ {p} : trainer[q] # "inserted" /\ mine[q] = {}

(* What a process serves is not newer than the live set; between the two   *)
(* reads of _build_state the model read is not newer than the live set, is *)
(* not older than the one served, and is of the process's feature schema   *)
(* as long as it is live.                                                  *)
ReadsArePast ==
    \A p \in Proc :
        /\ \A r \in active : state[p].model <= r.id
        /\ check[p] = "calibrators" =>
              /\ state[p].model <= got[p]
              /\ \A r \in active : got[p] <= r.id
              /\ \A r \in active : r.id = got[p] => r.ver = schemaVer[p]

(* While nothing has failed: a live row was trained by a build some        *)
(* process still runs; a shipment whose trainer has not yet been answered  *)
(* is live or has been replaced by a newer one; and a check that began     *)
(* after the refresh has read nothing older.                               *)
RefreshReadsLive ==
    faults = 0 =>
        /\ \A r \in active : \E q \in Proc : r.ver = schemaVer[q]
        /\ \A p \in Proc :
              /\ trainer[p] \in {"shipped", "refreshing"} =>
                    /\ ship[p] \in Id
                    /\ active # {}
                    /\ \A r \in active : r.id >= ship[p]
              /\ trainer[p] = "refreshing" /\ check[p] = "calibrators"
                    => got[p] >= ship[p]

ServingInv ==
    /\ ServingTypeOK
    /\ ActiveMatched
    /\ Sequence
    /\ Whole
    /\ Exclusive
    /\ ReadsArePast
    /\ NewNeverWithOld

-----------------------------------------------------------------------------
(* The rows of a shipment, and no other, carry its id and its keys.        *)
LEMMA ShipmentRows ==
    ASSUME NEW id \in Id, NEW ver \in Ver, NEW keys \in SUBSET Calib
    PROVE  /\ Store!Shipment(id, ver, keys) \subseteq Store!Row
           /\ \A r \in Store!Shipment(id, ver, keys) : r.id = id /\ r.ver = ver
           /\ \E g \in Store!Shipment(id, ver, keys) : g.key = "gbm"
<1>1. [key |-> "gbm", id |-> id, ver |-> ver] \in Store!Shipment(id, ver, keys)
  BY DEF Store!Shipment
<1> QED
  BY <1>1 DEF Store!Shipment, Store!Row

(* The model starts in a state of the invariant: nothing is live, nothing  *)
(* is served.                                                              *)
LEMMA ServingInvInit ==
    Init => ServingInv
<1> SUFFICES ASSUME Init PROVE ServingInv
  OBVIOUS
<1>1. ServingTypeOK
  BY ServingAssumption DEF Init, ServingTypeOK, Empty, NoModel, Id, Store!Row
<1>2. Sequence
  BY DEF Init, Sequence, OlderThan, Empty, NoModel
<1>3. Whole /\ Exclusive /\ ActiveMatched
  BY DEF Init, Whole, Exclusive, ActiveMatched
<1>4. ReadsArePast /\ NewNeverWithOld
  BY DEF Init, ReadsArePast, NewNeverWithOld, Empty, NoModel, GbmRows
<1> QED
  BY <1>1, <1>2, <1>3, <1>4 DEF ServingInv

(* Every step keeps the variables in their types.                          *)
LEMMA ServingTypeStep ==
    ASSUME ServingInv, [Next]_vars
    PROVE  ServingTypeOK'
<1> USE DEF ServingInv, ServingTypeOK, shipVars, serveVars
<1>1. ASSUME NEW p \in Proc, BeginShip(p) PROVE ServingTypeOK'
  BY <1>1 DEF BeginShip
<1>2. ASSUME NEW p \in Proc, Retire(p) PROVE ServingTypeOK'
  BY <1>2 DEF Retire, Retired
<1>3. ASSUME NEW p \in Proc, InsertGbm(p) PROVE ServingTypeOK'
  BY <1>3, ServingAssumption DEF InsertGbm, Id
<1>4. ASSUME NEW p \in Proc, InsertViolates(p) PROVE ServingTypeOK'
  BY <1>4, ServingAssumption DEF InsertViolates, Rollback, Id
<1>5. ASSUME NEW p \in Proc, Commit(p) PROVE ServingTypeOK'
  <2>1. PICK keys \in SUBSET Calib :
          active' = (active \ mine[p])
                       \cup Store!Shipment(ship[p], schemaVer[p], keys)
    BY <1>5 DEF Commit
  <2>2. ship[p] \in Id /\ schemaVer[p] \in Ver
    BY <1>5 DEF Commit, Sequence
  <2>3. active' \subseteq Store!Row
    BY <2>1, <2>2, ShipmentRows
  <2> QED
    BY <1>5, <2>3 DEF Commit
<1>6. ASSUME NEW p \in Proc, ShipFails(p) PROVE ServingTypeOK'
  BY <1>6, ServingAssumption DEF ShipFails, Rollback
<1>7. ASSUME NEW p \in Proc, Refresh(p) \/ Refreshed(p) PROVE ServingTypeOK'
  BY <1>7 DEF Refresh, Refreshed
<1>8. ASSUME NEW p \in Proc, Expire(p) \/ BeginCheck(p) PROVE ServingTypeOK'
  BY <1>8 DEF Expire, BeginCheck
<1>9. ASSUME NEW p \in Proc, 
             NEW s \in [model : Id \cup {NoModel}, calibrators : SUBSET Store!Row],
             Serve(p, s)
      PROVE ServingTypeOK'
  BY <1>9 DEF Serve
<1>10. ASSUME NEW p \in Proc, ProbeSettles(p) \/ LoadNothing(p) PROVE ServingTypeOK'
  BY <1>9, <1>10 DEF ProbeSettles, LoadNothing, Serve, Empty
<1>11. ASSUME NEW p \in Proc, ProbeFindsNew(p) PROVE ServingTypeOK'
  BY <1>11 DEF ProbeFindsNew
<1>12. ASSUME NEW p \in Proc, LoadGbm(p) PROVE ServingTypeOK'
  BY <1>12 DEF LoadGbm, GbmRows, Store!Row, Id, NoModel
<1>13. ASSUME NEW p \in Proc, LoadCalibrators(p) PROVE ServingTypeOK'
  <2>1. {r \in CalibRows : r.ver = schemaVer[p]} \in SUBSET Store!Row
    BY DEF CalibRows
  <2> QED
    BY <1>9, <1>13, <2>1 DEF LoadCalibrators, Serve
<1>14. ASSUME NEW p \in Proc, CheckFails(p) PROVE ServingTypeOK'
  BY <1>14, ServingAssumption DEF CheckFails
<1>15. ASSUME NEW p \in Proc, Restart(p) PROVE ServingTypeOK'
  BY <1>15, ServingAssumption DEF Restart, Rollback, Empty
<1>16. CASE UNCHANGED vars
  BY <1>16 DEF vars
<1> QED
  BY <1>1, <1>2, <1>3, <1>4, <1>5, <1>6, <1>7, <1>8, <1>10, <1>11, <1>12,
     <1>13, <1>14, <1>15, <1>16 DEF Next

(* A commit replaces the whole live set by the rows of one shipment, whose *)
(* id is newer than anything read.                                         *)
LEMMA CommitSwaps ==
    ASSUME ServingInv, NEW p \in Proc, Commit(p)
    PROVE  /\ ship[p] \in Id /\ OlderThan(ship[p])
           /\ \E keys \in SUBSET Calib :
                 active' = Store!Shipment(ship[p], schemaVer[p], keys)
BY DEF ServingInv, Commit, Sequence, Exclusive

(* Only a commit changes the live set. *)
LEMMA OnlyCommitSwaps ==
    ASSUME [Next]_vars, ~ \E p \in Proc : Commit(p)
    PROVE  UNCHANGED active
BY DEF Next, vars, shipVars, serveVars, BeginShip, Retire, InsertGbm, InsertViolates,
       ShipFails, Refresh, Refreshed, Expire, BeginCheck, ProbeSettles, Serve,
       ProbeFindsNew, LoadNothing, LoadGbm, LoadCalibrators, CheckFails, Restart

(* One shipment is live at a time.                                         *)
LEMMA MatchedStep ==
    ASSUME ServingInv, [Next]_vars
    PROVE  ActiveMatched'
<1>1. CASE ~ \E p \in Proc : Commit(p)
  BY <1>1, OnlyCommitSwaps DEF ServingInv, ActiveMatched, GbmRows
<1>2. ASSUME NEW p \in Proc, Commit(p) PROVE ActiveMatched'
  <2>1. PICK keys \in SUBSET Calib :
          active' = Store!Shipment(ship[p], schemaVer[p], keys)
    BY <1>2, CommitSwaps
  <2>2. ship[p] \in Id /\ schemaVer[p] \in Ver
    BY <1>2, CommitSwaps DEF ServingInv, ServingTypeOK
  <2> QED
    BY <2>1, <2>2, ShipmentRows DEF ActiveMatched, GbmRows
<1> QED
  BY <1>1, <1>2

(* The transactions' part of the invariant: the steps of ship().           *)
LEMMA ShippingStep ==
    ASSUME ServingInv, [Next]_vars
    PROVE  Whole' /\ Exclusive'
<1> USE DEF ServingInv, ServingTypeOK, Whole, Exclusive, shipVars, serveVars
<1>1. ASSUME NEW p \in Proc, BeginShip(p) PROVE Whole' /\ Exclusive'
  BY <1>1 DEF BeginShip
<1>2. ASSUME NEW p \in Proc, Retire(p) PROVE Whole' /\ Exclusive'
  <2>1. Retired(p) = active \/ Retired(p) = {}
    BY DEF Retired
  <2>2. \A q \in Proc : trainer[q] = "inserted" => Retired(p) = {} /\ q # p
    BY <1>2 DEF Retire, Retired
  <2> QED
    BY <1>2, <2>1, <2>2 DEF Retire
<1>3. ASSUME NEW p \in Proc, InsertGbm(p) PROVE Whole' /\ Exclusive'
  <2>1. mine[p] = active
    <3>1. \A g \in GbmRows : g \in mine[p]
      BY <1>3 DEF InsertGbm, Violates, GbmRows
    <3>2. CASE mine[p] = {}
      BY <3>1, <3>2 DEF ActiveMatched
    <3> QED
      BY <3>2
  <2>2. \A q \in Proc \ {p} : trainer[q] # "inserted" /\ mine[q] = {}
    BY <1>3 DEF InsertGbm, InsertWaits, ActiveMatched, GbmRows
  <2> QED
    BY <1>3, <2>1, <2>2 DEF InsertGbm
<1>4. ASSUME NEW p \in Proc, InsertViolates(p) \/ ShipFails(p) \/ Restart(p)
      PROVE Whole' /\ Exclusive'
  BY <1>4 DEF InsertViolates, ShipFails, Restart, Rollback
<1>5. ASSUME NEW p \in Proc, Commit(p) PROVE Whole' /\ Exclusive'
  <2>1. PICK keys \in SUBSET Calib :
          active' = Store!Shipment(ship[p], schemaVer[p], keys)
    BY <1>5, CommitSwaps
  <2>2. ship[p] \in Id /\ schemaVer[p] \in Ver /\ OlderThan(ship[p])
    BY <1>5, CommitSwaps
  <2>3. \A r \in active' : r.id = ship[p]
    BY <2>1, <2>2, ShipmentRows
  <2>4. \A q \in Proc : snap[q] \cap active' = {}
    BY <2>2, <2>3 DEF OlderThan, Id
  <2>5. \A q \in Proc : mine'[q] = {} /\ snap'[q] = snap[q] /\ trainer'[q] # "inserted"
    BY <1>5 DEF Commit
  <2> QED
    BY <2>4, <2>5
<1>6. ASSUME NEW p \in Proc, Refresh(p) \/ Refreshed(p) PROVE Whole' /\ Exclusive'
  BY <1>6 DEF Refresh, Refreshed
<1>7. CASE UNCHANGED <<active, snap, mine, trainer>>
  BY <1>7
<1> QED
  BY <1>1, <1>2, <1>3, <1>4, <1>5, <1>6, <1>7
  DEF Next, vars, Expire, BeginCheck, ProbeSettles, Serve, ProbeFindsNew,
      LoadNothing, LoadGbm, LoadCalibrators, CheckFails

(* What is read keeps behind the sequence and behind the shipment in hand. *)
LEMMA SequenceStep ==
    ASSUME ServingInv, [Next]_vars
    PROVE  Sequence'
<1> USE DEF ServingInv, ServingTypeOK, Sequence, OlderThan, Id, NoModel, shipVars, serveVars
<1>0. /\ nextId \in Nat /\ \A r \in Store!Row : r.id \in Nat
      /\ \A q \in Proc : ship[q] \in Nat /\ got[q] \in Nat /\ state[q].model \in Nat
                        /\ \A r \in snap[q] : r.id \in Nat
  BY ServingAssumption DEF Store!Row
<1>1. ASSUME NEW p \in Proc, BeginShip(p) PROVE Sequence'
  BY <1>1 DEF BeginShip
<1>2. ASSUME NEW p \in Proc, Retire(p) PROVE Sequence'
  BY <1>2 DEF Retire
<1>3. ASSUME NEW p \in Proc, InsertGbm(p) PROVE Sequence'
  <2>1. OlderThan(nextId)'
    BY <1>0, <1>3 DEF InsertGbm
  <2>2. ship'[p] = nextId /\ OlderThan(ship[p])'
    BY <1>3 DEF InsertGbm
  <2>3. \A q \in Proc : trainer'[q] = "inserted" => q = p
    BY <1>3 DEF InsertGbm, InsertWaits
  <2> QED
    BY <1>0, <1>3, <2>1, <2>2, <2>3 DEF InsertGbm
<1>4. ASSUME NEW p \in Proc, InsertViolates(p) PROVE Sequence'
  <2>1. OlderThan(nextId)'
    BY <1>0, <1>4 DEF InsertViolates, Rollback
  <2>2. \A q \in Proc : trainer'[q] = "inserted"
                          => trainer[q] = "inserted" /\ ship'[q] = ship[q]
    BY <1>4 DEF InsertViolates, Rollback
  <2>3. \A q \in Proc : trainer'[q] = "inserted" => OlderThan(ship[q])'
    BY <1>4, <2>2 DEF InsertViolates, Rollback
  <2> QED
    BY <1>0, <1>4, <2>1, <2>2, <2>3 DEF InsertViolates
<1>5. ASSUME NEW p \in Proc, Commit(p) PROVE Sequence'
  <2>1. PICK keys \in SUBSET Calib :
          active' = Store!Shipment(ship[p], schemaVer[p], keys)
    BY <1>5, CommitSwaps
  <2>2. ship[p] \in Id /\ schemaVer[p] \in Ver /\ ship[p] < nextId
    BY <1>5, CommitSwaps DEF Commit
  <2>3. \A r \in active' : r.id = ship[p]
    BY <2>1, <2>2, ShipmentRows
  <2>4. OlderThan(nextId)'
    BY <1>5, <2>2, <2>3 DEF Commit
  <2>5. \A q \in Proc : trainer'[q] # "inserted"
    BY <1>5 DEF Commit, Exclusive
  <2> QED
    BY <2>4, <2>5
<1>6. ASSUME NEW p \in Proc, ShipFails(p) PROVE Sequence'
  BY <1>6 DEF ShipFails, Rollback
<1>7. ASSUME NEW p \in Proc, Refresh(p) \/ Refreshed(p) PROVE Sequence'
  BY <1>7 DEF Refresh, Refreshed
<1>8. ASSUME NEW p \in Proc, LoadGbm(p) PROVE Sequence'
  BY <1>8 DEF LoadGbm, GbmRows
<1>9. ASSUME NEW p \in Proc, NEW s, Serve(p, s),
             \A n \in Nat : got[p] < n /\ state[p].model < n /\ 0 < n => s.model < n
      PROVE Sequence'
  BY <1>0, <1>9 DEF Serve
<1>10. ASSUME NEW p \in Proc, ProbeSettles(p) \/ LoadNothing(p) \/ LoadCalibrators(p)
       PROVE Sequence'
  BY <1>0, <1>9, <1>10 DEF ProbeSettles, LoadNothing, LoadCalibrators, Empty
<1>11. ASSUME NEW p \in Proc, CheckFails(p) PROVE Sequence'
  BY <1>0, <1>11 DEF CheckFails
<1>12. ASSUME NEW p \in Proc, Restart(p) PROVE Sequence'
  BY <1>0, <1>12 DEF Restart, Rollback, Empty
<1>13. CASE UNCHANGED <<active, nextId, trainer, ship, snap, got, state>>
  BY <1>13
<1> QED
  BY <1>1, <1>2, <1>3, <1>4, <1>5, <1>6, <1>7, <1>8, <1>10, <1>11, <1>12, <1>13
  DEF Next, vars, Expire, BeginCheck, ProbeFindsNew

(* Model ids are numbers.                                                  *)
LEMMA IdsAreNumbers ==
    ASSUME ServingTypeOK
    PROVE  /\ \A r \in active : r.id \in Nat /\ r.id > 0
           /\ \A q \in Proc : state[q].model \in Nat /\ got[q] \in Nat
BY ServingAssumption DEF ServingTypeOK, Store!Row, Id, NoModel

(* The predictors' part of the invariant, when the live set is replaced:   *)
(* what they hold and serve is now older than what is live.                *)
LEMMA SwapKeepsReads ==
    ASSUME ServingInv, NEW p \in Proc, Commit(p)
    PROVE  ReadsArePast' /\ NewNeverWithOld'
<1> USE DEF ServingInv, ServingTypeOK
<1>1. PICK keys \in SUBSET Calib :
        active' = Store!Shipment(ship[p], schemaVer[p], keys)
  BY CommitSwaps
<1>2. ship[p] \in Nat /\ ship[p] \in Id /\ schemaVer[p] \in Ver /\ OlderThan(ship[p])
  BY CommitSwaps DEF Id
<1>3. \A r \in active' : r.id = ship[p]
  BY <1>1, <1>2, ShipmentRows
<1>4. UNCHANGED <<schemaVer, check, got, state>>
  BY DEF Commit, serveVars
<1>5. \A q \in Proc : state[q].model < ship[p] /\ got[q] < ship[p]
                      /\ state[q].model \in Nat /\ got[q] \in Nat
  BY <1>2, IdsAreNumbers DEF OlderThan
<1>6. ReadsArePast'
  BY <1>2, <1>3, <1>4, <1>5 DEF ReadsArePast
<1>7. NewNeverWithOld'
  BY <1>2, <1>3, <1>4, <1>5 DEF NewNeverWithOld, GbmRows
<1> QED
  BY <1>6, <1>7

(* The predictors' part of the invariant, when the live set stays.         *)
LEMMA ReadsStep ==
    ASSUME ServingInv, [Next]_vars, UNCHANGED active
    PROVE  ReadsArePast' /\ NewNeverWithOld'
<1> USE DEF ServingInv, ServingTypeOK, ReadsArePast, NewNeverWithOld, GbmRows,
            CalibRows, shipVars, serveVars
<1>0. /\ \A r \in active : r.id \in Nat /\ r.id > 0
      /\ \A q \in Proc : state[q].model \in Nat /\ got[q] \in Nat
  BY IdsAreNumbers
<1>1. ASSUME NEW p \in Proc, BeginCheck(p) \/ ProbeFindsNew(p)
      PROVE ReadsArePast' /\ NewNeverWithOld'
  <2>1. /\ UNCHANGED <<schemaVer, got, state>>
        /\ \A q \in Proc : check'[q] = "calibrators" => check[q] = "calibrators"
    BY <1>1 DEF BeginCheck, ProbeFindsNew
  <2> QED
    BY <2>1
<1>2. ASSUME NEW p \in Proc, LoadGbm(p)
      PROVE ReadsArePast' /\ NewNeverWithOld'
  <2>1. PICK r \in GbmRows : r.ver = schemaVer[p] /\ got' = [got EXCEPT ![p] = r.id]
    BY <1>2 DEF LoadGbm
  <2>2. \A s \in active : s.id = r.id /\ s.ver = r.ver
    BY <2>1 DEF ActiveMatched
  <2> QED
    BY <1>0, <1>2, <2>1, <2>2 DEF LoadGbm
<1>3. ASSUME NEW p \in Proc, Serve(p, Empty)
      PROVE ReadsArePast' /\ NewNeverWithOld'
  BY <1>0, <1>3 DEF Serve, Empty, NoModel
<1>4. ASSUME NEW p \in Proc, Serve(p, state[p])
      PROVE ReadsArePast' /\ NewNeverWithOld'
  <2>1. /\ UNCHANGED schemaVer /\ state' = state
        /\ \A q \in Proc : check'[q] = "calibrators" => check[q] = "calibrators" /\ got'[q] = got[q]
    BY <1>4 DEF Serve
  <2> QED
    BY <2>1
<1>5. ASSUME NEW p \in Proc, LoadCalibrators(p)
      PROVE ReadsArePast' /\ NewNeverWithOld'
  <2> DEFINE cals == {r \in CalibRows : r.ver = schemaVer[p]}
  <2>1. /\ check' = [check EXCEPT ![p] = "idle"]
        /\ state' = [state EXCEPT ![p] = [model |-> got[p], calibrators |-> cals]]
        /\ schemaVer' = schemaVer /\ got' = [got EXCEPT ![p] = NoModel]
    BY <1>5 DEF LoadCalibrators, Serve
  <2>2. \A r \in active : got[p] <= r.id
    BY <1>5 DEF LoadCalibrators
  <2>3. (\E g \in GbmRows : g.id = got[p]) => cals = CalibRows
    BY <1>5 DEF LoadCalibrators, ActiveMatched
  <2> QED
    BY <1>0, <2>1, <2>2, <2>3, SMTT(30)
<1>6. ASSUME NEW p \in Proc, CheckFails(p)
      PROVE ReadsArePast' /\ NewNeverWithOld'
  BY <1>6 DEF CheckFails
<1>7. ASSUME NEW p \in Proc, Restart(p)
      PROVE ReadsArePast' /\ NewNeverWithOld'
  BY <1>0, <1>7, SMTT(30) DEF Restart, Empty, NoModel
<1>8. CASE UNCHANGED <<schemaVer, check, got, state>>
  BY <1>8
<1> QED
  BY <1>1, <1>2, <1>3, <1>4, <1>5, <1>6, <1>7, <1>8
  DEF Next, vars, BeginShip, Retire, InsertGbm, InsertViolates, Commit, ShipFails,
      Refresh, Refreshed, Expire, ProbeSettles, LoadNothing

(* The conjunction is inductive. *)
LEMMA ServingInvHolds ==
    Spec => []ServingInv
<1>1. ASSUME ServingInv, [Next]_vars PROVE ServingInv'
  <2>1. ReadsArePast' /\ NewNeverWithOld'
    BY <1>1, SwapKeepsReads, ReadsStep, OnlyCommitSwaps
  <2> QED
    BY <1>1, <2>1, ServingTypeStep, MatchedStep, ShippingStep, SequenceStep DEF ServingInv
<1> QED
  BY <1>1, ServingInvInit, PTL DEF Spec

-----------------------------------------------------------------------------
(* The trainer's part of the invariant: what it shipped stays the oldest   *)
(* thing a later check can read.                                           *)
LEMMA RefreshReadsLiveStep ==
    ASSUME ServingInv, RefreshReadsLive, [Next]_vars
    PROVE  RefreshReadsLive'
<1> SUFFICES ASSUME faults' = 0 PROVE RefreshReadsLive'
  BY DEF RefreshReadsLive
<1> USE DEF ServingInv, ServingTypeOK, RefreshReadsLive, shipVars, serveVars
<1>0. /\ \A r \in active : r.id \in Nat
      /\ \A q \in Proc : ship[q] \in Nat
  BY IdsAreNumbers, ServingAssumption DEF Id, NoModel
<1>1. ASSUME NEW p \in Proc, BeginShip(p) \/ Retire(p) PROVE RefreshReadsLive'
  BY <1>1 DEF BeginShip, Retire
<1>2. ASSUME NEW p \in Proc, InsertGbm(p) PROVE RefreshReadsLive'
  BY <1>2 DEF InsertGbm
<1>3. ASSUME NEW p \in Proc, InsertViolates(p) PROVE RefreshReadsLive'
  BY <1>3 DEF InsertViolates, Rollback
<1>4. ASSUME NEW p \in Proc, Commit(p) PROVE RefreshReadsLive'
  <2>1. PICK keys \in SUBSET Calib :
          active' = Store!Shipment(ship[p], schemaVer[p], keys)
    BY <1>4, CommitSwaps
  <2>2. ship[p] \in Id /\ schemaVer[p] \in Ver /\ OlderThan(ship[p])
    BY <1>4, CommitSwaps
  <2>3. active' # {} /\ \A r \in active' : r.id = ship[p] /\ r.ver = schemaVer[p]
    BY <2>1, <2>2, ShipmentRows
  <2>4. \A q \in Proc \ {p} : trainer[q] \in {"shipped", "refreshing"}
                                => ship[q] <= ship[p]
    BY <1>0, <1>4, <2>2 DEF Commit, OlderThan
  <2>5. /\ UNCHANGED <<schemaVer, faults, ship, check, got>>
        /\ trainer' = [trainer EXCEPT ![p] = "shipped"]
    BY <1>4 DEF Commit
  <2> QED
    BY <1>0, <2>2, <2>3, <2>4, <2>5
<1>5. ASSUME NEW p \in Proc, Refresh(p) \/ Refreshed(p) PROVE RefreshReadsLive'
  BY <1>5 DEF Refresh, Refreshed
<1>6. ASSUME NEW p \in Proc, BeginCheck(p) \/ ProbeFindsNew(p) PROVE RefreshReadsLive'
  BY <1>6 DEF BeginCheck, ProbeFindsNew
<1>7. ASSUME NEW p \in Proc, LoadGbm(p) PROVE RefreshReadsLive'
  BY <1>7 DEF LoadGbm, GbmRows
<1>8. ASSUME NEW p \in Proc, NEW s, Serve(p, s) PROVE RefreshReadsLive'
  BY <1>8 DEF Serve
<1>9. ASSUME NEW p \in Proc, ShipFails(p) \/ CheckFails(p) \/ Restart(p) PROVE FALSE
  BY <1>9, ServingAssumption DEF ShipFails, CheckFails, Restart
<1>10. CASE UNCHANGED <<schemaVer, active, faults, trainer, ship, check, got>>
  BY <1>10
<1> QED
  BY <1>1, <1>2, <1>3, <1>4, <1>5, <1>6, <1>7, <1>8, <1>9, <1>10
  DEF Next, vars, Expire, ProbeSettles, LoadNothing, LoadCalibrators

(* A complete check that began after the refresh leaves the shipment, a    *)
(* newer one, or rules because another build shipped over it.              *)
LEMMA RefreshSticksStep ==
    ASSUME ServingInv, RefreshReadsLive, RefreshSticks, [Next]_vars
    PROVE  RefreshSticks'
<1> SUFFICES ASSUME faults' = 0 PROVE RefreshSticks'
  BY DEF RefreshSticks
<1> USE DEF ServingInv, ServingTypeOK, RefreshReadsLive, RefreshSticks, shipVars, serveVars
<1>1. ASSUME NEW p \in Proc, BeginShip(p) \/ Retire(p) \/ InsertGbm(p) \/ Commit(p)
      PROVE RefreshSticks'
  BY <1>1 DEF BeginShip, Retire, InsertGbm, Commit
<1>2. ASSUME NEW p \in Proc, InsertViolates(p) PROVE RefreshSticks'
  BY <1>2 DEF InsertViolates, Rollback
<1>3. ASSUME NEW p \in Proc, Refresh(p) \/ Refreshed(p) PROVE RefreshSticks'
  BY <1>3 DEF Refresh, Refreshed
<1>4. ASSUME NEW p \in Proc, Expire(p) \/ BeginCheck(p) PROVE RefreshSticks'
  BY <1>4 DEF Expire, BeginCheck
<1>5. ASSUME NEW p \in Proc, ProbeFindsNew(p) \/ LoadGbm(p) PROVE RefreshSticks'
  BY <1>5 DEF ProbeFindsNew, LoadGbm
<1>6. ASSUME NEW p \in Proc, NEW s, Serve(p, s),
             trainer[p] = "refreshing"
                => \/ s.model >= ship[p]
                   \/ s = Empty /\ \E q \in Proc : schemaVer[q] # schemaVer[p]
      PROVE RefreshSticks'
  BY <1>6 DEF Serve
<1>7. \A p \in Proc : trainer[p] = "refreshing" =>
        /\ GbmRows # {}
        /\ \A r \in GbmRows : /\ r.id >= ship[p]
                              /\ \E q \in Proc : r.ver = schemaVer[q]
  <2>1. faults = 0
    BY ServingAssumption DEF Next, vars, BeginShip, Retire, InsertGbm, InsertViolates,
       Commit, ShipFails, Refresh, Refreshed, Expire, BeginCheck, ProbeSettles, Serve,
       ProbeFindsNew, LoadNothing, LoadGbm, LoadCalibrators, CheckFails, Restart
  <2> QED
    BY <2>1 DEF ActiveMatched, GbmRows
<1>8. ASSUME NEW p \in Proc, ProbeSettles(p) \/ LoadNothing(p) \/ LoadCalibrators(p)
      PROVE RefreshSticks'
  <2>1. CASE ProbeSettles(p)
    BY <1>6, <1>7, <2>1 DEF ProbeSettles
  <2>2. CASE LoadNothing(p)
    <3>1. trainer[p] = "refreshing" => \E q \in Proc : schemaVer[q] # schemaVer[p]
      BY <1>7, <2>2 DEF LoadNothing
    <3> QED
      BY <1>6, <2>2, <3>1 DEF LoadNothing
  <2>3. CASE LoadCalibrators(p)
    BY <1>6, <2>3 DEF LoadCalibrators, Serve
  <2> QED
    BY <1>8, <2>1, <2>2, <2>3
<1>9. ASSUME NEW p \in Proc, ShipFails(p) \/ CheckFails(p) \/ Restart(p) PROVE FALSE
  BY <1>9, ServingAssumption DEF ShipFails, CheckFails, Restart
<1>10. CASE UNCHANGED vars
  BY <1>10 DEF vars
<1> QED
  BY <1>1, <1>2, <1>3, <1>4, <1>5, <1>8, <1>9, <1>10 DEF Next

(* refresh() is not lost: however other processes ship, expire and check   *)
(* meanwhile, when the trainer's refresh has been answered by a complete   *)
(* check its process serves what it shipped or a newer model, or rules     *)
(* because a build of another feature schema shipped over it.              *)
THEOREM RefreshIsNotLost ==
    Spec => []RefreshSticks
<1>1. Init => RefreshReadsLive /\ RefreshSticks
  BY DEF Init, RefreshReadsLive, RefreshSticks
<1> QED
  BY <1>1, ServingInvHolds, RefreshReadsLiveStep, RefreshSticksStep, PTL DEF Spec

-----------------------------------------------------------------------------
(* The variables keep their types: in particular a transaction that is     *)
(* over has left no row locked and a model id read is used or forgotten.   *)
THEOREM ServingTypeCorrect ==
    Spec => []ServingTypeOK
BY ServingInvHolds, PTL DEF ServingInv

(* However shipments of any number of processes race, fail and are rolled  *)
(* back, the active rows are one GBM and the calibrators shipped with it.  *)
THEOREM OneLiveShipment ==
    Spec => []ActiveMatched
BY ServingInvHolds, PTL DEF ServingInv

(* Although GbmPredictor reads the GBM and the calibrators in two          *)
(* snapshots, no process serves a model with calibrators older than it,    *)
(* and none serves the live model with any but its own calibrators.        *)
THEOREM NewBoosterNeverWithOldCalibrators ==
    Spec => []NewNeverWithOld
BY ServingInvHolds, PTL DEF ServingInv

(* A process never goes back to an older model. *)
THEOREM ServedNeverGoesBack ==
    Spec => ServedMonotone
<1>1. ASSUME ServingInv, [Next]_vars
      PROVE  [\A p \in Proc : state'[p].model # NoModel
                                => state'[p].model >= state[p].model]_vars
  <2> SUFFICES ASSUME NEW p \in Proc, state'[p].model # NoModel
               PROVE  state'[p].model >= state[p].model
    OBVIOUS
  <2> USE DEF ServingInv, ServingTypeOK
  <2>0. \A q \in Proc : state[q].model \in Nat /\ got[q] \in Nat
    BY <1>1, IdsAreNumbers
  <2>1. ASSUME NEW q \in Proc, NEW s, Serve(q, s),
               s.model = NoModel \/ s.model >= state[q].model
        PROVE  state'[p].model >= state[p].model
    BY <1>1, <2>0, <2>1 DEF Serve, NoModel
  <2>2. ASSUME NEW q \in Proc, ProbeSettles(q) \/ LoadNothing(q)
        PROVE  state'[p].model >= state[p].model
    BY <2>0, <2>1, <2>2 DEF ProbeSettles, LoadNothing, Empty
  <2>3. ASSUME NEW q \in Proc, LoadCalibrators(q)
        PROVE  state'[p].model >= state[p].model
    BY <1>1, <2>0, <2>1, <2>3 DEF LoadCalibrators, ReadsArePast
  <2>4. ASSUME NEW q \in Proc, Restart(q)
        PROVE  state'[p].model >= state[p].model
    BY <1>1, <2>0, <2>4 DEF Restart, Empty
  <2>5. CASE UNCHANGED state
    BY <2>0, <2>5
  <2> QED
    BY <1>1, <2>2, <2>3, <2>4, <2>5
    DEF Next, vars, shipVars, serveVars, BeginShip, Retire, InsertGbm, InsertViolates,
        Commit, ShipFails, Refresh, Refreshed, Expire, BeginCheck, ProbeFindsNew,
        LoadGbm, CheckFails
<1> QED
  BY <1>1, ServingInvHolds, PTL DEF Spec, ServedMonotone

(* The transactions of PgModelStore.ship implement the register of         *)
(* ModelStore: every step leaves the active rows as they are or replaces   *)
(* them all by one newer shipment.                                         *)
THEOREM ShipIsAtomic ==
    Spec => AtomicSwap
<1>1. Init => Store!Init
  BY DEF Init, Store!Init
<1>2. ASSUME ServingInv, [Next]_vars PROVE [Store!Ship]_active
  <2>1. CASE ~ \E p \in Proc : Commit(p)
    BY <1>2, <2>1, OnlyCommitSwaps
  <2>2. ASSUME NEW p \in Proc, Commit(p) PROVE Store!Ship
    <3>1. PICK keys \in SUBSET Calib :
            active' = Store!Shipment(ship[p], schemaVer[p], keys)
      BY <1>2, <2>2, CommitSwaps
    <3>2. ship[p] \in Id /\ \A r \in active : r.id < ship[p]
      BY <1>2, <2>2, CommitSwaps DEF OlderThan
    <3>3. schemaVer[p] \in Ver
      BY <1>2 DEF ServingInv, ServingTypeOK
    <3> QED
      BY <3>1, <3>2, <3>3 DEF Store!Ship
  <2> QED
    BY <2>1, <2>2
<1> QED
  BY <1>1, <1>2, ServingInvHolds, PTL DEF Spec, AtomicSwap, Store!Spec

-----------------------------------------------------------------------------
(* Retrain *)

(* What the checks of maybe_retrain found still holds while it trains: the *)
(* last shipment is a window away, for only this thread ships.             *)
WindowHeld ==
    pc = "train" /\ shippedAt # Never => start - shippedAt >= Window

(* The failure marker tells how the last training ended, as long as it     *)
(* was one that failed.                                                    *)
MarkerMatches ==
    /\ last.end = "rejected" => failedAt = last.at /\ failedAt # Never /\ ~failedCold
    /\ last.end = "cold" => failedAt = last.at /\ failedAt # Never /\ failedCold

(* Events are stamped by the clock, and those the shipped model was        *)
(* trained on are not newer than its trained_at.                           *)
LogBehind ==
    /\ \A k \in DOMAIN log : log[k] <= now
    /\ shippedAt # Never => \A k \in 1..trained : log[k] <= shippedAt

RetrainInv ==
    /\ RetrainTypeOK
    /\ WindowHeld
    /\ MarkerMatches
    /\ LogBehind
    /\ StrongestKept
    /\ TriggerMeansNews

-----------------------------------------------------------------------------
(* The new events are among those the shipped model has not seen.          *)
LEMMA NewsIsUnseen ==
    ASSUME RetrainTypeOK, LogBehind, shippedAt # Never
    PROVE  NewEvents \in Nat /\ NewEvents <= Len(log) - trained
<1> DEFINE new == {k \in DOMAIN log : log[k] > shippedAt}
           unseen == (trained + 1)..Len(log)
<1> USE DEF RetrainTypeOK
<1>1. new \subseteq unseen
  <2>1. /\ log \in Seq(Nat) /\ trained \in 0..Len(log)
        /\ shippedAt \in Nat /\ \A k \in 1..trained : log[k] <= shippedAt
    BY DEF LogBehind, Never
  <2>2. SUFFICES ASSUME NEW k \in new PROVE k \in unseen
    OBVIOUS
  <2>3. k \in 1..Len(log) /\ log[k] \in Nat /\ log[k] > shippedAt
    BY <2>1
  <2>4. k \notin 1..trained
    BY <2>1, <2>3
  <2> QED
    BY <2>1, <2>3, <2>4
<1>2. IsFiniteSet(unseen) /\ Cardinality(unseen) = Len(log) - trained
  <2>1. trained + 1 \in Int /\ Len(log) \in Int /\ trained <= Len(log)
    OBVIOUS
  <2>2. IsFiniteSet(unseen)
    BY <2>1, FS_Interval
  <2>3. Cardinality(unseen) = IF trained + 1 > Len(log) THEN 0
                              ELSE Len(log) - (trained + 1) + 1
    BY <2>1, FS_Interval
  <2> QED
    BY <2>1, <2>2, <2>3
<1>3. IsFiniteSet(new) /\ Cardinality(new) <= Cardinality(unseen)
  BY <1>1, <1>2, FS_Subset
<1>4. Cardinality(new) \in Nat
  BY <1>3, FS_CardinalityType
<1> QED
  BY <1>2, <1>3, <1>4 DEF NewEvents

(* The process starts with an empty log, no model and nothing asked for.   *)
LEMMA RetrainInvInit ==
    RetrainInit => RetrainInv
<1> SUFFICES ASSUME RetrainInit PROVE RetrainInv
  OBVIOUS
<1>1. RetrainTypeOK
  <2>1. log \in Seq(Nat) /\ Len(log) = 0
    BY DEF RetrainInit
  <2>2. last \in [at : {Never} \cup 0..now,
                   end : {"none", "cold", "rejected", "shipped", "raised"}]
    BY DEF RetrainInit
  <2>3. /\ now \in Nat /\ start \in 0..now
        /\ shippedAt \in {Never} \cup 0..now /\ failedAt \in {Never} \cup 0..now
        /\ frame \in 0..Len(log) /\ trained \in 0..Len(log)
    BY <2>1 DEF RetrainInit
  <2>4. /\ pending = None /\ asked = {} /\ reason = None /\ pc = "loop"
        /\ stopping = FALSE /\ failedCold = FALSE
    BY DEF RetrainInit
  <2> QED
    BY <2>1, <2>2, <2>3, <2>4 DEF RetrainTypeOK
<1>2. WindowHeld /\ MarkerMatches /\ LogBehind /\ StrongestKept /\ TriggerMeansNews
  BY DEF RetrainInit, WindowHeld, MarkerMatches, LogBehind, StrongestKept, TriggerMeansNews, Never
<1> QED
  BY <1>1, <1>2 DEF RetrainInv

(* Every step keeps the invariant: requests and the clock leave the        *)
(* thread's decision alone, and each of its steps carries it on.           *)
LEMMA RetrainInvStep ==
    ASSUME RetrainInv, [RetrainNext]_retrainVars
    PROVE  RetrainInv'
<1> USE RetrainAssumption DEF RetrainInv, RetrainTypeOK, Never, None, Reason,
        requestVars, trainVars
<1>1. CASE AppendEvent
  <2>1. RetrainTypeOK'
    BY <1>1 DEF AppendEvent
  <2>2. LogBehind'
    BY <1>1 DEF AppendEvent, LogBehind
  <2> QED
    BY <1>1, <2>1, <2>2 DEF AppendEvent, WindowHeld, MarkerMatches, StrongestKept,
                            TriggerMeansNews
<1>2. ASSUME NEW r \in Reason, Request(r),
             UNCHANGED <<now, log, stopping, reason, trainVars>>
      PROVE  RetrainInv'
  <2>1. RetrainTypeOK' /\ (pc' = "train" => pc = "train")
    BY <1>2 DEF Request, Coalesced, Notified
  <2>2. StrongestKept'
    BY <1>2 DEF Request, Coalesced, Rank, StrongestKept
  <2> QED
    BY <1>2, <2>1, <2>2 DEF WindowHeld, MarkerMatches, LogBehind, TriggerMeansNews
<1>3. CASE RequestEvents \/ RequestForced
  BY <1>2, <1>3 DEF RequestEvents, RequestForced
<1>4. CASE Stop
  BY <1>4 DEF Stop, Notified, WindowHeld, MarkerMatches, LogBehind, StrongestKept,
              TriggerMeansNews
<1>5. CASE Sleep \/ Quit
  <2>1. RetrainTypeOK'
    BY <1>5 DEF Sleep, Quit
  <2>2. WindowHeld' /\ TriggerMeansNews'
    BY <1>5 DEF Sleep, Quit, WindowHeld, TriggerMeansNews
  <2>3. MarkerMatches'
    BY <1>5 DEF Sleep, Quit, MarkerMatches
  <2>4. LogBehind' /\ StrongestKept'
    BY <1>5 DEF Sleep, Quit, LogBehind, StrongestKept
  <2> QED
    BY <2>1, <2>2, <2>3, <2>4
<1>6. CASE Take
  BY <1>6 DEF Take, WindowHeld, MarkerMatches, LogBehind, StrongestKept, TriggerMeansNews
<1>7. CASE Begin
  <2>1. RetrainTypeOK'
    BY <1>7 DEF Begin
  <2>2. WindowHeld' /\ TriggerMeansNews'
    BY <1>7 DEF Begin, WindowHeld, TriggerMeansNews
  <2>3. MarkerMatches'
    BY <1>7 DEF Begin, MarkerMatches
  <2>4. LogBehind' /\ StrongestKept'
    BY <1>7 DEF Begin, LogBehind, StrongestKept
  <2> QED
    BY <2>1, <2>2, <2>3, <2>4
<1>8. CASE Skip
  BY <1>8 DEF Skip, Return, WindowHeld, MarkerMatches, LogBehind, StrongestKept,
              TriggerMeansNews
<1>9. CASE Fetch
  <2>1. RetrainTypeOK' /\ MarkerMatches' /\ LogBehind' /\ StrongestKept'
    BY <1>9 DEF Fetch, MarkerMatches, LogBehind, StrongestKept
  <2>2. WindowHeld'
    BY <1>9 DEF Fetch, Debounced, WindowHeld
  <2>3. TriggerMeansNews'
    BY <1>9, NewsIsUnseen DEF Fetch, TriggerMeansNews
  <2> QED
    BY <2>1, <2>2, <2>3
<1>10. CASE Cold \/ Reject
  <2>0. Len(log) \in Nat
    OBVIOUS
  <2>1. RetrainTypeOK'
    <3>1. (last \in [at : {Never} \cup 0..now,
                     end : {"none", "cold", "rejected", "shipped", "raised"}])'
      BY <1>10 DEF Cold, Reject, Ended
    <3>2. /\ UNCHANGED <<now, log, pending, asked, stopping>>
          /\ start' = 0 /\ frame' = 0 /\ reason' = None /\ pc' = "loop"
      BY <1>10 DEF Cold, Reject, Return
    <3>3. /\ shippedAt' \in {Never} \cup 0..now
          /\ failedAt' \in {Never} \cup 0..now
          /\ trained' \in 0..Len(log)
      BY <1>10, <2>0 DEF Cold, Reject, Return
    <3>4. failedCold' \in BOOLEAN
      BY <1>10 DEF Cold, Reject, Return
    <3> QED
      BY <2>0, <3>1, <3>2, <3>3, <3>4
  <2>2. WindowHeld' /\ TriggerMeansNews'
    BY <1>10 DEF Cold, Reject, Return, Ended, WindowHeld, TriggerMeansNews
  <2>3. MarkerMatches'
    BY <1>10 DEF Cold, Reject, Return, Ended, MarkerMatches
  <2>4. LogBehind' /\ StrongestKept'
    BY <1>10 DEF Cold, Reject, Return, Ended, LogBehind, StrongestKept
  <2> QED
    BY <2>1, <2>2, <2>3, <2>4
<1>11. CASE Ship \/ ShipNotRefreshed
  <2>0. Len(log) \in Nat
    OBVIOUS
  <2>1. RetrainTypeOK'
    <3>1. (last \in [at : {Never} \cup 0..now,
                     end : {"none", "cold", "rejected", "shipped", "raised"}])'
      BY <1>11 DEF Ship, ShipNotRefreshed, Ended
    <3>2. /\ UNCHANGED <<now, log, pending, asked, stopping>>
          /\ start' = 0 /\ frame' = 0 /\ reason' = None /\ pc' = "loop"
      BY <1>11 DEF Ship, ShipNotRefreshed, Return
    <3>3. /\ shippedAt' \in {Never} \cup 0..now
          /\ failedAt' \in {Never} \cup 0..now
          /\ trained' \in 0..Len(log)
      BY <1>11, <2>0 DEF Ship, ShipNotRefreshed, Return
    <3>4. failedCold' \in BOOLEAN
      BY <1>11 DEF Ship, ShipNotRefreshed, Return
    <3> QED
      BY <2>0, <3>1, <3>2, <3>3, <3>4
  <2>2. WindowHeld' /\ TriggerMeansNews'
    BY <1>11 DEF Ship, ShipNotRefreshed, Return, Ended, WindowHeld, TriggerMeansNews
  <2>3. MarkerMatches'
    BY <1>11 DEF Ship, ShipNotRefreshed, Return, Ended, MarkerMatches
  <2>4. LogBehind'
    <3>1. UNCHANGED <<now, log>> /\ trained' = frame /\ shippedAt' = now
      BY <1>11 DEF Ship, ShipNotRefreshed
    <3>2. \A k \in 1..frame : k \in DOMAIN log
      BY <2>0
    <3> QED
      BY <3>1, <3>2 DEF LogBehind
  <2>5. StrongestKept'
    BY <1>11 DEF Ship, ShipNotRefreshed, StrongestKept
  <2> QED
    BY <2>1, <2>2, <2>3, <2>4, <2>5
<1>12. CASE Raise
  BY <1>12 DEF Raise, Return, WindowHeld, MarkerMatches, LogBehind, StrongestKept,
               TriggerMeansNews
<1>13. CASE Tick
  BY <1>13, SMTT(30) DEF Tick, WindowHeld, MarkerMatches, LogBehind, StrongestKept, TriggerMeansNews
<1>14. CASE UNCHANGED retrainVars
  BY <1>14 DEF retrainVars, WindowHeld, MarkerMatches, LogBehind, StrongestKept, TriggerMeansNews
<1> QED
  BY <1>1, <1>3, <1>4, <1>5, <1>6, <1>7, <1>8, <1>9, <1>10, <1>11, <1>12, <1>13,
     <1>14 DEF RetrainNext, Loop

(* The conjunction is inductive. *)
LEMMA RetrainInvHolds ==
    RetrainSpec => []RetrainInv
BY RetrainInvInit, RetrainInvStep, PTL DEF RetrainSpec

-----------------------------------------------------------------------------
(* The variables keep their types; nothing the loop holds is newer than    *)
(* the clock.                                                              *)
THEOREM RetrainTypeCorrect ==
    RetrainSpec => []RetrainTypeOK
BY RetrainInvHolds, PTL DEF RetrainInv

(* Coalescing never demotes: the reason that waits is the strongest one    *)
(* asked for.                                                              *)
THEOREM ForcingIsNotDemoted ==
    RetrainSpec => []StrongestKept
BY RetrainInvHolds, PTL DEF RetrainInv

(* The events trigger trains on at least Threshold events that are new to  *)
(* the live model, although it counts by time stamp and the frame is       *)
(* fetched later.                                                          *)
THEOREM CounterFiresOnNews ==
    RetrainSpec => []TriggerMeansNews
BY RetrainInvHolds, PTL DEF RetrainInv

(* Any two consecutive shipments of a process are a window apart. *)
THEOREM ShipmentsAreSpaced ==
    RetrainSpec => ShipSpacing
<1>1. ASSUME RetrainInv, [RetrainNext]_retrainVars
      PROVE  [shippedAt' # shippedAt /\ shippedAt # Never
                 => shippedAt' - shippedAt >= Window]_retrainVars
  <2> SUFFICES ASSUME shippedAt' # shippedAt, shippedAt # Never
               PROVE  shippedAt' - shippedAt >= Window
    OBVIOUS
  <2>1. pc = "train" /\ shippedAt' = now
    BY <1>1 DEF RetrainNext, Loop, AppendEvent, RequestEvents, RequestForced, Stop, Sleep, Quit,
                Take, Begin, Skip, Fetch, Cold, Reject, Ship, ShipNotRefreshed, Raise,
                Tick, retrainVars, trainVars
  <2>2. start - shippedAt >= Window
    BY <1>1, <2>1 DEF RetrainInv, WindowHeld
  <2> QED
    BY <1>1, <2>1, <2>2, RetrainAssumption DEF RetrainInv, RetrainTypeOK, Never
<1> QED
  BY <1>1, RetrainInvHolds, PTL DEF RetrainSpec, ShipSpacing

(* The cooldown holds whatever was requested and whatever failed between   *)
(* the attempts.                                                           *)
THEOREM FailuresDoNotHotLoop ==
    RetrainSpec => NoHotLoop
<1>1. ASSUME RetrainInv, [RetrainNext]_retrainVars
      PROVE  [pc = "decide" /\ pc' = "train" =>
                /\ last.end = "rejected" => start - last.at >= Cooldown
                /\ last.end = "cold" /\ reason = "events"
                      => start - last.at >= Cooldown]_retrainVars
  <2> SUFFICES ASSUME pc = "decide", pc' = "train"
               PROVE  /\ last.end = "rejected" => start - last.at >= Cooldown
                      /\ last.end = "cold" /\ reason = "events"
                            => start - last.at >= Cooldown
    OBVIOUS
  <2>1. Fetch
    BY <1>1 DEF RetrainNext, Loop, AppendEvent, RequestEvents, RequestForced, Request, Notified,
                Stop, Sleep, Quit, Take, Begin, Skip, Cold, Reject, Ship,
                ShipNotRefreshed, Raise, Return, Tick, retrainVars
  <2> QED
    BY <1>1, <2>1, RetrainAssumption
    DEF Fetch, CoolingDown, RetrainInv, RetrainTypeOK, MarkerMatches, Never
<1> QED
  BY <1>1, RetrainInvHolds, PTL DEF RetrainSpec, NoHotLoop
=============================================================================
