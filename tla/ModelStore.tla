----------------------------- MODULE ModelStore -----------------------------
(***************************************************************************)
(* What ml/artifacts.py promises of the table model_artifact: the active   *)
(* rows are one register holding a complete set - one GBM and its          *)
(* calibrators - and ship() replaces the whole set in one step by a newer  *)
(* one.  Serving.tla implements this with READ COMMITTED transactions of   *)
(* several processes and a partial unique index.                           *)
(***************************************************************************)
EXTENDS Integers

CONSTANTS
    Id,        \* the model ids the sequence of the table can hand out
    Ver,       \* the values of feature_schema_ver
    Calib      \* the calibrator keys: the install and the projects

VARIABLE active     \* the rows with is_active

(* An artifact row: its key (kind and project), the shipment that wrote it *)
(* and the feature schema it was trained on.                               *)
Row == [key : Calib \cup {"gbm"}, id : Id, ver : Ver]

(* The rows one shipment inserts. *)
Shipment(id, ver, keys) == [key : keys \cup {"gbm"}, id : {id}, ver : {ver}]

Init == active = {}

Ship == \E id \in Id, ver \in Ver, keys \in SUBSET Calib :
            /\ \A r \in active : r.id < id
            /\ active' = Shipment(id, ver, keys)

Spec == Init /\ [][Ship]_active
=============================================================================
