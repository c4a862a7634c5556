----------------------------- MODULE MCServing ------------------------------
(***************************************************************************)
(* Serving for TLC.                                                        *)
(***************************************************************************)
EXTENDS Serving

(* The calibrator keys: the install's only, with one row or none per       *)
(* shipment.  The GBM and this key already race on two index entries.      *)
MCCalib == {"install"}
=============================================================================
