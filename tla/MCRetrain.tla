----------------------------- MODULE MCRetrain ------------------------------
(***************************************************************************)
(* Retrain for TLC.                                                        *)
(***************************************************************************)
EXTENDS Retrain
=============================================================================
