----------------------------- MODULE MCTransport -----------------------------
(***************************************************************************)
(* Small instances of Transport for TLC. A cfg picks which of five typical  *)
(* messages are published; what each one is, is defined here.               *)
(***************************************************************************)
EXTENDS Transport

\* "garbage" does not parse; the others are named after their routing key.
MCWellFormed == Message \ {"garbage"}
\* search is an RPC; analyze and train_models are fire-and-forget.
MCReplyTo    == Message \cap {"search"}
MCRoute      == [m \in Message |-> CASE m = "search"       -> "rpc"
                                     [] m = "analyze"      -> "analyze"
                                     [] m = "train_models" -> "train_models"
                                     [] m = "namespace"    -> "silent"
                                     [] OTHER              -> "unknown"]
\* search is stamped between the two clock values analyze can arrive at.
MCHeader     == [m \in Message |-> IF m = "search" THEN 1 ELSE NoHeader]
=============================================================================
