------------------------------- MODULE Scope --------------------------------
(***************************************************************************)
(* core/scope.py: what analyzerMode lets the routes use as evidence, and   *)
(* how it weighs it.  Pure operators.                                      *)
(*                                                                         *)
(* A query is [launch, name, prev]; a candidate has a launch, a name and   *)
(* the prefix of its issue type.  A boost is written as the power of       *)
(* LAUNCH_BOOST it multiplies by: -1, 0, 1 or 2.                           *)
(***************************************************************************)
EXTENDS Integers

(* _KNOWN_MODES *)
KnownModes == {"LAUNCH_NAME", "CURRENT_AND_THE_SAME_NAME", "CURRENT_LAUNCH",
               "PREVIOUS_LAUNCH", "ALL"}

(* _mode: anything else is the default, no mode. *)
ModeOf(m) == IF m \in KnownModes THEN m ELSE "unset"

(* A candidate with no issue type has the empty prefix here. *)
PassesBase(c) == c.prefix \notin {"none", "ti"}

(* in_analyze_scope: the hard filter of the routes that may label. *)
InAnalyzeScope(mode, q, c) ==
    /\ PassesBase(c)
    /\ CASE ModeOf(mode) = "LAUNCH_NAME" -> c.name = q.name /\ c.launch # q.launch
         [] ModeOf(mode) = "CURRENT_AND_THE_SAME_NAME" -> c.name = q.name
         [] ModeOf(mode) = "CURRENT_LAUNCH" -> c.launch = q.launch
         [] ModeOf(mode) = "PREVIOUS_LAUNCH" -> c.launch = q.prev
         [] ModeOf(mode) = "ALL" -> c.launch # q.launch
         [] OTHER -> TRUE

Power(b) == IF b THEN 1 ELSE 0
SameName(q, c) == q.name # "" /\ c.name = q.name
SameLaunch(q, c) == c.launch = q.launch

(* analyze_boost *)
AnalyzeBoost(mode, q, c) ==
    CASE ModeOf(mode) = "CURRENT_AND_THE_SAME_NAME" -> Power(SameLaunch(q, c))
      [] ModeOf(mode) = "unset" -> Power(SameName(q, c)) + Power(SameLaunch(q, c))
      [] OTHER -> 0

(* suggest_boost: suggest filters nothing, every mode is a weight. *)
SuggestBoost(mode, q, c) ==
    CASE ModeOf(mode) \in {"LAUNCH_NAME", "ALL"} ->
             Power(SameName(q, c)) - Power(SameLaunch(q, c))
      [] ModeOf(mode) = "PREVIOUS_LAUNCH" -> Power(q.prev # 0 /\ c.launch = q.prev)
      [] OTHER -> Power(SameName(q, c)) + Power(SameLaunch(q, c))
=============================================================================
