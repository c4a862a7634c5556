------------------------------- MODULE MCLlm --------------------------------
(* LlmSidecar for TLC: three candidates, and comparisons on each side of   *)
(* every threshold of the evaluation.  A deployment switches on the roles  *)
(* that share rows, the queue or a cache key with one another.             *)
EXTENDS LlmSidecar

MCDeployments ==
    { {"judge", "extractor", "abstain_explainer"},
      {"judge", "coldstart", "explainer"},
      {"explainer", "abstain_explainer"} }

MCCandidates == <<11, 12, 13>>

Arms(s, n, cs, cn) == [sLlm |-> s, nLlm |-> n, sCls |-> cs, nCls |-> cn, n |-> n]

MCComparisons ==
    { Arms(30, 50, 0, 0), Arms(46, 50, 50, 50), Arms(30, 49, 49, 49), Arms(46, 50, 49, 49),
      Arms(48, 50, 50, 50) }
=============================================================================
