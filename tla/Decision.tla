------------------------------ MODULE Decision ------------------------------
(***************************************************************************)
(* core/decision.py and the part of core/features.py it decides on: how    *)
(* the evidence retrieved for one failed item becomes a label, a           *)
(* confidence and an action.  Pure operators.                              *)
(*                                                                         *)
(* Probabilities, similarities and confidences are whole per cents.  A     *)
(* locator is [prefix, sub]: its leading letters, folded, and the rest.    *)
(* A row is one item of the history with its label:                        *)
(*   item    its id                                                        *)
(*   type    its locator                                                   *)
(*   source  where the label came from: rp, human, ai_suggested or none    *)
(*   age     of the label in days, or NoDate                               *)
(*   codes   the status codes of its message                               *)
(*   tokens  the words of its masked message                               *)
(*   hash    its error_hash                                                *)
(*   fp, tmpl  whether it shares the query's exception_fp, any template    *)
(*   cos     its similarity to the query                                   *)
(***************************************************************************)
EXTENDS Lists

CONSTANTS
    Identifiers,   \* the words _IDENTIFIER_TOKEN_RE recognises
    TauAuto        \* ANALYZER_AUTO_MIN_PROB, in per cent

ASSUME DecisionAssumption == TauAuto \in 0..100

TauSuggest == 45
StageAConfidence == 95
StageAMaxAge == 180
StageAJaccard == 50
StageAHumanMin == 90
KbStrongPurity == 95
KbStrongSupport == 10
KbStrongScore == 85
KbConfidenceCap == 93
KbCandidateScore == 70
SeedPriorMin == 70

BaseLabels == {"pb", "ab", "si", "nd"}
NoDate == -1
None == "none"
Human == {"rp", "human"}

AtMost(a, b) == IF a <= b THEN a ELSE b

(* base_group: the empty string stands for None and for _base's "". *)
BaseGroup(t) == IF t.prefix \in BaseLabels THEN t.prefix ELSE ""

(* default_locator *)
DefaultLocator(base) == [prefix |-> base, sub |-> "001"]
NoLocator == [prefix |-> "ti", sub |-> ""]

(* src_weight *)
SrcWeight(source) ==
    CASE source = "rp" -> 100 [] source = "human" -> 90 [] source = "seed" -> 60
      [] OTHER -> 30

-----------------------------------------------------------------------------
(* Similarity of messages.                                                 *)

Jaccard(a, b) ==
    IF a \cup b = {} THEN 100
    ELSE (100 * Cardinality(a \cap b)) \div Cardinality(a \cup b)

IdentifierTokens(s) == s \cap Identifiers

(* identifier_jaccard: identifiers decide as soon as one side has any. *)
IdentifierJaccard(q, m) ==
    IF IdentifierTokens(q) \cup IdentifierTokens(m) # {}
    THEN Jaccard(IdentifierTokens(q), IdentifierTokens(m))
    ELSE Jaccard(q, m)

-----------------------------------------------------------------------------
(* Stage A: inherit the label of an exact error_hash match.                *)

(* The discriminants error_hash masks away. *)
Agrees(q, m) ==
    /\ m.codes = q.codes
    /\ IdentifierJaccard(q.tokens, m.tokens) >= StageAJaccard

DiscriminantFilter(q, matches) == Picked(matches, {i \in DOMAIN matches : Agrees(q, matches[i])})

GateBlocked(q, matches) ==
    /\ q.fp # 0
    /\ matches # <<>>
    /\ DiscriminantFilter(q, matches) = <<>>

(* The first row with the latest label; an undated label is the oldest.    *)
Newest(rows) ==
    LET date(i) == IF rows[i].age = NoDate THEN 100000 ELSE rows[i].age
        first == CHOOSE i \in DOMAIN rows :
                     \A j \in DOMAIN rows :
                         date(i) < date(j) \/ (date(i) = date(j) /\ i <= j)
    IN rows[first]

(* stage_a_inherit's guards, over the rows that passed the filter. *)
Inheritable(rows) ==
    /\ rows # <<>>
    /\ Newest(rows).age <= StageAMaxAge
    /\ \/ Len(rows) >= 2 /\ \A i, j \in DOMAIN rows : rows[i].type = rows[j].type
       \/ /\ Len(rows) = 1
          /\ Newest(rows).source \in Human
          /\ SrcWeight(Newest(rows).source) >= StageAHumanMin
    /\ BaseGroup(Newest(rows).type) # ""
    /\ ~(BaseGroup(Newest(rows).type) = "nd" /\ Newest(rows).source = "ai_suggested")

StageAInherits(q, matches) ==
    q.fp # 0 /\ Inheritable(DiscriminantFilter(q, matches))

-----------------------------------------------------------------------------
(* Stage B: a failure mode of the knowledge base, as                       *)
(* [mode, status, label, purity, support, score].                          *)

(* score_kb_candidate: its weighted sum. *)
ScoreKb(cos, jac, fpHit) == (60 * cos + 25 * jac + (IF fpHit THEN 1500 ELSE 0)) \div 100

(* best_kb_match: the highest score, and of those the lowest mode_id. *)
BestKb(modes) ==
    CHOOSE k \in modes : \A o \in modes :
        o.score < k.score \/ (o.score = k.score /\ k.mode <= o.mode)

(* kb_short_circuit *)
KbDecides(modes) ==
    /\ modes # {}
    /\ BestKb(modes).status = "confirmed"
    /\ BestKb(modes).purity >= KbStrongPurity
    /\ BestKb(modes).support >= KbStrongSupport
    /\ BestKb(modes).score >= KbStrongScore

-----------------------------------------------------------------------------
(* The columns of the feature snapshot that a decision reads.              *)

(* extract_features over _with_candidates' context: the exact-hash top 1   *)
(* is the first hash match, whatever Stage C ranks first.                  *)
ExtractFeatures(q, matches, stageC) ==
    LET neighbour == IF matches # <<>> THEN matches[1].tokens
                     ELSE IF stageC # <<>> THEN stageC[1].tokens ELSE {}
        ids == IdentifierTokens(q.tokens) \cup IdentifierTokens(neighbour)
    IN [ statusPresent |-> q.codes # {},
         statusMatch   |-> /\ matches # <<>>
                           /\ q.codes # {}
                           /\ matches[1].codes = q.codes,
         identPresent  |-> IdentifierTokens(q.tokens) # {},
         identJaccard  |-> IF ids = {} THEN 0
                           ELSE Jaccard(IdentifierTokens(q.tokens), IdentifierTokens(neighbour)),
         identSource   |-> IF matches # <<>> THEN 100 ELSE IF stageC # <<>> THEN 50 ELSE 0,
         gateBlocked   |-> GateBlocked(q, matches) ]

-----------------------------------------------------------------------------
(* The model's prediction, as [label, prob], and its bands.                *)

(* Mutant of HashFloor: any exact-hash neighbour will do. *)
AnyHashFloor(q, stageC, f) ==
    /\ stageC # <<>>
    /\ stageC[1].hash = q.hash
    /\ BaseGroup(stageC[1].type) # ""

(* _human_confirmed_hash_floor *)
HashFloor(q, stageC, f) ==
    /\ stageC # <<>>
    /\ stageC[1].hash = q.hash
    /\ stageC[1].source \in Human
    /\ ~f.gateBlocked
    /\ f.statusPresent => f.statusMatch
    /\ IdentifierJaccard(q.tokens, stageC[1].tokens) >= StageAJaccard
    /\ BaseGroup(stageC[1].type) # ""

(* _boilerplate_only_top1 *)
BoilerplateOnly(q, top) ==
    /\ ~top.fp /\ top.hash # q.hash /\ ~top.tmpl
    /\ IdentifierJaccard(q.tokens, top.tokens) < StageAJaccard

(* _pick_relevant *)
Relevant(stageC, base) ==
    LET same == {i \in DOMAIN stageC : BaseGroup(stageC[i].type) = base}
    IN IF same = {} THEN 0 ELSE CHOOSE i \in same : \A j \in same : i <= j

(* _band_action *)
Band(confidence, shortCircuit) ==
    IF shortCircuit \/ confidence >= TauAuto THEN "auto"
    ELSE IF confidence >= TauSuggest THEN "suggest"
    ELSE "abstain"

(* result(): relevant is an item id, 0 for none; p is calibrated_max_prob. *)
Result(label, type, confidence, method, shortCircuit, relevant, source, reason, p) ==
    LET action == IF label = "ti" THEN "abstain" ELSE Band(confidence, shortCircuit)
    IN [ label |-> label, type |-> type, confidence |-> confidence, method |-> method,
         action |-> action, relevant |-> relevant, source |-> source,
         reason |-> IF action = "abstain" THEN reason ELSE None, p |-> p ]

Abstain(method, confidence, reason, p) ==
    Result("ti", NoLocator, confidence, method, FALSE, 0, None, reason, p)

(* _gbm_result *)
GbmResult(q, stageC, f, gbm) ==
    LET label == IF gbm.label \in BaseLabels THEN gbm.label ELSE "ti"
        i == Relevant(stageC, label)
    IN IF label = "ti" \/ gbm.prob < TauSuggest
       THEN IF HashFloor(q, stageC, f)
            THEN Result(BaseGroup(stageC[1].type), stageC[1].type, TauSuggest, "gbm", FALSE,
                        stageC[1].item, stageC[1].source, None, gbm.prob)
            ELSE Abstain("gbm", gbm.prob, "gbm_below_suggest", gbm.prob)
       ELSE IF gbm.prob < TauAuto /\ stageC # <<>> /\ BoilerplateOnly(q, stageC[1])
       THEN Abstain("gbm", gbm.prob, "gbm_boilerplate_only_neighbor", gbm.prob)
       ELSE IF i = 0
       THEN Result(label, DefaultLocator(label), gbm.prob, "gbm", FALSE, 0, None, None, gbm.prob)
       ELSE Result(label, stageC[i].type, gbm.prob, "gbm", FALSE,
                   stageC[i].item, stageC[i].source, None, gbm.prob)

-----------------------------------------------------------------------------
(* decide: the first stage with an answer gives it.  NoGbm and NoSeed are  *)
(* a cold install and a signature no seed rule matches.                    *)

NoGbm == [label |-> None, prob |-> -1]
NoSeed == [label |-> None, conf |-> -1]
Unknown == -1

Decide(q, matches, modes, seed, stageC, gbm) ==
    LET f == ExtractFeatures(q, matches, stageC)
        from == Newest(DiscriminantFilter(q, matches))
        kb == BestKb(modes)
    IN CASE StageAInherits(q, matches) ->
                Result(BaseGroup(from.type), from.type, StageAConfidence, "hash", TRUE,
                       from.item, from.source, None, Unknown)
         [] ~StageAInherits(q, matches) /\ KbDecides(modes) ->
                Result(BaseGroup(kb.label), kb.label,
                       AtMost(KbConfidenceCap, (kb.purity * kb.score) \div 100),
                       "kb", TRUE, 0, None, None, Unknown)
         [] ~StageAInherits(q, matches) /\ ~KbDecides(modes) /\ gbm # NoGbm ->
                GbmResult(q, stageC, f, gbm)
         [] OTHER ->
                IF seed.conf >= SeedPriorMin
                THEN Result(seed.label, DefaultLocator(seed.label), seed.conf, "rule_cold",
                            FALSE, 0, None, None, Unknown)
                ELSE Abstain("rule_cold", 0, "no_confident_rule", Unknown)
=============================================================================
