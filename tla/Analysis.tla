------------------------------ MODULE Analysis ------------------------------
(***************************************************************************)
(* core/analysis.py (AnalysisEngine): one request of the analyze,          *)
(* analyze_item_early, suggest, search or cluster route, from the evidence *)
(* it retrieves to what it replies, applies and enqueues.  The queries are *)
(* Retrieval.tla, the decision Decision.tla, the analyzerMode Scope.tla,   *)
(* the groups Grouping.tla; what the database holds and what the model     *)
(* predicts are inputs.                                                    *)
(***************************************************************************)
EXTENDS Retrieval, Scope, Grouping

CONSTANTS
    Queries,       \* the items under analysis, as their logs read now: [item, launch, name,
                   \*   prev, fp, hash, codes, tokens, exc, words]
    Indexed(_),    \* for one of them, the signatures index may have stored
    Members(_),    \* for one of them, failures its group may hold as well
    Histories,     \* what the store holds for one: sequences of rows
    Modes,         \* sets of KB modes
    Gbms,          \* predictions
    AnalyzerModes, \* values of analyzerConfig.analyzerMode
    Launches,      \* launches to group: sequences of items
    SuggestMax,    \* ANALYZER_SUGGEST_MAX
    BelowOn,       \* ANALYZER_SUGGEST_BELOW_ENABLED
    BelowMax,      \* ANALYZER_SUGGEST_BELOW_MAX
    EarlyPolicy,   \* ANALYZER_EARLY_AA_LABEL_POLICY
    EarlyPbMin,    \* ANALYZER_EARLY_GBM_PB_MIN, in per cent
    JudgeTau       \* ANALYZER_LLM_JUDGE_TAU, in per cent

(* The rows of the store: item_id is the key, and the scores are numbers. *)
IsHistory(h) ==
    /\ IsSeq(h)
    /\ \A i, j \in DOMAIN h : h[i].item = h[j].item => i = j
    /\ \A i \in DOMAIN h : /\ h[i].item \in Int /\ h[i].age \in Int
                           /\ h[i].cos \in Int /\ h[i].lex \in Int /\ h[i].trgm \in Int

(* The failures of a launch: no item is sent twice. *)
IsLaunch(l) ==
    /\ IsSeq(l)
    /\ \A i, j \in DOMAIN l : l[i].id = l[j].id => i = j
    /\ \A i \in DOMAIN l : l[i].id \in Int /\ l[i].fp \in Int /\ l[i].emb \in Int

ASSUME AnalysisAssumption ==
    /\ \A h \in Histories : IsHistory(h)
    /\ \A l \in Launches : IsLaunch(l)
    /\ \A ms \in Modes : /\ IsFiniteSet(ms)
                         /\ \A m \in ms : m.mode \in Int /\ m.purity \in Int /\ m.cos \in Int /\ m.jac \in Int
    /\ \A g \in Gbms : g.prob \in Int
    /\ IsSeq(Catalog) /\ \A i \in DOMAIN Catalog : Catalog[i].conf \in Int
    /\ SuggestMax \in Nat /\ BelowMax \in Nat

VARIABLES phase, route, mode, q, member, rows, kb, decision, fan, gbm, matched,
          applied, jobs, reply, launch, groups

vars == <<phase, route, mode, q, member, rows, kb, decision, fan, gbm, matched,
          applied, jobs, reply, launch, groups>>

BelowFloor == 30
BelowCap == 3
SeedMode == 1     \* the project's copy of a seed mode
NoDecision == [method |-> None]
Nothing == [prefix |-> "", sub |-> ""]

Init ==
    /\ phase = "idle" /\ route = None /\ mode = None /\ q = None /\ member = <<>>
    /\ rows = <<>> /\ kb = {} /\ decision = NoDecision /\ fan = NoDecision /\ gbm = NoGbm /\ matched = 0
    /\ applied = Nothing /\ jobs = {} /\ reply = <<>>
    /\ launch = <<>> /\ groups = <<>>

-----------------------------------------------------------------------------
(* Evidence.                                                               *)

(* Mutant of ScopedRoutes: the early route is not one of them. *)
ScopedFinishOnly == {"analyze"}

(* ANALYZE_SCOPED_ROUTES *)
ScopedRoutes == {"analyze", "analyze_item_early"}

Scoped(r) == [launch |-> r.launch, name |-> r.name, prefix |-> r.type.prefix]

Admitted(r) ==
    IF route \in ScopedRoutes THEN InAnalyzeScope(mode, q, Scoped(r)) ELSE PassesBase(Scoped(r))

HashLimit == 10

(* find_hash_matches: newest label first, undated labels last. *)
LabelledLater(a, b) ==
    \/ a.age # NoDate /\ b.age = NoDate
    \/ a.age # NoDate /\ b.age # NoDate /\ a.age < b.age
    \/ a.age = b.age /\ a.item > b.item

FindHashMatches(x, rs) ==
    LET found == Picked(rs, {i \in DOMAIN rs : rs[i].hash = x.hash /\ Labelled(rs[i])})
    IN Prefix(Sorted(found, {p \in Pairs(found) : LabelledLater(found[p[1]], found[p[2]])}), HashLimit)

(* Of the newest few, the other items' that the scope admits. *)
HashMatches(x, rs) ==
    IF x.fp = 0 THEN <<>>
    ELSE LET found == FindHashMatches(x, rs)
         IN Picked(found, {i \in DOMAIN found : found[i].item # x.item /\ Admitted(found[i])})

(* _stage_c: rrf by the launch boost, ties by item id. *)
Weight(r) ==
    LET e == IF route \in ScopedRoutes THEN AnalyzeBoost(mode, q, Scoped(r))
             ELSE SuggestBoost(mode, q, Scoped(r))
    IN r.rrf * (CASE e = -1 -> 1000 [] e = 0 -> 1100 [] e = 1 -> 1210 [] OTHER -> 1331)

Boosted(used) == Prefix(Ranked(used, [i \in DOMAIN used |-> Weight(used[i])]), TopK)

InScope(found) == Picked(found, {i \in DOMAIN found : Admitted(found[i])})

StageC(x, rs) == Boosted(InScope(FindCandidates(rs, x)))

(* _resolve_identity: the stored signature is what an item is compared by; *)
(* a recomputed one differs once the templates have moved on.  The seed    *)
(* rules read the logs as they are now.                                    *)
NoSignature == [hash |-> 0]

Identity(x, stored) ==
    IF stored = NoSignature THEN x
    ELSE [x EXCEPT !.fp = stored.fp, !.hash = stored.hash, !.codes = stored.codes,
                   !.tokens = stored.tokens]

(* Mutant of Indistinct: the group shares its representative's decision. *)
WholeGroup(x, m) == TRUE

(* _canonical_discriminants: a group's decision serves the members that    *)
(* cannot be told from its representative.                                 *)
Indistinct(x, m) == m.hash = x.hash /\ m.codes = x.codes /\ m.tokens = x.tokens

-----------------------------------------------------------------------------
(* What a decision leads to.                                               *)

(* _resolve_mode_match: the mode the item joins, 0 for none.  seedMode is  *)
(* the project's copy of the seed mode, 0 when it could not be persisted.  *)
ModeMatch(d, modes, seedMode) ==
    IF d.method = "kb" THEN BestKb(modes).mode
    ELSE IF seedMode # 0 THEN seedMode
    ELSE IF modes # {} /\ BestKb(modes).score >= KbCandidateScore THEN BestKb(modes).mode
    ELSE 0

(* Mutant of EarlyApplies: an early decision at the auto band is applied. *)
EarlyLikeAnalyze(d) == d.action = "auto" /\ d.label # "ti"

(* analyze_item_early's policy. *)
EarlyApplies(d) ==
    /\ d.action = "auto"
    /\ d.label \notin {"ti", "si"}
    /\ \/ d.method \in {"hash", "kb"} /\ EarlyPolicy \in {"kb_inherit_only", "kb_inherit_and_pb"}
       \/ /\ EarlyPolicy = "kb_inherit_and_pb"
          /\ d.method = "gbm" /\ d.label = "pb" /\ d.confidence >= EarlyPbMin

(* The label a route writes and replies, Nothing for none. *)
Applied(d) ==
    IF \/ route = "analyze" /\ d.action = "auto" /\ d.label # "ti"
       \/ route = "analyze_item_early" /\ EarlyApplies(d)
    THEN d.type ELSE Nothing

(* _enqueue_llm; judgeable: two candidates or more came with the request, *)
(* which only suggest sends.                                               *)
LlmJobs(d, judgeable) ==
    {"extractor"} \cup
    (IF d.label = "ti" THEN {"abstain_explainer", "coldstart"}
     ELSE IF d.method = "hash" \/ d.confidence < TauSuggest THEN {}
     ELSE {"explainer"} \cup (IF d.confidence < JudgeTau /\ judgeable THEN {"judge"} ELSE {}))

-----------------------------------------------------------------------------
(* The suggest reply.  A row is [type, item, score, source].               *)

(* _provenance, where all that matters downstream is whether there is any. *)
Provenance(source) ==
    CASE source \in Human -> "human-confirmed" [] source = "ai_suggested" -> "auto-analyzed"
      [] source = "seed" -> "seed" [] OTHER -> "unlabeled"

(* _suggestion_candidates *)
SuggestionRows(d, stageC) ==
    LET own == IF d.label # "ti" /\ d.relevant # 0
               THEN <<[type |-> d.type, item |-> d.relevant, score |-> d.confidence,
                       source |-> Provenance(d.source)]>>
               ELSE <<>>
        others == Picked(stageC, {i \in DOMAIN stageC :
                                     ~(own # <<>> /\ stageC[i].item = own[1].item)})
    IN own \o [i \in DOMAIN others |->
                  [type |-> others[i].type, item |-> others[i].item, score |-> others[i].cos,
                   source |-> Provenance(others[i].source)]]

(* _reorder_for_judge: chosen is an item id, 0 for no verdict. *)
Reordered(rs, d, chosen) ==
    LET at == {i \in DOMAIN rs : /\ rs[i].item = chosen
                                  /\ \A j \in DOMAIN rs : rs[j].item = chosen => i <= j}
    IN IF d.action = "auto" \/ at = {} THEN rs
       ELSE Picked(rs, at) \o Picked(rs, DOMAIN rs \ at)

ItemsOf(s) == {s[i].item : i \in DOMAIN s}

(* The declined hypothesis of a model below the suggest band: the first    *)
(* candidate of its group that is not in the reply already.                *)
Declined(d, g, stageC, used) ==
    LET fit == Picked(stageC, {i \in DOMAIN stageC : /\ stageC[i].item \notin used
                                                     /\ BaseGroup(stageC[i].type) = g.label})
    IN IF /\ d.reason = "gbm_below_suggest"
          /\ BelowFloor <= d.confidence /\ d.confidence < TauSuggest
          /\ fit # <<>>
       THEN <<[type |-> fit[1].type, item |-> fit[1].item, score |-> d.confidence,
               source |-> Provenance(fit[1].source)]>>
       ELSE <<>>

(* Mutant of Shown: dock rows take their slots from every reply. *)
ShownAlwaysShrinks(d, realAll, below) == Prefix(realAll, SuggestMax - Len(below))

(* An abstained reply gives its slots to the dock, no other one does. *)
Shown(d, realAll, below) ==
    IF below # <<>> /\ d.label = "ti"
    THEN Prefix(realAll, IF SuggestMax > Len(below) THEN SuggestMax - Len(below) ELSE 0)
    ELSE Prefix(realAll, SuggestMax)

AtLeast(rs, score) == Picked(rs, {i \in DOMAIN rs : rs[i].score >= score})
Under(rs, score) == Picked(rs, {i \in DOMAIN rs : rs[i].score < score})

(* _render_suggestions *)
Render(d, g, stageC, chosen, belowOn) ==
    LET proxy == IF d.confidence = 0 /\ stageC # <<>> THEN stageC[1].cos ELSE d.confidence
        floor == IF belowOn THEN BelowFloor ELSE TauSuggest
        all == Reordered(AtLeast(SuggestionRows(d, stageC), floor), d, chosen)
        realAll == AtLeast(all, TauSuggest)
        weak == IF belowOn THEN Under(all, TauSuggest) ELSE <<>>
        used == ItemsOf(Prefix(realAll, SuggestMax)) \cup ItemsOf(weak)
        dock == IF belowOn THEN weak \o Declined(d, g, stageC, used) ELSE <<>>
        below == Prefix(dock, AtMost(BelowMax, BelowCap))
    IN IF proxy < floor \/ all = <<>> THEN <<>>
       ELSE Shown(d, realAll, below) \o below

(* _maybe_rubric_fallback: the persisted cold-start hypothesis, about the  *)
(* item itself, where no row is vouched for.                               *)
Vouched(rs) == \E i \in DOMAIN rs : rs[i].score >= TauSuggest /\ rs[i].source # "unlabeled"

WithRubric(rs, provisional) ==
    IF Vouched(rs) \/ ~provisional THEN rs
    ELSE Append(rs, [type |-> DefaultLocator("pb"), item |-> q.item, score |-> 65,
                     source |-> "rubric"])

-----------------------------------------------------------------------------
(* Actions.                                                                *)

(* A request arrives and the evidence on its item is read; analyze decides *)
(* for a group, whose representative is q.                                 *)
Ask ==
    /\ phase = "idle"
    /\ \E r \in {"analyze", "analyze_item_early", "suggest"}, m \in AnalyzerModes,
          x \in Queries, h \in Histories, ms \in Modes :
          \E stored \in Indexed(x) :
             LET i == Identity(x, stored)
             IN /\ route' = r /\ mode' = m /\ q' = i /\ rows' = h /\ kb' = MatchModes(ms, i)
                /\ member' \in {<<>>} \cup
                       (IF r = "analyze" THEN {<<m2>> : m2 \in Members(i)} ELSE {})
    /\ phase' = "retrieved"
    /\ UNCHANGED <<decision, fan, gbm, matched, applied, jobs, reply, launch, groups>>

(* _decide for one item, with what the request retrieved for it. *)
Decided(x, g) == Decide(x, HashMatches(x, rows), kb, SeedOf(x), StageC(x, rows), g)

(* _decide, and for analyze the fan-out of _analyze_launch. *)
DecideItem ==
    /\ phase = "retrieved"
    /\ rows' = StageC(q, rows) /\ kb' = {}
    /\ \E g \in Gbms :
          /\ decision' = Decided(q, g)
          /\ fan' = IF member = <<>> THEN NoDecision
                    ELSE IF Indistinct(q, member[1]) THEN decision'
                    ELSE Decided(member[1], g)
          /\ gbm' = g
    /\ \E saved \in BOOLEAN : matched' = ModeMatch(decision', kb, SeedModeOf(q, saved, SeedMode))
    /\ applied' = Applied(decision')
    /\ jobs' = LlmJobs(decision', route = "suggest" /\ Len(rows') >= 2)
    /\ phase' = "decided"
    /\ UNCHANGED <<route, mode, q, member, reply, launch, groups>>

(* The reply: suggest renders what it found, the other routes what they    *)
(* applied.                                                                *)
Answer ==
    /\ phase = "decided"
    /\ IF route = "suggest"
       THEN \E chosen \in {0} \cup ItemsOf(rows), provisional \in BOOLEAN :
               reply' = WithRubric(Render(decision, gbm, rows, chosen, BelowOn), provisional)
       ELSE reply' = IF applied = Nothing THEN <<>>
                     ELSE <<[type |-> applied, item |-> decision.relevant,
                             score |-> decision.confidence, source |-> "applied"]>>
    /\ phase' = "answered"
    /\ UNCHANGED <<route, mode, q, member, rows, kb, decision, fan, gbm, matched, applied, jobs, launch, groups>>

(* search: look-alikes still to be investigated, no decision; a request    *)
(* with no words to search by is answered with none.                       *)
Search ==
    /\ phase = "idle"
    /\ \E x \in Queries, h \in Histories, launches \in SUBSET {1, 2} :
          /\ route' = "search" /\ q' = x /\ rows' = h
          /\ reply' = IF x.words = {} THEN <<>>
                      ELSE LET hits == SearchHits(h, x, launches)
                           IN [i \in DOMAIN hits |-> [item |-> hits[i].item, score |-> hits[i].cos]]
    /\ phase' = "answered"
    /\ UNCHANGED <<mode, member, kb, decision, fan, gbm, matched, applied, jobs, launch, groups>>

(* _cluster_id: of the launch, or shared with every launch that has the    *)
(* representative's error_hash.                                            *)
ClusterId(g, forUpdate) == [launch |-> IF forUpdate THEN 1 ELSE 0, hash |-> g.rep.hash]

(* cluster's reply. *)
Clusters(gs, forUpdate) ==
    [k \in DOMAIN gs |-> [id |-> ClusterId(gs[k], forUpdate),
                          items |-> [i \in DOMAIN gs[k].members |-> gs[k].members[i].id]]]

(* _group, for analyze and cluster: the launch's failures; seen are the    *)
(* error hashes other launches have.                                       *)
AskLaunch ==
    /\ phase = "idle"
    /\ \E l \in Launches, seen \in SUBSET {1}, forUpdate \in BOOLEAN :
          LET gs == GroupLaunch(l, seen)
          IN launch' = l /\ groups' = gs /\ reply' = Clusters(gs, forUpdate)
    /\ phase' = "grouped"
    /\ UNCHANGED <<route, mode, q, member, rows, kb, decision, fan, gbm, matched, applied, jobs>>

(* The worker takes its next request. *)
Done ==
    /\ phase \in {"answered", "grouped"}
    /\ phase' = "idle" /\ route' = None /\ mode' = None /\ q' = None /\ member' = <<>>
    /\ rows' = <<>> /\ kb' = {} /\ decision' = NoDecision /\ fan' = NoDecision /\ gbm' = NoGbm /\ matched' = 0
    /\ applied' = Nothing /\ jobs' = {} /\ reply' = <<>>
    /\ launch' = <<>> /\ groups' = <<>>

Next == Ask \/ DecideItem \/ Answer \/ Search \/ AskLaunch \/ Done

Spec == Init /\ [][Next]_vars

-----------------------------------------------------------------------------
(* Properties.                                                             *)

(* What analyze and the early route label comes from an item the project's *)
(* analyzerMode admits, whichever stage found it                           *)
(* (ANALYZE_SCOPED_ROUTES).                                                *)
ScopeRespected ==
    [][ phase = "retrieved" /\ applied' # Nothing /\ decision'.relevant # 0 =>
          \E i \in DOMAIN rows :
              rows[i].item = decision'.relevant /\ InAnalyzeScope(mode, q, Scoped(rows[i])) ]_vars

(* A label applied before the launch ends under kb_inherit_only is the one *)
(* the finish pass would give the same evidence, whatever the model says   *)
(* by then: early labels rest on no launch-wide feature                    *)
(* (analyze_item_early).                                                   *)
EarlyAgreesWithFinish ==
    [][ phase = "retrieved" /\ route = "analyze_item_early" /\ applied' # Nothing =>
          \A g \in Gbms : Decided(q, g).type = applied' ]_vars

(* A model below the suggest threshold never labels, and is overruled only *)
(* towards a suggestion, by a human label on an exact-hash neighbour, when *)
(* an exact-hash match carries the query's own status codes or the query   *)
(* has none: a hash whose every match the Stage A gate refused stays       *)
(* buried (_human_confirmed_hash_floor).                                   *)
FloorIsEarned ==
    [][ phase = "retrieved" /\ decision'.method = "gbm" /\ gbm'.prob < TauSuggest
          /\ decision'.action # "abstain" =>
          /\ decision'.action = "suggest"
          /\ \E i \in DOMAIN rows : /\ rows[i].item = decision'.relevant
                                    /\ rows[i].hash = q.hash /\ rows[i].source \in Human
          /\ q.codes = {} \/ \E i \in DOMAIN rows : rows[i].hash = q.hash /\ rows[i].codes = q.codes
          /\ HashMatches(q, rows) = <<>> \/ \E i \in DOMAIN HashMatches(q, rows) :
                                                Agrees(q, HashMatches(q, rows)[i]) ]_vars

(* Whatever label a member of a launch group inherits by exact hash is the *)
(* label of an item that carries the member's own error hash and status    *)
(* codes, though the decision may have been taken for another member       *)
(* (_analyze_launch's fan-out).                                            *)
FanOutFits ==
    [][ phase = "retrieved" /\ fan'.method = "hash" =>
          \E i \in DOMAIN rows : /\ rows[i].item = fan'.relevant
                                 /\ rows[i].hash = member[1].hash /\ rows[i].codes = member[1].codes
                                 /\ rows[i].type = fan'.type ]_vars

(* The evidence for a decision and the hits of a search do not depend on   *)
(* the order in which the database scans its rows: every leg, the fusion   *)
(* and the boost break their ties (STAGE_B_HYBRID_SQL,                     *)
(* SEARCH_TI_HYBRID_SQL, find_hash_matches, _stage_c).                     *)
EvidenceStable ==
    phase = "retrieved" \/ route = "search" =>
        \A p \in Bijection(DOMAIN rows, DOMAIN rows) :
            LET rs == [i \in DOMAIN rows |-> rows[p[i]]]
            IN IF route = "search"
               THEN \A launches \in SUBSET {1, 2} :
                        SearchHits(rs, q, launches) = SearchHits(rows, q, launches)
               ELSE StageC(q, rs) = StageC(q, rows) /\ HashMatches(q, rs) = HashMatches(q, rows)

(* Switching the dock of declined rows on changes no row at or above the   *)
(* suggest threshold of a reply that has an answer, and no reply names an  *)
(* item twice, whatever the judge chose; an abstained reply keeps its rows *)
(* in order and gives up the last ones only (_render_suggestions).         *)
DockNeverDisplaces ==
    phase = "decided" /\ route = "suggest" =>
        \A chosen \in {0} \cup ItemsOf(rows) :
            LET with == Render(decision, gbm, rows, chosen, TRUE)
                without == Render(decision, gbm, rows, chosen, FALSE)
                real == AtLeast(with, TauSuggest)
            IN /\ \A i, j \in DOMAIN with : with[i].item = with[j].item => i = j
               /\ IF decision.label # "ti" THEN real = without
                  ELSE \A i \in DOMAIN real : i <= Len(without) => real[i] = without[i]

(* The groups of a launch, their representatives and priors are the same   *)
(* in whatever order its items are sent, and every item is in exactly one  *)
(* of them (group_launch).                                                 *)
GroupsOf(gs) == {[ids |-> {gs[k].members[i].id : i \in DOMAIN gs[k].members},
                  rep |-> gs[k].rep.id, si |-> gs[k].si] : k \in DOMAIN gs}

GroupsStable ==
    phase = "grouped" =>
        /\ \A i \in DOMAIN launch :
              Cardinality({k \in DOMAIN groups :
                  \E j \in DOMAIN groups[k].members : groups[k].members[j] = launch[i]}) = 1
        /\ \E seen \in SUBSET {1} : \A p \in Bijection(DOMAIN launch, DOMAIN launch) :
              GroupsOf(GroupLaunch([i \in DOMAIN launch |-> launch[p[i]]], seen)) = GroupsOf(groups)
=============================================================================
