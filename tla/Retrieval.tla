----------------------------- MODULE Retrieval ------------------------------
(***************************************************************************)
(* db/repositories/queries.py and the reads of retrieval.py, kb.py and     *)
(* seeds/ that feed a decision or a search: the hybrid of words and        *)
(* vectors fused by reciprocal rank, the failure modes a query matches     *)
(* and the seed rules.  Pure operators.                                    *)
(*                                                                         *)
(* A stored row is Decision's row with                                     *)
(*   lex   ts_rank_cd of its text for the query's terms, 0 for no match    *)
(*   trgm  similarity of its exceptions, 0 below pg_trgm's threshold       *)
(*   vec   whether it has a vector of the query's embedding version        *)
(* and a stored mode is [mode, status, label, purity, support, cos, ver,   *)
(* jac, fps]; cos is NoCos without a centroid.                             *)
(***************************************************************************)
EXTENDS Decision

CONSTANTS
    Catalog,   \* seed_modes.yaml: a sequence of [label, conf, exc, msg, kw]
    EmbVer     \* the embedding version of the queries

LegLimit == 50
RetrieveK == 60
TopK == 20
ModeLimit == 10
SearchCos == 75
NoCos == -1

(* Mutant of Better: equal scores are left as they come. *)
BetterOnly(s, a, t, b) == s > t

(* ORDER BY score DESC, item_id DESC, the order of every leg. *)
Better(s, a, t, b) == s > t \/ (s = t /\ a > b)

(* The rows by score, which has the score of each position. *)
Ranked(s, score) ==
    Sorted(s, {p \in Pairs(s) :
                  Better(score[p[1]], s[p[1]].item, score[p[2]], s[p[2]].item)})

LexLeg(pool) ==
    LET hits == Picked(pool, {i \in DOMAIN pool : pool[i].lex > 0})
    IN Prefix(Ranked(hits, [i \in DOMAIN hits |-> hits[i].lex]), LegLimit)

(* lex_trgm: only when no row matches the terms. *)
TrgmLeg(pool) ==
    LET hits == Picked(pool, {i \in DOMAIN pool : pool[i].trgm > 0})
    IN Prefix(Ranked(hits, [i \in DOMAIN hits |-> hits[i].trgm]), LegLimit)

DenseLeg(pool) ==
    LET hits == Picked(pool, {i \in DOMAIN pool : pool[i].vec})
    IN Prefix(Ranked(hits, [i \in DOMAIN hits |-> hits[i].cos]), LegLimit)

(* The rank of a row in a leg, 0 when it is not there. *)
Rank(leg, r) ==
    IF \E i \in DOMAIN leg : leg[i].item = r.item
    THEN CHOOSE i \in DOMAIN leg : leg[i].item = r.item
    ELSE 0

(* 1 / (60 + rank), in millionths. *)
Rrf(rank) == IF rank = 0 THEN 0 ELSE 1000000 \div (60 + rank)

(* _row_to_candidate: a row with its scores in the legs and their fusion. *)
Candidate(r, lex, cos, rrf) ==
    [item |-> r.item, type |-> r.type, source |-> r.source, age |-> r.age, codes |-> r.codes,
     tokens |-> r.tokens, hash |-> r.hash, fp |-> r.fp, tmpl |-> r.tmpl, launch |-> r.launch,
     name |-> r.name, lex |-> lex, cos |-> cos, rrf |-> rrf]

(* fused, for a row of either leg: lex is the score of whichever leg of    *)
(* words was used.                                                         *)
Fused(r, sparse, byTrgm, dense) ==
    LET word == Rank(sparse, r)
        vector == Rank(dense, r)
    IN Candidate(r, IF word = 0 THEN 0 ELSE IF byTrgm THEN r.trgm ELSE r.lex,
                 IF vector = 0 THEN 0 ELSE r.cos, Rrf(word) + Rrf(vector))

(* STAGE_B_HYBRID_SQL *)
Hybrid(pool, k) ==
    LET words == LexLeg(pool)
        sparse == IF words = <<>> THEN TrgmLeg(pool) ELSE words
        dense == DenseLeg(pool)
        found == Picked(pool, {i \in DOMAIN pool :
                                  Rank(sparse, pool[i]) + Rank(dense, pool[i]) > 0})
        fused == [i \in DOMAIN found |-> Fused(found[i], sparse, words = <<>>, dense)]
    IN Prefix(Ranked(fused, [i \in DOMAIN fused |-> fused[i].rrf]), k)

(* _stage_b: the labelled history; find_candidates leaves the item out     *)
(* only afterwards.                                                        *)
Labelled(r) == r.type.prefix \notin {None, "ti"}

Others(found, x) == Picked(found, {i \in DOMAIN found : found[i].item # x.item})

FindCandidates(rows, x) ==
    Others(Hybrid(Picked(rows, {i \in DOMAIN rows : Labelled(rows[i])}), RetrieveK), x)

(* search_ti_candidates: what is still to be investigated, in the launches *)
(* asked for, or in all of them when none is named.                        *)
SearchTiCandidates(rows, x, launches) ==
    Hybrid(Picked(rows, {i \in DOMAIN rows :
                            /\ rows[i].type.prefix = "ti"
                            /\ rows[i].item # x.item
                            /\ launches = {} \/ rows[i].launch \in launches}), TopK)

(* AnalysisEngine.search's reply; the similarity of exceptions counts as a *)
(* hit of the words.                                                       *)
Hits(found) ==
    Picked(found, {i \in DOMAIN found : found[i].cos >= SearchCos \/ found[i].lex > 0})

SearchHits(rows, x, launches) == Hits(SearchTiCandidates(rows, x, launches))

-----------------------------------------------------------------------------
(* The knowledge base.                                                     *)

FpHit(m, x) == x.fp \in m.fps

(* STAGE_A_MODE_MATCH_SQL: a fingerprint hit has its cosine too, whatever  *)
(* version the centroid is of.                                             *)
ModeEligible(m, x) ==
    /\ m.status \in {"seed", "candidate", "confirmed"}
    /\ (m.cos # NoCos /\ m.ver = EmbVer) \/ FpHit(m, x)

ModeBefore(m, o, x) ==
    \/ FpHit(m, x) /\ ~FpHit(o, x)
    \/ FpHit(m, x) = FpHit(o, x) /\ Better(m.cos, m.mode, o.cos, o.mode)

(* match_modes, with score_kb_candidate's score. *)
MatchModes(modes, x) ==
    LET eligible == {m \in modes : ModeEligible(m, x)}
        first == {m \in eligible :
                     Cardinality({o \in eligible : ModeBefore(o, m, x)}) < ModeLimit}
    IN { [mode |-> m.mode, status |-> m.status, label |-> m.label, purity |-> m.purity,
          support |-> m.support,
          score |-> ScoreKb(IF m.cos = NoCos THEN 0 ELSE m.cos, m.jac, FpHit(m, x))] : m \in first }

(* SeedMode.matches, over the exceptions and words the request shows. *)
RuleMatches(m, x) ==
    \/ m.exc \cap x.exc # {}
    \/ m.msg \cap x.words # {}
    \/ m.kw \cap (x.words \cup x.exc) # {}

(* SeedCatalog.match: the first mode by priority. *)
SeedOf(x) ==
    LET hits == Picked(Catalog, {i \in DOMAIN Catalog : RuleMatches(Catalog[i], x)})
    IN IF hits = <<>> THEN NoSeed ELSE [label |-> hits[1].label, conf |-> hits[1].conf]

(* _seed_signal's mode: the project's copy, none when it could not be      *)
(* saved (match_and_seed raised).                                          *)
SeedModeOf(x, saved, copy) == IF SeedOf(x) # NoSeed /\ saved THEN copy ELSE 0
=============================================================================
