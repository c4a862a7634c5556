--------------------------- MODULE AnalysisProofs ---------------------------
(***************************************************************************)
(* Proofs about Analysis: what its evidence consists of and that the order *)
(* of a scan does not matter to it, what follows for the labels, and the   *)
(* suggest reply and the groups of a launch.                               *)
(***************************************************************************)
EXTENDS Analysis, ListProofs

-----------------------------------------------------------------------------
(* Lists of rows                                                           *)

(* A list in which no item is twice. *)
Listing(s) == IsSeq(s) /\ \A i, j \in DOMAIN s : s[i].item = s[j].item => i = j

(* Two lists of the same entries. *)
SameEntries(s, t) ==
    /\ \A i \in DOMAIN s : \E k \in DOMAIN t : s[i] = t[k]
    /\ \A k \in DOMAIN t : \E i \in DOMAIN s : t[k] = s[i]

(* A choice of the rows of a listing is one. *)
LEMMA PickedListing ==
    ASSUME NEW s, Listing(s), NEW S \in SUBSET DOMAIN s
    PROVE  /\ Listing(Picked(s, S))
           /\ \A k \in DOMAIN Picked(s, S) : \E i \in S : Picked(s, S)[k] = s[i]
           /\ \A i \in S : \E k \in DOMAIN Picked(s, S) : Picked(s, S)[k] = s[i]
<1>1. IsSeq(s)
  BY DEF Listing
<1>2. PICK at_ \in [DOMAIN Picked(s, S) -> S] :
        /\ \A k \in DOMAIN Picked(s, S) : Picked(s, S)[k] = s[at_[k]]
        /\ \A k, h \in DOMAIN Picked(s, S) : h < k <=> at_[h] < at_[k]
  BY <1>1, PickedEntries
<1>3. IsSeq(Picked(s, S))
  BY <1>1, PickedRange
<1>4. ASSUME NEW k \in DOMAIN Picked(s, S), NEW h \in DOMAIN Picked(s, S),
             Picked(s, S)[k].item = Picked(s, S)[h].item
      PROVE  k = h
  <2>1. at_[k] \in DOMAIN s /\ at_[h] \in DOMAIN s
    OBVIOUS
  <2>2. at_[k] = at_[h]
    BY <1>2, <1>4, <2>1 DEF Listing
  <2>3. DOMAIN s \subseteq Int /\ DOMAIN Picked(s, S) \subseteq Int
    BY <1>1, <1>3, SeqDomain
  <2>4. ~(h < k) /\ ~(k < h)
    BY <1>2, <2>1, <2>2, <2>3
  <2> QED
    BY <2>3, <2>4
<1> QED
  BY <1>1, <1>3, <1>4, PickedRange DEF Listing

(* A prefix of a listing is one. *)
LEMMA PrefixListing ==
    ASSUME NEW s, Listing(s), NEW n \in Int
    PROVE  /\ Listing(Prefix(s, n))
           /\ \A k \in DOMAIN Prefix(s, n) : k \in DOMAIN s /\ Prefix(s, n)[k] = s[k]
<1>1. IsSeq(s)
  BY DEF Listing
<1>2. /\ IsSeq(Prefix(s, n))
      /\ \A k \in DOMAIN Prefix(s, n) : k \in DOMAIN s /\ Prefix(s, n)[k] = s[k]
  BY <1>1, PrefixEntries
<1> QED
  BY <1>2 DEF Listing

(* Mapping the rows of a listing, keeping their items. *)
LEMMA MappedListing ==
    ASSUME NEW s, Listing(s), NEW u, DOMAIN u = DOMAIN s, u = [i \in DOMAIN s |-> u[i]],
           \A i \in DOMAIN s : u[i].item = s[i].item
    PROVE  Listing(u)
<1>1. Len(s) \in Nat /\ DOMAIN s = 1..Len(s)
  BY SeqDomain DEF Listing
<1>2. IsSeq(u)
  BY <1>1, SeqOfFunction
<1> QED
  BY <1>2 DEF Listing

(* Better is a total order of rows with different ids. *)
LEMMA BetterOrder ==
    ASSUME NEW s, Listing(s), \A i \in DOMAIN s : s[i].item \in Int,
           NEW score \in [DOMAIN s -> Int]
    PROVE  IsOrder(DOMAIN s, {p \in Pairs(s) :
               Better(score[p[1]], s[p[1]].item, score[p[2]], s[p[2]].item)})
<1> DEFINE R == {p \in Pairs(s) : Better(score[p[1]], s[p[1]].item, score[p[2]], s[p[2]].item)}
<1>1. ASSUME NEW i \in DOMAIN s, NEW j \in DOMAIN s
      PROVE  <<i, j>> \in R <=> score[i] > score[j] \/ (score[i] = score[j] /\ s[i].item > s[j].item)
  BY DEF Pairs, Better
<1> HIDE DEF R
<1>2. \A i \in DOMAIN s : score[i] \in Int /\ s[i].item \in Int
  OBVIOUS
<1>3. ASSUME NEW i \in DOMAIN s, NEW j \in DOMAIN s, i # j PROVE <<i, j>> \in R \/ <<j, i>> \in R
  <2>1. s[i].item # s[j].item
    BY <1>3 DEF Listing
  <2> QED
    BY <1>1, <1>2, <2>1
<1>4. ASSUME NEW i \in DOMAIN s, NEW j \in DOMAIN s PROVE ~(<<i, j>> \in R /\ <<j, i>> \in R)
  BY <1>1, <1>2
<1>5. ASSUME NEW i \in DOMAIN s, NEW j \in DOMAIN s, NEW k \in DOMAIN s,
             <<i, j>> \in R, <<j, k>> \in R
      PROVE  <<i, k>> \in R
  BY <1>1, <1>2, <1>5
<1>6. IsOrder(DOMAIN s, R)
  BY <1>3, <1>4, <1>5 DEF IsOrder
<1> QED
  BY <1>6 DEF R

(* Ranking keeps the rows. *)
LEMMA RankedListing ==
    ASSUME NEW s, Listing(s), \A i \in DOMAIN s : s[i].item \in Int,
           NEW score \in [DOMAIN s -> Int]
    PROVE  /\ Listing(Ranked(s, score))
           /\ \A k \in DOMAIN Ranked(s, score) : \E i \in DOMAIN s : Ranked(s, score)[k] = s[i]
           /\ \A i \in DOMAIN s : \E k \in DOMAIN Ranked(s, score) : Ranked(s, score)[k] = s[i]
<1> DEFINE R == {p \in Pairs(s) : Better(score[p[1]], s[p[1]].item, score[p[2]], s[p[2]].item)}
<1>1. IsOrder(DOMAIN s, R)
  BY BetterOrder
<1>2. Ranked(s, score) = Sorted(s, R)
  BY DEF Ranked
<1> HIDE DEF R
<1>3. IsSeq(s)
  BY DEF Listing
<1>4. /\ IsSeq(Sorted(s, R)) /\ DOMAIN Sorted(s, R) = DOMAIN s
      /\ \A k \in DOMAIN Sorted(s, R) : \E i \in DOMAIN s : Sorted(s, R)[k] = s[i]
      /\ \A i \in DOMAIN s : \E k \in DOMAIN Sorted(s, R) : Sorted(s, R)[k] = s[i]
  BY <1>1, <1>3, SortedRange
<1>5. PICK at_ \in [DOMAIN s -> DOMAIN s] :
        /\ \A k \in DOMAIN s : Sorted(s, R)[k] = s[at_[k]]
        /\ \A k, h \in DOMAIN s : h < k => <<at_[h], at_[k]>> \in R
  BY <1>1, <1>3, SortedEntries
<1>6. ASSUME NEW k \in DOMAIN s, NEW h \in DOMAIN s, Sorted(s, R)[k].item = Sorted(s, R)[h].item
      PROVE  k = h
  <2>1. at_[k] = at_[h]
    BY <1>5, <1>6 DEF Listing
  <2>2. ~(<<at_[k], at_[h]>> \in R) /\ ~(<<at_[h], at_[k]>> \in R)
    BY <1>1, <2>1 DEF IsOrder
  <2>3. k \in Int /\ h \in Int
    BY <1>3, SeqDomain
  <2>4. ~(k < h) /\ ~(h < k)
    BY <1>5, <2>2
  <2> QED
    BY <2>3, <2>4
<1> QED
  BY <1>2, <1>4, <1>6 DEF Listing

(* The same choice from the same entries. *)
LEMMA PickedSame ==
    ASSUME NEW s, IsSeq(s), NEW t, IsSeq(t), SameEntries(s, t),
           NEW S \in SUBSET DOMAIN s, NEW T \in SUBSET DOMAIN t,
           \A i \in DOMAIN s, k \in DOMAIN t : s[i] = t[k] => (i \in S <=> k \in T)
    PROVE  SameEntries(Picked(s, S), Picked(t, T))
<1> DEFINE u == Picked(s, S)
           v == Picked(t, T)
<1>1. /\ \A k \in DOMAIN u : \E i \in S : u[k] = s[i]
      /\ \A i \in S : \E k \in DOMAIN u : u[k] = s[i]
  BY PickedRange
<1>2. /\ \A k \in DOMAIN v : \E i \in T : v[k] = t[i]
      /\ \A i \in T : \E k \in DOMAIN v : v[k] = t[i]
  BY PickedRange
<1> HIDE DEF u, v
<1>3. ASSUME NEW a \in DOMAIN u PROVE \E b \in DOMAIN v : u[a] = v[b]
  <2>1. PICK i \in S : u[a] = s[i]
    BY <1>1
  <2>2. PICK k \in DOMAIN t : s[i] = t[k]
    BY DEF SameEntries
  <2> QED
    BY <1>2, <2>1, <2>2
<1>4. ASSUME NEW b \in DOMAIN v PROVE \E a \in DOMAIN u : v[b] = u[a]
  <2>1. PICK k \in T : v[b] = t[k]
    BY <1>2
  <2>2. PICK i \in DOMAIN s : t[k] = s[i]
    BY DEF SameEntries
  <2> QED
    BY <1>1, <2>1, <2>2
<1>5. SameEntries(u, v)
  BY <1>3, <1>4 DEF SameEntries
<1> QED
  BY <1>5 DEF u, v

(* The same rows with the same scores are ranked alike. *)
LEMMA RankedSame ==
    ASSUME NEW s, Listing(s), NEW t, Listing(t), SameEntries(s, t),
           \A i \in DOMAIN s : s[i].item \in Int, \A k \in DOMAIN t : t[k].item \in Int,
           NEW a \in [DOMAIN s -> Int], NEW b \in [DOMAIN t -> Int],
           \A i \in DOMAIN s, k \in DOMAIN t : s[i] = t[k] => a[i] = b[k]
    PROVE  Ranked(s, a) = Ranked(t, b)
<1> DEFINE R == {p \in Pairs(s) : Better(a[p[1]], s[p[1]].item, a[p[2]], s[p[2]].item)}
           Q == {p \in Pairs(t) : Better(b[p[1]], t[p[1]].item, b[p[2]], t[p[2]].item)}
<1>1. IsOrder(DOMAIN s, R)
  BY BetterOrder
<1>2. IsOrder(DOMAIN t, Q)
  BY BetterOrder
<1>3. ASSUME NEW i \in DOMAIN s, NEW j \in DOMAIN s, NEW k \in DOMAIN t, NEW l \in DOMAIN t,
             s[i] = t[k], s[j] = t[l]
      PROVE  <<i, j>> \in R <=> <<k, l>> \in Q
  <2>1. <<i, j>> \in R <=> Better(a[i], s[i].item, a[j], s[j].item)
    BY DEF Pairs
  <2>2. <<k, l>> \in Q <=> Better(b[k], t[k].item, b[l], t[l].item)
    BY DEF Pairs
  <2> QED
    BY <1>3, <2>1, <2>2
<1>4. Ranked(s, a) = Sorted(s, R) /\ Ranked(t, b) = Sorted(t, Q)
  BY DEF Ranked
<1> HIDE DEF R, Q
<1>5. \A i, j \in DOMAIN s : s[i] = s[j] => i = j
  BY DEF Listing
<1>6. IsSeq(s) /\ IsSeq(t)
  BY DEF Listing
<1>7. Sorted(s, R) = Sorted(t, Q)
  BY <1>1, <1>2, <1>3, <1>5, <1>6, SortedStable DEF SameEntries
<1> QED
  BY <1>4, <1>7

-----------------------------------------------------------------------------
(* What is retrieved                                                       *)

(* e is what a query shows of the row r. *)
From(e, r) ==
    /\ e.item = r.item /\ e.type = r.type /\ e.source = r.source /\ e.codes = r.codes
    /\ e.hash = r.hash /\ e.launch = r.launch /\ e.name = r.name /\ e.tokens = r.tokens

(* A list of rows of rs with their scores. *)
Candidates(s, rs) ==
    /\ Listing(s)
    /\ \A k \in DOMAIN s : /\ s[k].item \in Int /\ s[k].cos \in Int /\ s[k].rrf \in Int
                           /\ \E i \in DOMAIN rs : From(s[k], rs[i])

LEMMA HistoryListing ==
    ASSUME NEW h, IsHistory(h)
    PROVE  /\ Listing(h) /\ IsSeq(h)
           /\ \A i \in DOMAIN h : /\ h[i].item \in Int /\ h[i].age \in Int
                                  /\ h[i].cos \in Int /\ h[i].lex \in Int /\ h[i].trgm \in Int
BY DEF IsHistory, Listing

(* Part of a history is one. *)
LEMMA PickedHistory ==
    ASSUME NEW h, IsHistory(h), NEW S \in SUBSET DOMAIN h
    PROVE  /\ IsHistory(Picked(h, S))
           /\ \A k \in DOMAIN Picked(h, S) : \E i \in S : Picked(h, S)[k] = h[i]
<1>1. Listing(h)
  BY HistoryListing
<1>2. /\ Listing(Picked(h, S))
      /\ \A k \in DOMAIN Picked(h, S) : \E i \in S : Picked(h, S)[k] = h[i]
  BY <1>1, PickedListing
<1>3. ASSUME NEW k \in DOMAIN Picked(h, S)
      PROVE  /\ Picked(h, S)[k].item \in Int /\ Picked(h, S)[k].age \in Int
             /\ Picked(h, S)[k].cos \in Int /\ Picked(h, S)[k].lex \in Int
             /\ Picked(h, S)[k].trgm \in Int
  <2>1. PICK i \in DOMAIN h : Picked(h, S)[k] = h[i]
    BY <1>2
  <2> QED
    BY <2>1, HistoryListing
<1> QED
  BY <1>2, <1>3 DEF IsHistory, Listing

(* A leg is a list. *)
LEMMA LegSeq ==
    ASSUME NEW h, IsHistory(h), NEW S \in SUBSET DOMAIN h, NEW n \in Int,
           NEW score \in [DOMAIN Picked(h, S) -> Int]
    PROVE  IsSeq(Prefix(Ranked(Picked(h, S), score), n))
<1>1. Listing(Picked(h, S)) /\ \A i \in DOMAIN Picked(h, S) : Picked(h, S)[i].item \in Int
  BY PickedHistory, HistoryListing
<1>2. IsSeq(Ranked(Picked(h, S), score))
  BY <1>1, RankedListing DEF Listing
<1> QED
  BY <1>2, PrefixEntries

(* A leg is the same for the same rows. *)
LEMMA LegSame ==
    ASSUME NEW g, IsHistory(g), NEW h, IsHistory(h), SameEntries(g, h),
           NEW S \in SUBSET DOMAIN g, NEW T \in SUBSET DOMAIN h,
           \A i \in DOMAIN g, k \in DOMAIN h : g[i] = h[k] => (i \in S <=> k \in T),
           NEW a \in [DOMAIN Picked(g, S) -> Int], NEW b \in [DOMAIN Picked(h, T) -> Int],
           \A i \in DOMAIN Picked(g, S), k \in DOMAIN Picked(h, T) :
               Picked(g, S)[i] = Picked(h, T)[k] => a[i] = b[k]
    PROVE  Ranked(Picked(g, S), a) = Ranked(Picked(h, T), b)
<1>1. Listing(Picked(g, S)) /\ \A i \in DOMAIN Picked(g, S) : Picked(g, S)[i].item \in Int
  BY PickedHistory, HistoryListing
<1>2. Listing(Picked(h, T)) /\ \A i \in DOMAIN Picked(h, T) : Picked(h, T)[i].item \in Int
  BY PickedHistory, HistoryListing
<1>3. SameEntries(Picked(g, S), Picked(h, T))
  BY PickedSame, HistoryListing
<1> QED
  BY <1>1, <1>2, <1>3, RankedSame

(* The legs of words and vectors: lists, the same for the same rows. *)
LEMMA LexLegSame ==
    ASSUME NEW g, IsHistory(g), NEW h, IsHistory(h), SameEntries(g, h)
    PROVE  IsSeq(LexLeg(g)) /\ LexLeg(g) = LexLeg(h)
<1> DEFINE S == {i \in DOMAIN g : g[i].lex > 0}
           T == {i \in DOMAIN h : h[i].lex > 0}
           u == Picked(g, S)
           v == Picked(h, T)
           a == [i \in DOMAIN u |-> u[i].lex]
           b == [i \in DOMAIN v |-> v[i].lex]
<1>1. \A i \in DOMAIN g, k \in DOMAIN h : g[i] = h[k] => (i \in S <=> k \in T)
  OBVIOUS
<1>2. LexLeg(g) = Prefix(Ranked(u, a), LegLimit) /\ LexLeg(h) = Prefix(Ranked(v, b), LegLimit)
  BY DEF LexLeg
<1>3. S \in SUBSET DOMAIN g /\ T \in SUBSET DOMAIN h
  OBVIOUS
<1> HIDE DEF S, T
<1>4. a \in [DOMAIN u -> Int] /\ b \in [DOMAIN v -> Int]
  BY <1>3, PickedHistory, HistoryListing
<1>5. \A i \in DOMAIN u, k \in DOMAIN v : u[i] = v[k] => a[i] = b[k]
  OBVIOUS
<1> HIDE DEF a, b
<1>6. Ranked(u, a) = Ranked(v, b)
  BY <1>1, <1>3, <1>4, <1>5, LegSame
<1>7. IsSeq(Prefix(Ranked(u, a), LegLimit))
  BY <1>3, <1>4, LegSeq DEF LegLimit
<1> QED
  BY <1>2, <1>6, <1>7

LEMMA TrgmLegSame ==
    ASSUME NEW g, IsHistory(g), NEW h, IsHistory(h), SameEntries(g, h)
    PROVE  IsSeq(TrgmLeg(g)) /\ TrgmLeg(g) = TrgmLeg(h)
<1> DEFINE S == {i \in DOMAIN g : g[i].trgm > 0}
           T == {i \in DOMAIN h : h[i].trgm > 0}
           u == Picked(g, S)
           v == Picked(h, T)
           a == [i \in DOMAIN u |-> u[i].trgm]
           b == [i \in DOMAIN v |-> v[i].trgm]
<1>1. \A i \in DOMAIN g, k \in DOMAIN h : g[i] = h[k] => (i \in S <=> k \in T)
  OBVIOUS
<1>2. TrgmLeg(g) = Prefix(Ranked(u, a), LegLimit) /\ TrgmLeg(h) = Prefix(Ranked(v, b), LegLimit)
  BY DEF TrgmLeg
<1>3. S \in SUBSET DOMAIN g /\ T \in SUBSET DOMAIN h
  OBVIOUS
<1> HIDE DEF S, T
<1>4. a \in [DOMAIN u -> Int] /\ b \in [DOMAIN v -> Int]
  BY <1>3, PickedHistory, HistoryListing
<1>5. \A i \in DOMAIN u, k \in DOMAIN v : u[i] = v[k] => a[i] = b[k]
  OBVIOUS
<1> HIDE DEF a, b
<1>6. Ranked(u, a) = Ranked(v, b)
  BY <1>1, <1>3, <1>4, <1>5, LegSame
<1>7. IsSeq(Prefix(Ranked(u, a), LegLimit))
  BY <1>3, <1>4, LegSeq DEF LegLimit
<1> QED
  BY <1>2, <1>6, <1>7

LEMMA DenseLegSame ==
    ASSUME NEW g, IsHistory(g), NEW h, IsHistory(h), SameEntries(g, h)
    PROVE  IsSeq(DenseLeg(g)) /\ DenseLeg(g) = DenseLeg(h)
<1> DEFINE S == {i \in DOMAIN g : g[i].vec}
           T == {i \in DOMAIN h : h[i].vec}
           u == Picked(g, S)
           v == Picked(h, T)
           a == [i \in DOMAIN u |-> u[i].cos]
           b == [i \in DOMAIN v |-> v[i].cos]
<1>1. \A i \in DOMAIN g, k \in DOMAIN h : g[i] = h[k] => (i \in S <=> k \in T)
  OBVIOUS
<1>2. DenseLeg(g) = Prefix(Ranked(u, a), LegLimit) /\ DenseLeg(h) = Prefix(Ranked(v, b), LegLimit)
  BY DEF DenseLeg
<1>3. S \in SUBSET DOMAIN g /\ T \in SUBSET DOMAIN h
  OBVIOUS
<1> HIDE DEF S, T
<1>4. a \in [DOMAIN u -> Int] /\ b \in [DOMAIN v -> Int]
  BY <1>3, PickedHistory, HistoryListing
<1>5. \A i \in DOMAIN u, k \in DOMAIN v : u[i] = v[k] => a[i] = b[k]
  OBVIOUS
<1> HIDE DEF a, b
<1>6. Ranked(u, a) = Ranked(v, b)
  BY <1>1, <1>3, <1>4, <1>5, LegSame
<1>7. IsSeq(Prefix(Ranked(u, a), LegLimit))
  BY <1>3, <1>4, LegSeq DEF LegLimit
<1> QED
  BY <1>2, <1>6, <1>7

(* A rank is a position or 0. *)
LEMMA RankType ==
    ASSUME NEW leg, IsSeq(leg), NEW r
    PROVE  Rank(leg, r) \in Nat
<1>1. DOMAIN leg \subseteq Nat
  BY SeqDomain
<1>2. CASE \E i \in DOMAIN leg : leg[i].item = r.item
  <2>1. Rank(leg, r) = CHOOSE i \in DOMAIN leg : leg[i].item = r.item
    BY <1>2 DEF Rank
  <2>2. Rank(leg, r) \in DOMAIN leg
    BY <1>2, <2>1
  <2> QED
    BY <1>1, <2>2
<1>3. CASE ~ \E i \in DOMAIN leg : leg[i].item = r.item
  BY <1>3 DEF Rank
<1> QED
  BY <1>2, <1>3

LEMMA RrfType ==
    ASSUME NEW n \in Nat
    PROVE  Rrf(n) \in Int
BY DEF Rrf

(* A fused row shows its row. *)
LEMMA FusedRow ==
    ASSUME NEW r, r.cos \in Int, NEW sparse, IsSeq(sparse), NEW dense, IsSeq(dense), NEW b
    PROVE  LET e == Fused(r, sparse, b, dense)
           IN From(e, r) /\ e.cos \in Int /\ e.rrf \in Int
<1>1. Rrf(Rank(sparse, r)) \in Int /\ Rrf(Rank(dense, r)) \in Int
  BY RankType, RrfType
<1>2. Rrf(Rank(sparse, r)) + Rrf(Rank(dense, r)) \in Int
  BY <1>1
<1> QED
  BY <1>2 DEF Fused, Candidate, From

(* The hybrid query returns rows of its pool, and the same ones in the     *)
(* same order however the pool is scanned.                                 *)
LEMMA HybridRows ==
    ASSUME NEW g, IsHistory(g), NEW h, IsHistory(h), SameEntries(g, h), NEW n \in Int
    PROVE  Candidates(Hybrid(g, n), g) /\ Hybrid(g, n) = Hybrid(h, n)
<1> DEFINE words == LexLeg(g)
           sparse == IF words = <<>> THEN TrgmLeg(g) ELSE words
           dense == DenseLeg(g)
           S == {i \in DOMAIN g : Rank(sparse, g[i]) + Rank(dense, g[i]) > 0}
           T == {i \in DOMAIN h : Rank(sparse, h[i]) + Rank(dense, h[i]) > 0}
           u == Picked(g, S)
           v == Picked(h, T)
           fu == [i \in DOMAIN u |-> Fused(u[i], sparse, words = <<>>, dense)]
           fv == [i \in DOMAIN v |-> Fused(v[i], sparse, words = <<>>, dense)]
           a == [i \in DOMAIN fu |-> fu[i].rrf]
           b == [i \in DOMAIN fv |-> fv[i].rrf]
<1>1. words = LexLeg(h) /\ dense = DenseLeg(h) /\ TrgmLeg(g) = TrgmLeg(h)
  BY LexLegSame, TrgmLegSame, DenseLegSame
<1>2. IsSeq(sparse) /\ IsSeq(dense)
  BY LexLegSame, TrgmLegSame, DenseLegSame
<1>3. Hybrid(g, n) = Prefix(Ranked(fu, a), n)
  BY DEF Hybrid
<1>4. Hybrid(h, n) = Prefix(Ranked(fv, b), n)
  BY <1>1 DEF Hybrid
<1> HIDE DEF words, sparse, dense
<1>5. \A i \in DOMAIN g, k \in DOMAIN h : g[i] = h[k] => (i \in S <=> k \in T)
  OBVIOUS
<1>6. S \in SUBSET DOMAIN g /\ T \in SUBSET DOMAIN h
  OBVIOUS
<1> HIDE DEF S, T
<1>7. SameEntries(u, v)
  BY <1>5, <1>6, PickedSame, HistoryListing
<1>8. IsHistory(u) /\ \A k \in DOMAIN u : \E i \in DOMAIN g : u[k] = g[i]
  BY <1>6, PickedHistory
<1>9. IsHistory(v)
  BY <1>6, PickedHistory
<1> HIDE DEF u, v
<1>10. ASSUME NEW k \in DOMAIN u
       PROVE  From(fu[k], u[k]) /\ fu[k].cos \in Int /\ fu[k].rrf \in Int
  <2>1. u[k].cos \in Int
    BY <1>8, HistoryListing
  <2>2. fu[k] = Fused(u[k], sparse, words = <<>>, dense)
    OBVIOUS
  <2> QED
    BY <1>2, <2>1, <2>2, FusedRow
<1>11. ASSUME NEW k \in DOMAIN v
       PROVE  From(fv[k], v[k]) /\ fv[k].cos \in Int /\ fv[k].rrf \in Int
  <2>1. v[k].cos \in Int
    BY <1>9, HistoryListing
  <2>2. fv[k] = Fused(v[k], sparse, words = <<>>, dense)
    OBVIOUS
  <2> QED
    BY <1>2, <2>1, <2>2, FusedRow
<1>12. a \in [DOMAIN fu -> Int] /\ b \in [DOMAIN fv -> Int]
  BY <1>10, <1>11
<1>13. /\ DOMAIN fu = DOMAIN u /\ fu = [k \in DOMAIN u |-> fu[k]]
       /\ DOMAIN fv = DOMAIN v /\ fv = [k \in DOMAIN v |-> fv[k]]
  OBVIOUS
<1>14. \A i \in DOMAIN u, k \in DOMAIN v : u[i] = v[k] => fu[i] = fv[k]
  OBVIOUS
<1>15. \A i \in DOMAIN fu, k \in DOMAIN fv : fu[i] = fv[k] => a[i] = b[k]
  OBVIOUS
<1> HIDE DEF a, b, fu, fv
<1>16. Listing(fu) /\ \A i \in DOMAIN fu : fu[i].item \in Int
  <2>1. Listing(u) /\ \A i \in DOMAIN u : fu[i].item = u[i].item /\ u[i].item \in Int
    BY <1>8, <1>10, HistoryListing DEF From
  <2> QED
    BY <1>13, <2>1, MappedListing
<1>17. Listing(fv) /\ \A i \in DOMAIN fv : fv[i].item \in Int
  <2>1. Listing(v) /\ \A i \in DOMAIN v : fv[i].item = v[i].item /\ v[i].item \in Int
    BY <1>9, <1>11, HistoryListing DEF From
  <2> QED
    BY <1>13, <2>1, MappedListing
<1>18. SameEntries(fu, fv)
  BY <1>7, <1>13, <1>14 DEF SameEntries
<1>19. Ranked(fu, a) = Ranked(fv, b)
  BY <1>12, <1>15, <1>16, <1>17, <1>18, RankedSame
<1>20. /\ Listing(Ranked(fu, a))
       /\ \A k \in DOMAIN Ranked(fu, a) : \E i \in DOMAIN fu : Ranked(fu, a)[k] = fu[i]
  BY <1>12, <1>16, RankedListing
<1>21. /\ Listing(Prefix(Ranked(fu, a), n))
       /\ \A k \in DOMAIN Prefix(Ranked(fu, a), n) :
             /\ k \in DOMAIN Ranked(fu, a)
             /\ Prefix(Ranked(fu, a), n)[k] = Ranked(fu, a)[k]
  BY <1>20, PrefixListing
<1>22. ASSUME NEW k \in DOMAIN Hybrid(g, n)
       PROVE  /\ Hybrid(g, n)[k].item \in Int /\ Hybrid(g, n)[k].cos \in Int /\ Hybrid(g, n)[k].rrf \in Int
              /\ \E i \in DOMAIN g : From(Hybrid(g, n)[k], g[i])
  <2>1. PICK i \in DOMAIN u : Hybrid(g, n)[k] = fu[i]
    BY <1>3, <1>13, <1>20, <1>21
  <2>2. PICK j \in DOMAIN g : u[i] = g[j]
    BY <1>8
  <2>3. fu[i].item \in Int /\ From(fu[i], g[j]) /\ fu[i].cos \in Int /\ fu[i].rrf \in Int
    BY <1>10, <1>13, <1>16, <2>2
  <2> QED
    BY <2>1, <2>3
<1> QED
  BY <1>3, <1>4, <1>19, <1>21, <1>22 DEF Candidates

LEMMA PickedCandidates ==
    ASSUME NEW rs, NEW s, Candidates(s, rs), NEW S \in SUBSET DOMAIN s
    PROVE  /\ Candidates(Picked(s, S), rs)
           /\ \A k \in DOMAIN Picked(s, S) : \E i \in S : Picked(s, S)[k] = s[i]
<1>1. Listing(s)
  BY DEF Candidates
<1>2. /\ Listing(Picked(s, S))
      /\ \A k \in DOMAIN Picked(s, S) : \E i \in S : Picked(s, S)[k] = s[i]
  BY <1>1, PickedListing
<1>3. \A k \in DOMAIN Picked(s, S) : \E i \in DOMAIN s : Picked(s, S)[k] = s[i]
  BY <1>2
<1> QED
  BY <1>2, <1>3 DEF Candidates

(* A pool chosen by a test of its rows, as every query does. *)
LEMMA PoolSame ==
    ASSUME NEW g, IsHistory(g), NEW h, IsHistory(h), SameEntries(g, h),
           NEW S \in SUBSET DOMAIN g, NEW T \in SUBSET DOMAIN h,
           \A i \in DOMAIN g, k \in DOMAIN h : g[i] = h[k] => (i \in S <=> k \in T), NEW n \in Int
    PROVE  /\ Candidates(Hybrid(Picked(g, S), n), g)
           /\ Hybrid(Picked(g, S), n) = Hybrid(Picked(h, T), n)
<1>1. IsHistory(Picked(g, S)) /\ IsHistory(Picked(h, T))
  BY PickedHistory
<1>2. SameEntries(Picked(g, S), Picked(h, T))
  BY PickedSame, HistoryListing
<1>3. /\ Candidates(Hybrid(Picked(g, S), n), Picked(g, S))
      /\ Hybrid(Picked(g, S), n) = Hybrid(Picked(h, T), n)
  BY <1>1, <1>2, HybridRows
<1>4. \A k \in DOMAIN Picked(g, S) : \E i \in DOMAIN g : Picked(g, S)[k] = g[i]
  BY PickedHistory
<1> QED
  BY <1>3, <1>4 DEF Candidates

(* find_candidates: rows of the history, whatever the order of the scan. *)
LEMMA FindRows ==
    ASSUME NEW g, IsHistory(g), NEW h, IsHistory(h), SameEntries(g, h), NEW x
    PROVE  Candidates(FindCandidates(g, x), g) /\ FindCandidates(g, x) = FindCandidates(h, x)
<1> DEFINE S == {i \in DOMAIN g : Labelled(g[i])}
           T == {i \in DOMAIN h : Labelled(h[i])}
           found == Hybrid(Picked(g, S), RetrieveK)
           kept == {i \in DOMAIN found : found[i].item # x.item}
<1>1. /\ S \in SUBSET DOMAIN g /\ T \in SUBSET DOMAIN h
      /\ \A i \in DOMAIN g, k \in DOMAIN h : g[i] = h[k] => (i \in S <=> k \in T)
  OBVIOUS
<1> HIDE DEF S, T
<1>2. Candidates(found, g) /\ found = Hybrid(Picked(h, T), RetrieveK)
  BY <1>1, PoolSame DEF RetrieveK
<1>3. FindCandidates(g, x) = Picked(found, kept)
  BY DEF FindCandidates, Others, S
<1>4. FindCandidates(h, x) = Picked(found, kept)
  BY <1>2 DEF FindCandidates, Others, T
<1> HIDE DEF found
<1>5. kept \in SUBSET DOMAIN found
  OBVIOUS
<1> HIDE DEF kept
<1> QED
  BY <1>2, <1>3, <1>4, <1>5, PickedCandidates

LEMMA WeightType ==
    ASSUME NEW r, r.rrf \in Int
    PROVE  Weight(r) \in Int
<1> DEFINE e == IF route \in ScopedRoutes THEN AnalyzeBoost(mode, q, Scoped(r))
                ELSE SuggestBoost(mode, q, Scoped(r))
           w == CASE e = -1 -> 1000 [] e = 0 -> 1100 [] e = 1 -> 1210 [] OTHER -> 1331
<1>1. Weight(r) = r.rrf * w
  BY DEF Weight
<1> HIDE DEF e
<1>2. w \in Int
  OBVIOUS
<1> HIDE DEF w
<1> QED
  BY <1>1, <1>2

(* Stage C: admitted rows of the history, whatever the order of the scan. *)
LEMMA StageCRows ==
    ASSUME NEW g, IsHistory(g), NEW h, IsHistory(h), SameEntries(g, h), NEW x
    PROVE  /\ Candidates(StageC(x, g), g)
           /\ \A k \in DOMAIN StageC(x, g) : Admitted(StageC(x, g)[k])
           /\ StageC(x, g) = StageC(x, h)
<1> DEFINE found == FindCandidates(g, x)
           S == {i \in DOMAIN found : Admitted(found[i])}
           used == Picked(found, S)
           w == [i \in DOMAIN used |-> Weight(used[i])]
<1>1. Candidates(found, g) /\ found = FindCandidates(h, x)
  BY FindRows
<1>2. StageC(x, g) = Prefix(Ranked(used, w), TopK)
  BY DEF StageC, Boosted, InScope
<1>3. StageC(x, h) = Prefix(Ranked(used, w), TopK)
  BY <1>1 DEF StageC, Boosted, InScope
<1> HIDE DEF found
<1>4. S \in SUBSET DOMAIN found /\ \A i \in S : Admitted(found[i])
  OBVIOUS
<1> HIDE DEF S
<1>5. Candidates(used, g) /\ \A k \in DOMAIN used : \E i \in S : used[k] = found[i]
  BY <1>1, <1>4, PickedCandidates
<1>6. \A k \in DOMAIN used : Admitted(used[k])
  BY <1>4, <1>5
<1> HIDE DEF used
<1>7. /\ Listing(used) /\ \A k \in DOMAIN used : used[k].item \in Int /\ used[k].rrf \in Int
  BY <1>5 DEF Candidates
<1>8. w \in [DOMAIN used -> Int]
  BY <1>7, WeightType
<1> HIDE DEF w
<1>9. /\ Listing(Ranked(used, w))
      /\ \A k \in DOMAIN Ranked(used, w) : \E i \in DOMAIN used : Ranked(used, w)[k] = used[i]
  BY <1>7, <1>8, RankedListing
<1>10. TopK \in Int
  BY DEF TopK
<1>11. /\ Listing(StageC(x, g))
       /\ \A k \in DOMAIN StageC(x, g) : /\ k \in DOMAIN Ranked(used, w)
                                         /\ StageC(x, g)[k] = Ranked(used, w)[k]
  BY <1>2, <1>9, <1>10, PrefixListing
<1>12. \A k \in DOMAIN StageC(x, g) : \E i \in DOMAIN used : StageC(x, g)[k] = used[i]
  BY <1>9, <1>11
<1>13. Candidates(StageC(x, g), g)
  BY <1>5, <1>11, <1>12 DEF Candidates
<1>14. \A k \in DOMAIN StageC(x, g) : Admitted(StageC(x, g)[k])
  BY <1>6, <1>12
<1> QED
  BY <1>2, <1>3, <1>13, <1>14

(* LabelledLater is a total order of rows with different ids. *)
LEMMA LaterOrder ==
    ASSUME NEW s, IsHistory(s)
    PROVE  IsOrder(DOMAIN s, {p \in Pairs(s) : LabelledLater(s[p[1]], s[p[2]])})
<1> DEFINE R == {p \in Pairs(s) : LabelledLater(s[p[1]], s[p[2]])}
<1>1. ASSUME NEW i \in DOMAIN s, NEW j \in DOMAIN s
      PROVE  <<i, j>> \in R <=> LabelledLater(s[i], s[j])
  BY DEF Pairs
<1> HIDE DEF R
<1>2. \A i \in DOMAIN s : s[i].age \in Int /\ s[i].item \in Int
  BY HistoryListing
<1>3. ASSUME NEW i \in DOMAIN s, NEW j \in DOMAIN s, i # j PROVE <<i, j>> \in R \/ <<j, i>> \in R
  <2>1. s[i].item # s[j].item
    BY <1>3, HistoryListing DEF Listing
  <2> QED
    BY <1>1, <1>2, <2>1 DEF LabelledLater, NoDate
<1>4. ASSUME NEW i \in DOMAIN s, NEW j \in DOMAIN s PROVE ~(<<i, j>> \in R /\ <<j, i>> \in R)
  BY <1>1, <1>2 DEF LabelledLater, NoDate
<1>5. ASSUME NEW i \in DOMAIN s, NEW j \in DOMAIN s, NEW k \in DOMAIN s,
             <<i, j>> \in R, <<j, k>> \in R
      PROVE  <<i, k>> \in R
  BY <1>1, <1>2, <1>5 DEF LabelledLater, NoDate
<1>6. IsOrder(DOMAIN s, R)
  BY <1>3, <1>4, <1>5 DEF IsOrder
<1> QED
  BY <1>6 DEF R

(* find_hash_matches: rows with the query's hash, whatever the order of    *)
(* the scan.                                                               *)
LEMMA HashFound ==
    ASSUME NEW g, IsHistory(g), NEW h, IsHistory(h), SameEntries(g, h), NEW x
    PROVE  /\ IsSeq(FindHashMatches(x, g))
           /\ \A k \in DOMAIN FindHashMatches(x, g) :
                 \E i \in DOMAIN g : FindHashMatches(x, g)[k] = g[i] /\ g[i].hash = x.hash
           /\ FindHashMatches(x, g) = FindHashMatches(x, h)
<1> DEFINE S == {i \in DOMAIN g : g[i].hash = x.hash /\ Labelled(g[i])}
           T == {i \in DOMAIN h : h[i].hash = x.hash /\ Labelled(h[i])}
           u == Picked(g, S)
           v == Picked(h, T)
           R == {p \in Pairs(u) : LabelledLater(u[p[1]], u[p[2]])}
           Q == {p \in Pairs(v) : LabelledLater(v[p[1]], v[p[2]])}
<1>1. /\ FindHashMatches(x, g) = Prefix(Sorted(u, R), HashLimit)
      /\ FindHashMatches(x, h) = Prefix(Sorted(v, Q), HashLimit)
  BY DEF FindHashMatches
<1>2. /\ S \in SUBSET DOMAIN g /\ T \in SUBSET DOMAIN h
      /\ \A i \in DOMAIN g, k \in DOMAIN h : g[i] = h[k] => (i \in S <=> k \in T)
      /\ \A i \in S : g[i].hash = x.hash
  OBVIOUS
<1> HIDE DEF S, T
<1>3. IsHistory(u) /\ \A k \in DOMAIN u : \E i \in S : u[k] = g[i]
  BY <1>2, PickedHistory
<1>4. IsHistory(v)
  BY <1>2, PickedHistory
<1>5. SameEntries(u, v)
  BY <1>2, PickedSame, HistoryListing
<1> HIDE DEF u, v
<1>6. IsOrder(DOMAIN u, R)
  BY <1>3, LaterOrder
<1>7. IsOrder(DOMAIN v, Q)
  BY <1>4, LaterOrder
<1>8. ASSUME NEW i \in DOMAIN u, NEW j \in DOMAIN u, NEW k \in DOMAIN v, NEW l \in DOMAIN v,
             u[i] = v[k], u[j] = v[l]
      PROVE  <<i, j>> \in R <=> <<k, l>> \in Q
  <2>1. <<i, j>> \in R <=> LabelledLater(u[i], u[j])
    BY DEF Pairs
  <2>2. <<k, l>> \in Q <=> LabelledLater(v[k], v[l])
    BY DEF Pairs
  <2> QED
    BY <1>8, <2>1, <2>2
<1> HIDE DEF R, Q
<1>9. IsSeq(u) /\ IsSeq(v) /\ \A i, j \in DOMAIN u : u[i] = u[j] => i = j
  BY <1>3, <1>4, HistoryListing DEF Listing
<1>10. Sorted(u, R) = Sorted(v, Q)
  BY <1>5, <1>6, <1>7, <1>8, <1>9, SortedStable DEF SameEntries
<1>11. /\ IsSeq(Sorted(u, R))
       /\ \A k \in DOMAIN Sorted(u, R) : \E i \in DOMAIN u : Sorted(u, R)[k] = u[i]
  BY <1>6, <1>9, SortedRange
<1> DEFINE w == Sorted(u, R)
           first == Prefix(w, HashLimit)
<1>12. IsSeq(w) /\ \A k \in DOMAIN w : \E i \in DOMAIN u : w[k] = u[i]
  BY <1>11
<1> HIDE DEF w
<1>13. HashLimit \in Int
  BY DEF HashLimit
<1>14. IsSeq(first) /\ \A k \in DOMAIN first : k \in DOMAIN w /\ first[k] = w[k]
  BY <1>12, <1>13, PrefixEntries
<1> HIDE DEF first
<1>15. \A k \in DOMAIN first : \E i \in S : first[k] = g[i]
  BY <1>3, <1>12, <1>14
<1>16. FindHashMatches(x, g) = first /\ FindHashMatches(x, h) = first
  BY <1>1, <1>10 DEF first, w
<1>17. \A i \in S : i \in DOMAIN g /\ g[i].hash = x.hash
  BY <1>2
<1> QED
  BY <1>14, <1>15, <1>16, <1>17

(* Exact-hash matches: admitted rows with the query's hash, whatever the   *)
(* order of the scan.                                                      *)
LEMMA HashRows ==
    ASSUME NEW g, IsHistory(g), NEW h, IsHistory(h), SameEntries(g, h), NEW x
    PROVE  /\ IsSeq(HashMatches(x, g))
           /\ \A k \in DOMAIN HashMatches(x, g) :
                 \E i \in DOMAIN g : /\ HashMatches(x, g)[k] = g[i]
                                     /\ g[i].hash = x.hash /\ Admitted(g[i])
           /\ HashMatches(x, g) = HashMatches(x, h)
<1>1. CASE x.fp = 0
  <2>1. HashMatches(x, g) = <<>> /\ HashMatches(x, h) = <<>>
    BY <1>1 DEF HashMatches
  <2>2. IsSeq(<<>>) /\ DOMAIN <<>> = {}
    BY DEF IsSeq
  <2> QED
    BY <2>1, <2>2
<1>2. CASE x.fp # 0
  <2> DEFINE u == FindHashMatches(x, g)
             S == {i \in DOMAIN u : u[i].item # x.item /\ Admitted(u[i])}
  <2>1. /\ IsSeq(u) /\ u = FindHashMatches(x, h)
        /\ \A k \in DOMAIN u : \E i \in DOMAIN g : u[k] = g[i] /\ g[i].hash = x.hash
    BY HashFound
  <2>2. HashMatches(x, g) = Picked(u, S) /\ HashMatches(x, h) = Picked(u, S)
    BY <1>2, <2>1 DEF HashMatches
  <2> HIDE DEF u
  <2>3. S \in SUBSET DOMAIN u /\ \A k \in S : Admitted(u[k])
    OBVIOUS
  <2> HIDE DEF S
  <2>4. IsSeq(Picked(u, S)) /\ \A k \in DOMAIN Picked(u, S) : \E i \in S : Picked(u, S)[k] = u[i]
    BY <2>1, <2>3, PickedRange
  <2> QED
    BY <2>1, <2>2, <2>3, <2>4
<1> QED
  BY <1>1, <1>2

(* search_ti_candidates and the reply of search, likewise. *)
LEMMA SearchSame ==
    ASSUME NEW g, IsHistory(g), NEW h, IsHistory(h), SameEntries(g, h), NEW x, NEW launches
    PROVE  SearchHits(g, x, launches) = SearchHits(h, x, launches)
<1> DEFINE S == {i \in DOMAIN g : /\ g[i].type.prefix = "ti" /\ g[i].item # x.item
                                  /\ launches = {} \/ g[i].launch \in launches}
           T == {i \in DOMAIN h : /\ h[i].type.prefix = "ti" /\ h[i].item # x.item
                                  /\ launches = {} \/ h[i].launch \in launches}
<1>1. /\ S \in SUBSET DOMAIN g /\ T \in SUBSET DOMAIN h
      /\ \A i \in DOMAIN g, k \in DOMAIN h : g[i] = h[k] => (i \in S <=> k \in T)
  OBVIOUS
<1>2. /\ SearchTiCandidates(g, x, launches) = Hybrid(Picked(g, S), TopK)
      /\ SearchTiCandidates(h, x, launches) = Hybrid(Picked(h, T), TopK)
  BY DEF SearchTiCandidates
<1> HIDE DEF S, T
<1>3. Hybrid(Picked(g, S), TopK) = Hybrid(Picked(h, T), TopK)
  BY <1>1, PoolSame DEF TopK
<1> QED
  BY <1>2, <1>3 DEF SearchHits, Hits

-----------------------------------------------------------------------------
(* The request under way                                                   *)

(* What is read for a request is a history, and stays while it is needed;  *)
(* a search is answered in the step that reads it.                         *)
RequestInv ==
    /\ route = "search" => phase = "answered"
    /\ phase = "retrieved" \/ route = "search" => IsHistory(rows)

LEMMA RequestKept == Spec => []RequestInv
<1>1. Init => RequestInv
  BY DEF Init, RequestInv, None
<1>2. RequestInv /\ [Next]_vars => RequestInv'
  <2> SUFFICES ASSUME RequestInv, [Next]_vars PROVE RequestInv'
    OBVIOUS
  <2>1. CASE Ask
    <3>1. PICK r \in {"analyze", "analyze_item_early", "suggest"}, h \in Histories :
            route' = r /\ rows' = h
      BY <2>1 DEF Ask
    <3>2. IsHistory(rows')
      BY <3>1, AnalysisAssumption
    <3>3. route' # "search"
      BY <3>1
    <3> QED
      BY <3>2, <3>3 DEF RequestInv, IsHistory
  <2>2. CASE DecideItem
    BY <2>2 DEF DecideItem, RequestInv
  <2>3. CASE Answer
    BY <2>3 DEF Answer, RequestInv
  <2>4. CASE Search
    <3>1. PICK h \in Histories : rows' = h
      BY <2>4 DEF Search
    <3>2. IsHistory(rows') /\ phase' = "answered"
      BY <2>4, <3>1, AnalysisAssumption DEF Search
    <3> QED
      BY <3>2 DEF RequestInv, IsHistory
  <2>5. CASE AskLaunch
    BY <2>5 DEF AskLaunch, RequestInv
  <2>6. CASE Done
    BY <2>6 DEF Done, RequestInv, None
  <2>7. CASE UNCHANGED vars
    BY <2>7 DEF vars, RequestInv, IsHistory
  <2> QED
    BY <2>1, <2>2, <2>3, <2>4, <2>5, <2>6, <2>7 DEF Next
<1> QED
  BY <1>1, <1>2, PTL DEF Spec

(* A history in another order is a history of the same rows. *)
LEMMA Permuted ==
    ASSUME NEW h, IsHistory(h), NEW p \in Bijection(DOMAIN h, DOMAIN h),
           NEW g, g = [i \in DOMAIN h |-> h[p[i]]]
    PROVE  IsHistory(g) /\ SameEntries(g, h)
<1>1. /\ p \in [DOMAIN h -> DOMAIN h]
      /\ \A i, j \in DOMAIN h : p[i] = p[j] => i = j
      /\ \A k \in DOMAIN h : \E i \in DOMAIN h : p[i] = k
  BY DEF Bijection, Injection, Surjection, IsInjective
<1>2. Len(h) \in Nat /\ DOMAIN h = 1..Len(h)
  BY SeqDomain DEF IsHistory
<1>3. DOMAIN g = DOMAIN h /\ g = [k \in DOMAIN h |-> g[k]] /\ \A i \in DOMAIN h : g[i] = h[p[i]]
  OBVIOUS
<1>4. IsSeq(g)
  BY <1>2, <1>3, SeqOfFunction
<1>5. ASSUME NEW i \in DOMAIN g, NEW j \in DOMAIN g, g[i].item = g[j].item PROVE i = j
  BY <1>1, <1>3, <1>5 DEF IsHistory
<1>6. \A i \in DOMAIN g : /\ g[i].item \in Int /\ g[i].age \in Int
                          /\ g[i].cos \in Int /\ g[i].lex \in Int /\ g[i].trgm \in Int
  BY <1>1, <1>3 DEF IsHistory
<1>7. SameEntries(g, h)
  BY <1>1, <1>3 DEF SameEntries
<1> QED
  BY <1>4, <1>5, <1>6, <1>7 DEF IsHistory

(* The evidence and the hits of a search are the same in whatever order    *)
(* the database returns its rows, for every history, limit and mode: each  *)
(* leg, the fusion and the boost of _stage_c order their rows totally.     *)
THEOREM EvidenceIsStable == Spec => []EvidenceStable
<1>1. RequestInv => EvidenceStable
  <2> SUFFICES ASSUME RequestInv, phase = "retrieved" \/ route = "search",
                      NEW p \in Bijection(DOMAIN rows, DOMAIN rows),
                      NEW rs, rs = [i \in DOMAIN rows |-> rows[p[i]]]
               PROVE  IF route = "search"
                      THEN \A launches \in SUBSET {1, 2} :
                               SearchHits(rs, q, launches) = SearchHits(rows, q, launches)
                      ELSE StageC(q, rs) = StageC(q, rows) /\ HashMatches(q, rs) = HashMatches(q, rows)
    BY DEF EvidenceStable
  <2>1. IsHistory(rows)
    BY DEF RequestInv
  <2>2. IsHistory(rs) /\ SameEntries(rs, rows)
    BY <2>1, Permuted
  <2>3. StageC(q, rs) = StageC(q, rows)
    BY <2>1, <2>2, StageCRows
  <2>4. HashMatches(q, rs) = HashMatches(q, rows)
    BY <2>1, <2>2, HashRows
  <2>5. \A launches \in SUBSET {1, 2} : SearchHits(rs, q, launches) = SearchHits(rows, q, launches)
    BY <2>1, <2>2, SearchSame
  <2> QED
    BY <2>3, <2>4, <2>5
<1> QED
  BY <1>1, RequestKept, PTL

-----------------------------------------------------------------------------
(* Where a label comes from                                                *)

(* A total order of a finite set has a first member. *)
LEMMA FirstInOrder ==
    ASSUME NEW D, IsFiniteSet(D), D # {}, NEW R, IsOrder(D, R)
    PROVE  \E i \in D : \A j \in D : j # i => <<i, j>> \in R
<1>1. PICK rank : rank = [i \in D |-> Cardinality({j \in D : <<j, i>> \in R})]
  OBVIOUS
<1>2. /\ Cardinality(D) \in Nat
      /\ \A i \in D : rank[i] \in 0..(Cardinality(D) - 1)
      /\ \A i, h \in D : <<h, i>> \in R => rank[h] < rank[i]
      /\ \A k \in 0..(Cardinality(D) - 1) : \E i \in D : rank[i] = k
  BY <1>1, OrderRanks
<1>3. 0 \in 0..(Cardinality(D) - 1)
  BY <1>2
<1>4. PICK i \in D : rank[i] = 0
  BY <1>2, <1>3
<1>5. ASSUME NEW j \in D, j # i PROVE <<i, j>> \in R
  <2>1. ~(rank[j] < 0)
    BY <1>2
  <2>2. ~(<<j, i>> \in R)
    BY <1>2, <1>4, <2>1
  <2> QED
    BY <1>5, <2>2 DEF IsOrder
<1> QED
  BY <1>5

(* The latest label is one of the rows. *)
LEMMA NewestRow ==
    ASSUME NEW s, IsSeq(s), s # <<>>, \A i \in DOMAIN s : s[i].age \in Int
    PROVE  \E i \in DOMAIN s : Newest(s) = s[i]
<1> DEFINE date(i) == IF s[i].age = NoDate THEN 100000 ELSE s[i].age
           D == DOMAIN s
           R == {p \in D \X D : date(p[1]) < date(p[2]) \/ (date(p[1]) = date(p[2]) /\ p[1] < p[2])}
           first == CHOOSE i \in D : \A j \in D : date(i) < date(j) \/ (date(i) = date(j) /\ i <= j)
<1>1. D \subseteq Int /\ IsFiniteSet(D) /\ D # {}
  <2>1. D \in SUBSET DOMAIN s
    OBVIOUS
  <2> QED
    BY <2>1, PositionsFinite, EmptyOrNot
<1>2. \A i \in D : date(i) \in Int
  OBVIOUS
<1>3. Newest(s) = s[first]
  BY DEF Newest
<1> HIDE DEF D, date
<1>4. \A i, j \in D : <<i, j>> \in R <=> date(i) < date(j) \/ (date(i) = date(j) /\ i < j)
  OBVIOUS
<1> HIDE DEF R
<1>5. IsOrder(D, R)
  <2>1. ASSUME NEW i \in D, NEW j \in D PROVE i # j => <<i, j>> \in R \/ <<j, i>> \in R
    <3>1. i \in Int /\ j \in Int /\ date(i) \in Int /\ date(j) \in Int
      BY <1>1, <1>2
    <3> QED
      BY <1>4, <3>1
  <2>2. ASSUME NEW i \in D, NEW j \in D PROVE ~(<<i, j>> \in R /\ <<j, i>> \in R)
    <3>1. i \in Int /\ j \in Int /\ date(i) \in Int /\ date(j) \in Int
      BY <1>1, <1>2
    <3> QED
      BY <1>4, <3>1
  <2>3. ASSUME NEW i \in D, NEW j \in D, NEW k \in D, <<i, j>> \in R, <<j, k>> \in R
        PROVE  <<i, k>> \in R
    <3>1. /\ i \in Int /\ j \in Int /\ k \in Int
          /\ date(i) \in Int /\ date(j) \in Int /\ date(k) \in Int
      BY <1>1, <1>2
    <3> QED
      BY <1>4, <2>3, <3>1
  <2> QED
    BY <2>1, <2>2, <2>3 DEF IsOrder
<1>6. PICK i \in D : \A j \in D : j # i => <<i, j>> \in R
  BY <1>1, <1>5, FirstInOrder
<1>7. \A j \in D : date(i) < date(j) \/ (date(i) = date(j) /\ i <= j)
  <2> SUFFICES ASSUME NEW j \in D PROVE date(i) < date(j) \/ (date(i) = date(j) /\ i <= j)
    OBVIOUS
  <2>1. i \in Int /\ j \in Int
    BY <1>1
  <2>2. CASE j = i
    BY <2>1, <2>2
  <2>3. CASE j # i
    <3>1. date(i) < date(j) \/ (date(i) = date(j) /\ i < j)
      BY <1>4, <1>6, <2>3
    <3>2. i < j => i <= j
      BY <2>1
    <3> QED
      BY <3>1, <3>2
  <2> QED
    BY <2>2, <2>3
<1>8. first \in D
  BY <1>7
<1> QED
  BY <1>3, <1>8 DEF D

(* A label inherited by hash is that of a match with the discriminants of  *)
(* the item.                                                               *)
LEMMA InheritedRow ==
    ASSUME NEW x, IsHistory(rows), StageAInherits(x, HashMatches(x, rows))
    PROVE  \E i \in DOMAIN rows :
              /\ Newest(DiscriminantFilter(x, HashMatches(x, rows))) = rows[i]
              /\ rows[i].hash = x.hash /\ rows[i].codes = x.codes /\ Admitted(rows[i])
<1> DEFINE m == HashMatches(x, rows)
           S == {k \in DOMAIN m : Agrees(x, m[k])}
           f == DiscriminantFilter(x, m)
<1>1. SameEntries(rows, rows)
  BY DEF SameEntries
<1>2. /\ IsSeq(m)
      /\ \A k \in DOMAIN m : \E i \in DOMAIN rows :
             m[k] = rows[i] /\ rows[i].hash = x.hash /\ Admitted(rows[i])
  BY <1>1, HashRows
<1>3. f = Picked(m, S)
  BY DEF DiscriminantFilter
<1>4. f # <<>>
  BY DEF StageAInherits, Inheritable
<1> HIDE DEF m
<1>5. S \in SUBSET DOMAIN m /\ \A k \in S : m[k].codes = x.codes
  BY DEF Agrees
<1> HIDE DEF S
<1>6. IsSeq(f) /\ \A k \in DOMAIN f : \E i \in S : f[k] = m[i]
  BY <1>2, <1>3, <1>5, PickedRange
<1> HIDE DEF f
<1>7. \A k \in DOMAIN f : \E i \in DOMAIN rows :
          /\ f[k] = rows[i] /\ rows[i].hash = x.hash /\ Admitted(rows[i]) /\ rows[i].codes = x.codes
  BY <1>2, <1>5, <1>6
<1>8. \A k \in DOMAIN f : f[k].age \in Int
  BY <1>7, HistoryListing
<1>9. PICK k \in DOMAIN f : Newest(f) = f[k]
  BY <1>4, <1>6, <1>8, NewestRow
<1> QED
  BY <1>7, <1>9 DEF f, m

(* The row _pick_relevant finds is in the list. *)
LEMMA RelevantRow ==
    ASSUME NEW s, IsSeq(s), NEW base
    PROVE  Relevant(s, base) = 0 \/ Relevant(s, base) \in DOMAIN s
<1> DEFINE same == {i \in DOMAIN s : BaseGroup(s[i].type) = base}
<1>1. same \in SUBSET DOMAIN s
  OBVIOUS
<1>2. Relevant(s, base) = IF same = {} THEN 0 ELSE CHOOSE i \in same : \A j \in same : i <= j
  BY DEF Relevant
<1> HIDE DEF same
<1>3. CASE same = {}
  BY <1>2, <1>3
<1>4. CASE same # {}
  <2>1. same \in SUBSET Nat
    BY <1>1, SeqDomain
  <2>2. \E i \in same : \A j \in same : i <= j
    BY <1>4, <2>1, LeastNumber
  <2>3. Relevant(s, base) \in same
    BY <1>2, <1>4, <2>2
  <2> QED
    BY <1>1, <2>3
<1> QED
  BY <1>3, <1>4

(* Which stage answered, from what the answer says. *)
LEMMA DecideByHash ==
    ASSUME NEW x, NEW ms, NEW modes, NEW seed, NEW sc, NEW g,
           Decide(x, ms, modes, seed, sc, g).method = "hash"
    PROVE  /\ StageAInherits(x, ms)
           /\ Decide(x, ms, modes, seed, sc, g).relevant = Newest(DiscriminantFilter(x, ms)).item
           /\ Decide(x, ms, modes, seed, sc, g).type = Newest(DiscriminantFilter(x, ms)).type
BY DEF Decide, GbmResult, Abstain, Result

(* What a decision for x rests on, stage by stage. *)
LEMMA DecideCases ==
    ASSUME NEW x, NEW ms, NEW modes, NEW seed, NEW sc, NEW g,
           NEW d, d = Decide(x, ms, modes, seed, sc, g)
    PROVE  LET from == Newest(DiscriminantFilter(x, ms))
               kb_ == BestKb(modes)
           IN \/ /\ StageAInherits(x, ms) /\ d.method = "hash"
                 /\ d = Result(BaseGroup(from.type), from.type, StageAConfidence, "hash", TRUE,
                               from.item, from.source, None, Unknown)
              \/ /\ ~StageAInherits(x, ms) /\ KbDecides(modes) /\ d.method = "kb"
                 /\ d = Result(BaseGroup(kb_.label), kb_.label,
                               AtMost(KbConfidenceCap, (kb_.purity * kb_.score) \div 100),
                               "kb", TRUE, 0, None, None, Unknown)
              \/ /\ ~StageAInherits(x, ms) /\ ~KbDecides(modes) /\ d.method = "gbm"
                 /\ d = GbmResult(x, sc, ExtractFeatures(x, ms, sc), g)
              \/ /\ ~StageAInherits(x, ms) /\ ~KbDecides(modes) /\ d.method = "rule_cold" /\ d.relevant = 0
                 /\ d = IF seed.conf >= SeedPriorMin
                        THEN Result(seed.label, DefaultLocator(seed.label), seed.conf, "rule_cold",
                                    FALSE, 0, None, None, Unknown)
                        ELSE Abstain("rule_cold", 0, "no_confident_rule", Unknown)
<1>1. CASE StageAInherits(x, ms)
  BY <1>1 DEF Decide, Result
<1>2. CASE ~StageAInherits(x, ms) /\ KbDecides(modes)
  BY <1>2 DEF Decide, Result
<1>3. CASE ~StageAInherits(x, ms) /\ ~KbDecides(modes) /\ g # NoGbm
  <2>1. d = GbmResult(x, sc, ExtractFeatures(x, ms, sc), g)
    BY <1>3 DEF Decide
  <2>2. GbmResult(x, sc, ExtractFeatures(x, ms, sc), g).method = "gbm"
    BY DEF GbmResult, Abstain, Result
  <2> QED
    BY <1>3, <2>1, <2>2
<1>4. CASE ~StageAInherits(x, ms) /\ ~KbDecides(modes) /\ g = NoGbm
  <2>1. d = IF seed.conf >= SeedPriorMin
            THEN Result(seed.label, DefaultLocator(seed.label), seed.conf, "rule_cold",
                        FALSE, 0, None, None, Unknown)
            ELSE Abstain("rule_cold", 0, "no_confident_rule", Unknown)
    BY <1>4 DEF Decide
  <2>2. d.method = "rule_cold" /\ d.relevant = 0
    BY <2>1 DEF Abstain, Result
  <2> QED
    BY <1>4, <2>1, <2>2
<1> QED
  BY <1>1, <1>2, <1>3, <1>4

(* Which stage answered, once more. *)
LEMMA DecideByMethod ==
    ASSUME NEW x, NEW ms, NEW modes, NEW seed, NEW sc, NEW g,
           NEW d, d = Decide(x, ms, modes, seed, sc, g)
    PROVE  /\ d.method \in {"hash", "kb"} => StageAInherits(x, ms) \/ KbDecides(modes)
           /\ d.method = "gbm" => d = GbmResult(x, sc, ExtractFeatures(x, ms, sc), g)
<1>1. \/ d.method = "hash" /\ StageAInherits(x, ms)
      \/ d.method = "kb" /\ KbDecides(modes)
      \/ d.method = "gbm" /\ d = GbmResult(x, sc, ExtractFeatures(x, ms, sc), g)
      \/ d.method = "rule_cold"
  BY DecideCases, ZenonT(40)
<1> QED
  BY <1>1

(* The neighbour a model's label names is one of Stage C's. *)
LEMMA GbmRow ==
    ASSUME NEW x, NEW sc, IsSeq(sc), NEW f, NEW g, GbmResult(x, sc, f, g).relevant # 0
    PROVE  \E k \in DOMAIN sc : GbmResult(x, sc, f, g).relevant = sc[k].item
<1> DEFINE label == IF g.label \in BaseLabels THEN g.label ELSE "ti"
           i == Relevant(sc, label)
<1>1. i = 0 \/ i \in DOMAIN sc
  BY RelevantRow
<1>2. sc # <<>> => 1 \in DOMAIN sc
  <2>1. Len(sc) \in Nat /\ DOMAIN sc = 1..Len(sc)
    BY SeqDomain
  <2>2. sc # <<>> => Len(sc) # 0
    BY <2>1, EmptyOrNot
  <2> QED
    BY <2>1, <2>2
<1>3. GbmResult(x, sc, f, g).relevant \in
         (IF sc # <<>> THEN {sc[1].item} ELSE {}) \cup (IF i # 0 THEN {sc[i].item} ELSE {})
  BY DEF GbmResult, HashFloor, Abstain, Result
<1> HIDE DEF i
<1> QED
  BY <1>1, <1>2, <1>3

(* What analysis admits of a candidate it admits of its row. *)
LEMMA AdmittedRow ==
    ASSUME NEW e, NEW r, From(e, r), Admitted(e)
    PROVE  Admitted(r)
BY DEF From, Admitted, Scoped

(* An item a decision names is in the history, and in scope. *)
LEMMA DecidedRow ==
    ASSUME IsHistory(rows), NEW x, NEW g, Decided(x, g).relevant # 0
    PROVE  \E i \in DOMAIN rows : rows[i].item = Decided(x, g).relevant /\ Admitted(rows[i])
<1> DEFINE ms == HashMatches(x, rows)
           sc == StageC(x, rows)
           d == Decided(x, g)
           from == Newest(DiscriminantFilter(x, ms))
<1>1. SameEntries(rows, rows)
  BY DEF SameEntries
<1>2. Candidates(sc, rows) /\ \A k \in DOMAIN sc : Admitted(sc[k])
  BY <1>1, StageCRows
<1>3. d = Decide(x, ms, kb, SeedOf(x), sc, g)
  BY DEF Decided
<1>4. CASE StageAInherits(x, ms) /\ d.relevant = from.item
  BY <1>4, InheritedRow
<1>5. CASE d = GbmResult(x, sc, ExtractFeatures(x, ms, sc), g)
  <2>1. IsSeq(sc)
    BY <1>2 DEF Candidates, Listing
  <2>2. PICK k \in DOMAIN sc : d.relevant = sc[k].item
    BY <1>5, <2>1, GbmRow
  <2>3. PICK i \in DOMAIN rows : From(sc[k], rows[i])
    BY <1>2 DEF Candidates
  <2>4. Admitted(rows[i])
    BY <1>2, <2>3, AdmittedRow
  <2> QED
    BY <2>2, <2>3, <2>4 DEF From
<1> HIDE DEF ms, sc, d
<1>6. d.relevant # 0
  BY DEF d
<1>7. \/ StageAInherits(x, ms) /\ d.relevant = from.item
      \/ d.relevant = 0
      \/ d = GbmResult(x, sc, ExtractFeatures(x, ms, sc), g)
  <2>1. StageAInherits(x, ms) =>
          Result(BaseGroup(from.type), from.type, StageAConfidence, "hash", TRUE,
                 from.item, from.source, None, Unknown).relevant = from.item
    BY DEF Result
  <2>2. Result(BaseGroup(BestKb(kb).label), BestKb(kb).label,
               AtMost(KbConfidenceCap, (BestKb(kb).purity * BestKb(kb).score) \div 100),
               "kb", TRUE, 0, None, None, Unknown).relevant = 0
    BY DEF Result
  <2> HIDE DEF from
  <2> QED
    BY <1>3, <2>1, <2>2, DecideCases, ZenonT(40) DEF from
<1> QED
  BY <1>4, <1>5, <1>6, <1>7 DEF d

(* Only DecideItem leaves the phase in which the evidence is there. *)
LEMMA RetrievedStep ==
    ASSUME phase = "retrieved", [Next]_vars
    PROVE  DecideItem \/ UNCHANGED vars
BY DEF Next, Ask, Answer, Search, AskLaunch, Done

(* Whatever the evidence, the model and the mode, a label that analyze or  *)
(* the early route applies comes from an item in the analyzerMode's scope. *)
THEOREM LabelsStayInScope == Spec => ScopeRespected
<1> DEFINE A == phase = "retrieved" /\ applied' # Nothing /\ decision'.relevant # 0 =>
                  \E i \in DOMAIN rows :
                      rows[i].item = decision'.relevant /\ InAnalyzeScope(mode, q, Scoped(rows[i]))
<1>1. RequestInv /\ [Next]_vars => [A]_vars
  <2> SUFFICES ASSUME RequestInv, [Next]_vars, phase = "retrieved", DecideItem,
                      applied' # Nothing, decision'.relevant # 0
               PROVE  \E i \in DOMAIN rows :
                        rows[i].item = decision'.relevant /\ InAnalyzeScope(mode, q, Scoped(rows[i]))
    BY RetrievedStep
  <2>1. PICK g \in Gbms : decision' = Decided(q, g)
    BY DEF DecideItem
  <2>2. route \in ScopedRoutes
    BY DEF DecideItem, Applied, ScopedRoutes
  <2>3. PICK i \in DOMAIN rows : rows[i].item = decision'.relevant /\ Admitted(rows[i])
    BY <2>1, DecidedRow DEF RequestInv
  <2> QED
    BY <2>2, <2>3 DEF Admitted
<1> QED
  BY <1>1, RequestKept, PTL DEF Spec, ScopeRespected

(* Unless the policy lets the model label early (kb_inherit_and_pb), what  *)
(* is applied early is what the same evidence gives under any prediction.  *)
THEOREM EarlyLabelsAgree ==
    ASSUME EarlyPolicy # "kb_inherit_and_pb"
    PROVE  Spec => EarlyAgreesWithFinish
<1> DEFINE A == phase = "retrieved" /\ route = "analyze_item_early" /\ applied' # Nothing =>
                  \A g \in Gbms : Decided(q, g).type = applied'
<1>1. [Next]_vars => [A]_vars
  <2> SUFFICES ASSUME [Next]_vars, phase = "retrieved", DecideItem, route = "analyze_item_early",
                      applied' # Nothing, NEW g \in Gbms
               PROVE  Decided(q, g).type = applied'
    BY RetrievedStep
  <2>1. PICK g0 \in Gbms : decision' = Decided(q, g0)
    BY DEF DecideItem
  <2>2. applied' = decision'.type /\ decision'.method \in {"hash", "kb"}
    BY DEF DecideItem, Applied, EarlyApplies
  <2>3. Decided(q, g) = decision'
    <3> DEFINE ms == HashMatches(q, rows)
               sc == StageC(q, rows)
    <3>1. /\ Decided(q, g0) = Decide(q, ms, kb, SeedOf(q), sc, g0)
          /\ Decided(q, g) = Decide(q, ms, kb, SeedOf(q), sc, g)
      BY DEF Decided
    <3> HIDE DEF ms, sc
    <3>2. StageAInherits(q, ms) \/ KbDecides(kb)
      BY <2>1, <2>2, <3>1, DecideByMethod
    <3>3. Decide(q, ms, kb, SeedOf(q), sc, g0) = Decide(q, ms, kb, SeedOf(q), sc, g)
      BY <3>2 DEF Decide
    <3> QED
      BY <2>1, <3>1, <3>3
  <2> QED
    BY <2>2, <2>3
<1> QED
  BY <1>1, PTL DEF Spec, EarlyAgreesWithFinish

(* Every label a member of a group inherits by hash is that of an item     *)
(* with the member's own error hash and status codes, whether it was       *)
(* decided for the member or for its representative.                       *)
THEOREM InheritedLabelsFit == Spec => FanOutFits
<1> DEFINE A == phase = "retrieved" /\ fan'.method = "hash" =>
                  \E i \in DOMAIN rows :
                      /\ rows[i].item = fan'.relevant
                      /\ rows[i].hash = member[1].hash /\ rows[i].codes = member[1].codes
                      /\ rows[i].type = fan'.type
<1>1. RequestInv /\ [Next]_vars => [A]_vars
  <2> SUFFICES ASSUME RequestInv, [Next]_vars, phase = "retrieved", DecideItem, fan'.method = "hash"
               PROVE  \E i \in DOMAIN rows :
                        /\ rows[i].item = fan'.relevant
                        /\ rows[i].hash = member[1].hash /\ rows[i].codes = member[1].codes
                        /\ rows[i].type = fan'.type
    BY RetrievedStep
  <2>1. PICK g \in Gbms : /\ decision' = Decided(q, g)
                          /\ fan' = IF member = <<>> THEN NoDecision
                                    ELSE IF Indistinct(q, member[1]) THEN decision'
                                    ELSE Decided(member[1], g)
    BY DEF DecideItem
  <2>2. NoDecision.method # "hash"
    BY DEF NoDecision, None
  <2>3. PICK x : /\ fan' = Decided(x, g)
                 /\ x.hash = member[1].hash /\ x.codes = member[1].codes
    <3>1. CASE Indistinct(q, member[1])
      BY <2>1, <2>2, <3>1 DEF Indistinct
    <3>2. CASE ~Indistinct(q, member[1])
      BY <2>1, <2>2, <3>2
    <3> QED
      BY <3>1, <3>2
  <2>4. /\ StageAInherits(x, HashMatches(x, rows))
        /\ fan'.relevant = Newest(DiscriminantFilter(x, HashMatches(x, rows))).item
        /\ fan'.type = Newest(DiscriminantFilter(x, HashMatches(x, rows))).type
    BY <2>3, DecideByHash DEF Decided
  <2>5. IsHistory(rows)
    BY DEF RequestInv
  <2> QED
    BY <2>3, <2>4, <2>5, InheritedRow
<1> QED
  BY <1>1, RequestKept, PTL DEF Spec, FanOutFits

(* With the auto threshold above the suggest one, a prediction under the   *)
(* suggest threshold is overruled only as the floor allows, for every      *)
(* history.                                                                *)
THEOREM FloorEarned ==
    ASSUME TauAuto > TauSuggest
    PROVE  Spec => FloorIsEarned
<1> DEFINE ms == HashMatches(q, rows)
           C == /\ decision'.action = "suggest"
                /\ \E i \in DOMAIN rows : /\ rows[i].item = decision'.relevant
                                          /\ rows[i].hash = q.hash /\ rows[i].source \in Human
                /\ q.codes = {} \/ \E i \in DOMAIN rows : rows[i].hash = q.hash /\ rows[i].codes = q.codes
                /\ ms = <<>> \/ \E i \in DOMAIN ms : Agrees(q, ms[i])
           A == phase = "retrieved" /\ decision'.method = "gbm" /\ gbm'.prob < TauSuggest
                  /\ decision'.action # "abstain" => C
<1>1. RequestInv /\ [Next]_vars => [A]_vars
  <2> SUFFICES ASSUME RequestInv, [Next]_vars, phase = "retrieved", DecideItem,
                      decision'.method = "gbm", gbm'.prob < TauSuggest, decision'.action # "abstain"
               PROVE  C
    BY RetrievedStep
  <2> DEFINE sc == StageC(q, rows)
             f == ExtractFeatures(q, ms, sc)
  <2>1. PICK g \in Gbms : decision' = Decided(q, g) /\ gbm' = g
    BY DEF DecideItem
  <2>2. IsHistory(rows) /\ SameEntries(rows, rows)
    BY DEF RequestInv, SameEntries
  <2>3. /\ IsSeq(ms)
        /\ \A k \in DOMAIN ms : \E i \in DOMAIN rows :
               ms[k] = rows[i] /\ rows[i].hash = q.hash /\ Admitted(rows[i])
    BY <2>2, HashRows
  <2>4. Candidates(sc, rows) /\ IsSeq(sc)
    BY <2>2, StageCRows DEF Candidates, Listing
  <2>5. q.fp = 0 => ms = <<>>
    BY DEF HashMatches
  <2>6. decision' = GbmResult(q, sc, f, g)
    BY <2>1, DecideByMethod DEF Decided
  <2> HIDE DEF ms, sc
  <2>7. HashFloor(q, sc, f) /\ decision' = Result(BaseGroup(sc[1].type), sc[1].type, TauSuggest,
                        "gbm", FALSE, sc[1].item, sc[1].source, None, g.prob)
    <3>1. Abstain("gbm", g.prob, "gbm_below_suggest", g.prob).action = "abstain"
      BY DEF Abstain, Result
    <3> HIDE DEF f
    <3>2. g.prob < TauSuggest
      BY <2>1
    <3>3. decision' = IF HashFloor(q, sc, f)
                      THEN Result(BaseGroup(sc[1].type), sc[1].type, TauSuggest, "gbm", FALSE,
                                  sc[1].item, sc[1].source, None, g.prob)
                      ELSE Abstain("gbm", g.prob, "gbm_below_suggest", g.prob)
      BY <2>6, <3>2 DEF GbmResult
    <3> QED
      BY <3>1, <3>3
  <2>8. decision'.action = "suggest" /\ decision'.relevant = sc[1].item
    <3>1. Band(TauSuggest, FALSE) = "suggest"
      BY DecisionAssumption DEF Band, TauSuggest
    <3>2. decision'.action = IF BaseGroup(sc[1].type) = "ti" THEN "abstain" ELSE Band(TauSuggest, FALSE)
      BY <2>7 DEF Result
    <3>3. decision'.relevant = sc[1].item
      BY <2>7 DEF Result
    <3> QED
      BY <3>1, <3>2, <3>3
  <2>9. 1 \in DOMAIN sc
    <3>1. sc # <<>>
      BY <2>7 DEF HashFloor
    <3>2. Len(sc) \in Nat /\ DOMAIN sc = 1..Len(sc) /\ DOMAIN sc # {}
      BY <2>4, <3>1, SeqDomain, EmptyOrNot
    <3> QED
      BY <3>2
  <2>10. \E i \in DOMAIN rows : /\ rows[i].item = decision'.relevant
                                /\ rows[i].hash = q.hash /\ rows[i].source \in Human
    <3>1. PICK i \in DOMAIN rows : From(sc[1], rows[i])
      BY <2>4, <2>9 DEF Candidates
    <3>2. sc[1].hash = q.hash /\ sc[1].source \in Human
      BY <2>7 DEF HashFloor
    <3> QED
      BY <2>8, <3>1, <3>2 DEF From
  <2>11. ms # <<>> => 1 \in DOMAIN ms
    <3>1. Len(ms) \in Nat /\ DOMAIN ms = 1..Len(ms) /\ (ms # <<>> => DOMAIN ms # {})
      BY <2>3, SeqDomain, EmptyOrNot
    <3> QED
      BY <3>1
  <2>12. q.codes = {} \/ \E i \in DOMAIN rows : rows[i].hash = q.hash /\ rows[i].codes = q.codes
    <3>1. q.codes = {} \/ (ms # <<>> /\ ms[1].codes = q.codes)
      BY <2>7 DEF HashFloor, ExtractFeatures
    <3> QED
      BY <2>3, <2>11, <3>1
  <2>13. ms = <<>> \/ \E i \in DOMAIN ms : Agrees(q, ms[i])
    <3>1. q.fp = 0 \/ ms = <<>> \/ DiscriminantFilter(q, ms) # <<>>
      BY <2>7 DEF HashFloor, ExtractFeatures, GateBlocked
    <3> DEFINE S == {i \in DOMAIN ms : Agrees(q, ms[i])}
    <3>2. S \in SUBSET DOMAIN ms /\ DiscriminantFilter(q, ms) = Picked(ms, S)
      BY DEF DiscriminantFilter
    <3>3. DiscriminantFilter(q, ms) # <<>> => S # {}
      <4> HIDE DEF S
      <4> QED
        BY <2>3, <3>2, PickedRange
    <3> QED
      BY <2>5, <3>1, <3>3
  <2> QED
    BY <2>8, <2>10, <2>12, <2>13
<1> QED
  BY <1>1, RequestKept, PTL DEF Spec, FloorIsEarned

-----------------------------------------------------------------------------
(* What a decision says of itself                                          *)

(* A finite set of numbers has a least and a greatest member. *)
LEMMA Extremes ==
    ASSUME NEW S \in SUBSET Int, IsFiniteSet(S), S # {}
    PROVE  /\ \E m \in S : \A k \in S : m <= k
           /\ \E m \in S : \A k \in S : k <= m
<1>1. /\ Cardinality(S) \in Nat
      /\ Ascending(S) \in [1..Cardinality(S) -> S]
      /\ \A i \in S : \E k \in 1..Cardinality(S) : Ascending(S)[k] = i
      /\ \A k, h \in 1..Cardinality(S) : h < k <=> Ascending(S)[h] < Ascending(S)[k]
  BY AscendingEntries
<1> DEFINE n == Cardinality(S)
           f == Ascending(S)
<1> HIDE DEF n, f
<1>2. /\ n \in Nat /\ f \in [1..n -> S] /\ \A i \in S : \E k \in 1..n : f[k] = i
      /\ \A k, h \in 1..n : h < k <=> f[h] < f[k]
  BY <1>1 DEF n, f
<1>3. 1 \in 1..n /\ n \in 1..n
  <2>1. PICK k \in 1..n : TRUE
    BY <1>2
  <2> QED
    BY <1>2, <2>1
<1>4. ASSUME NEW i \in S PROVE f[1] <= i /\ i <= f[n]
  <2>1. PICK k \in 1..n : f[k] = i
    BY <1>2
  <2>2. ~(k < 1) /\ ~(n < k)
    BY <1>2
  <2>3. ~(i < f[1]) /\ ~(f[n] < i)
    BY <1>2, <1>3, <2>1, <2>2
  <2>4. i \in Int /\ f[1] \in Int /\ f[n] \in Int
    BY <1>2, <1>3
  <2> QED
    BY <2>3, <2>4
<1> QED
  BY <1>2, <1>3, <1>4

LEMMA ImageFinite ==
    ASSUME NEW S, IsFiniteSet(S), NEW f, NEW T, T = {f[x] : x \in S}
    PROVE  IsFiniteSet(T)
<1> DEFINE g == [x \in S |-> f[x]]
<1>1. g \in Surjection(S, T)
  BY DEF Surjection
<1> QED
  BY <1>1, FS_Surjection

(* The matches of a request: finitely many, with numbers. *)
KbInv(ms) == IsFiniteSet(ms) /\ \A m \in ms : m.mode \in Int /\ m.purity \in Int /\ m.score \in Int

LEMMA MatchedModes ==
    ASSUME NEW ms \in Modes, NEW x
    PROVE  KbInv(MatchModes(ms, x))
<1> DEFINE eligible == {m \in ms : ModeEligible(m, x)}
           first == {m \in eligible :
                        Cardinality({o \in eligible : ModeBefore(o, m, x)}) < ModeLimit}
           view(m) == [mode |-> m.mode, status |-> m.status, label |-> m.label, purity |-> m.purity,
                       support |-> m.support,
                       score |-> ScoreKb(IF m.cos = NoCos THEN 0 ELSE m.cos, m.jac, FpHit(m, x))]
           f == [m \in first |-> view(m)]
<1>1. IsFiniteSet(ms) /\ \A m \in ms : m.mode \in Int /\ m.purity \in Int /\ m.cos \in Int /\ m.jac \in Int
  BY AnalysisAssumption
<1>2. MatchModes(ms, x) = {view(m) : m \in first}
  BY DEF MatchModes
<1>3. first \in SUBSET ms
  OBVIOUS
<1> HIDE DEF first
<1>4. {view(m) : m \in first} = {f[m] : m \in first}
  OBVIOUS
<1>5. IsFiniteSet(first)
  BY <1>1, <1>3, FS_Subset
<1>6. IsFiniteSet({f[m] : m \in first})
  <2> HIDE DEF f
  <2> QED
    BY <1>5, ImageFinite
<1>7. ASSUME NEW m \in first PROVE view(m).mode \in Int /\ view(m).purity \in Int /\ view(m).score \in Int
  <2>1. m.mode \in Int /\ m.purity \in Int /\ m.cos \in Int /\ m.jac \in Int
    BY <1>1, <1>3
  <2>2. \A c \in Int, j \in Int, b \in BOOLEAN : ScoreKb(c, j, b) \in Int
    BY DEF ScoreKb
  <2>3. FpHit(m, x) \in BOOLEAN
    BY DEF FpHit
  <2> QED
    BY <2>1, <2>2, <2>3
<1> HIDE DEF view, f
<1>8. \A e \in {view(m) : m \in first} : e.mode \in Int /\ e.purity \in Int /\ e.score \in Int
  BY <1>7
<1> QED
  BY <1>2, <1>4, <1>6, <1>8 DEF KbInv

(* best_kb_match returns one of the matches. *)
LEMMA BestMatch ==
    ASSUME NEW ms, KbInv(ms), ms # {}
    PROVE  BestKb(ms) \in ms
<1> DEFINE sc == [m \in ms |-> m.score]
           S == {sc[m] : m \in ms}
<1>1. S \in SUBSET Int /\ S # {}
  BY DEF KbInv
<1>2. IsFiniteSet(S)
  <2> HIDE DEF sc
  <2> QED
    BY ImageFinite DEF KbInv
<1>3. PICK top \in S : \A k \in S : k <= top
  BY <1>1, <1>2, Extremes
<1> DEFINE best == {m \in ms : m.score = top}
           id == [m \in best |-> m.mode]
           T == {id[m] : m \in best}
<1>4. best \in SUBSET ms /\ best # {}
  OBVIOUS
<1>5. T \in SUBSET Int /\ T # {}
  BY <1>4 DEF KbInv
<1>6. IsFiniteSet(T)
  <2>1. IsFiniteSet(best)
    BY <1>4, FS_Subset DEF KbInv
  <2> HIDE DEF best, id
  <2> QED
    BY <2>1, ImageFinite
<1>7. PICK low \in T : \A k \in T : low <= k
  BY <1>5, <1>6, Extremes
<1>8. PICK k \in best : k.mode = low
  OBVIOUS
<1>9. \A o \in ms : o.score < k.score \/ (o.score = k.score /\ k.mode <= o.mode)
  <2> SUFFICES ASSUME NEW o \in ms PROVE o.score < k.score \/ (o.score = k.score /\ k.mode <= o.mode)
    OBVIOUS
  <2>1. o.score \in S /\ o.score \in Int /\ top \in Int /\ k.score = top
    BY DEF KbInv
  <2>2. o.score <= top
    BY <1>3, <2>1
  <2>3. CASE o.score = top
    <3>1. o.mode \in T
      BY <2>3
    <3> QED
      BY <1>7, <1>8, <2>1, <2>3, <3>1
  <2>4. CASE o.score # top
    BY <2>1, <2>2, <2>4
  <2> QED
    BY <2>3, <2>4
<1> QED
  BY <1>4, <1>9 DEF BestKb

(* The confidence of the kb stage. *)
LEMMA KbConfidence ==
    ASSUME NEW p \in Int, NEW c \in Int, p >= KbStrongPurity, c >= KbStrongScore
    PROVE  LET v == AtMost(KbConfidenceCap, (p * c) \div 100) IN v \in Int /\ v >= TauSuggest
<1>1. PICK a \in Nat : p = 95 + a
  <2>1. p - 95 \in Nat /\ p = 95 + (p - 95)
    BY DEF KbStrongPurity
  <2> QED
    BY <2>1
<1>2. PICK b \in Nat : c = 85 + b
  <2>1. c - 85 \in Nat /\ c = 85 + (c - 85)
    BY DEF KbStrongScore
  <2> QED
    BY <2>1
<1>3. a * b \in Nat
  OBVIOUS
<1>4. p * c = 8075 + 95 * b + 85 * a + a * b
  BY <1>1, <1>2
<1>5. PICK n \in Int : n = p * c /\ n >= 8075
  BY <1>3, <1>4
<1>6. n \div 100 \in Int /\ n \div 100 >= 45
  BY <1>5
<1> QED
  BY <1>5, <1>6 DEF AtMost, KbConfidenceCap, TauSuggest

(* A seed rule's confidence is a number. *)
LEMMA SeedConfidence ==
    ASSUME NEW x
    PROVE  SeedOf(x).conf \in Int
<1> DEFINE S == {i \in DOMAIN Catalog : RuleMatches(Catalog[i], x)}
           hits == Picked(Catalog, S)
<1>1. S \in SUBSET DOMAIN Catalog
  OBVIOUS
<1>2. SeedOf(x) = IF hits = <<>> THEN NoSeed ELSE [label |-> hits[1].label, conf |-> hits[1].conf]
  BY DEF SeedOf
<1> HIDE DEF S
<1>3. IsSeq(hits) /\ \A k \in DOMAIN hits : \E i \in S : hits[k] = Catalog[i]
  BY <1>1, AnalysisAssumption, PickedRange
<1> HIDE DEF hits
<1>4. hits # <<>> => 1 \in DOMAIN hits
  <2>1. Len(hits) \in Nat /\ DOMAIN hits = 1..Len(hits) /\ (hits # <<>> => DOMAIN hits # {})
    BY <1>3, SeqDomain, EmptyOrNot
  <2> QED
    BY <2>1
<1>5. hits # <<>> => hits[1].conf \in Int
  BY <1>1, <1>3, <1>4, AnalysisAssumption
<1> QED
  BY <1>2, <1>5 DEF NoSeed

(* A decision with a label is at or above the suggest threshold. *)
LEMMA DecidedConfidence ==
    ASSUME NEW x, NEW g \in Gbms, KbInv(kb), NEW d, d = Decided(x, g)
    PROVE  d.confidence \in Int /\ (d.label # "ti" => d.confidence >= TauSuggest)
<1> DEFINE ms == HashMatches(x, rows)
           sc == StageC(x, rows)
           from == Newest(DiscriminantFilter(x, ms))
           best == BestKb(kb)
           seed == SeedOf(x)
<1>1. d = Decide(x, ms, kb, seed, sc, g)
  BY DEF Decided
<1>2. g.prob \in Int /\ seed.conf \in Int
  BY AnalysisAssumption, SeedConfidence
<1> HIDE DEF ms, sc, from, best, seed
<1>3. \/ d = Result(BaseGroup(from.type), from.type, StageAConfidence, "hash", TRUE,
                    from.item, from.source, None, Unknown)
      \/ /\ KbDecides(kb)
         /\ d = Result(BaseGroup(best.label), best.label,
                       AtMost(KbConfidenceCap, (best.purity * best.score) \div 100),
                       "kb", TRUE, 0, None, None, Unknown)
      \/ d = GbmResult(x, sc, ExtractFeatures(x, ms, sc), g)
      \/ d = IF seed.conf >= SeedPriorMin
             THEN Result(seed.label, DefaultLocator(seed.label), seed.conf, "rule_cold",
                         FALSE, 0, None, None, Unknown)
             ELSE Abstain("rule_cold", 0, "no_confident_rule", Unknown)
  BY <1>1, DecideCases, ZenonT(40) DEF from, best
<1>4. CASE d = Result(BaseGroup(from.type), from.type, StageAConfidence, "hash", TRUE,
                      from.item, from.source, None, Unknown)
  BY <1>4 DEF Result, StageAConfidence, TauSuggest
<1>5. CASE /\ KbDecides(kb)
           /\ d = Result(BaseGroup(best.label), best.label,
                         AtMost(KbConfidenceCap, (best.purity * best.score) \div 100),
                         "kb", TRUE, 0, None, None, Unknown)
  <2>1. best \in kb /\ best.purity >= KbStrongPurity /\ best.score >= KbStrongScore
    BY <1>5, BestMatch DEF KbDecides, best
  <2>2. best.purity \in Int /\ best.score \in Int
    BY <2>1 DEF KbInv
  <2> DEFINE v == AtMost(KbConfidenceCap, (best.purity * best.score) \div 100)
  <2>3. v \in Int /\ v >= TauSuggest
    BY <2>1, <2>2, KbConfidence
  <2>4. d.confidence = v
    BY <1>5 DEF Result
  <2> QED
    BY <2>3, <2>4
<1>6. CASE d = GbmResult(x, sc, ExtractFeatures(x, ms, sc), g)
  <2> DEFINE f == ExtractFeatures(x, ms, sc)
  <2> HIDE DEF f
  <2>1. d = GbmResult(x, sc, f, g)
    BY <1>6 DEF f
  <2>2. CASE g.prob < TauSuggest
    BY <1>2, <2>1, <2>2 DEF GbmResult, Result, Abstain, TauSuggest
  <2>3. CASE g.prob >= TauSuggest
    BY <1>2, <2>1, <2>3 DEF GbmResult, Result, Abstain, TauSuggest
  <2> QED
    BY <1>2, <2>2, <2>3 DEF TauSuggest
<1>7. CASE d = IF seed.conf >= SeedPriorMin
               THEN Result(seed.label, DefaultLocator(seed.label), seed.conf, "rule_cold",
                           FALSE, 0, None, None, Unknown)
               ELSE Abstain("rule_cold", 0, "no_confident_rule", Unknown)
  BY <1>2, <1>7 DEF Result, Abstain, SeedPriorMin, TauSuggest
<1> QED
  BY <1>3, <1>4, <1>5, <1>6, <1>7

(* What the reply is rendered from: a list of candidates, each item once,  *)
(* and a decision that has a label only with the confidence for one.       *)
DecisionInv ==
    /\ phase = "retrieved" => KbInv(kb)
    /\ phase = "decided" =>
          /\ Listing(rows) /\ \A k \in DOMAIN rows : rows[k].cos \in Int
          /\ decision.confidence \in Int
          /\ decision.label # "ti" => decision.confidence >= TauSuggest

LEMMA DecisionKept == Spec => []DecisionInv
<1>1. Init => DecisionInv
  BY DEF Init, DecisionInv
<1>2. RequestInv /\ DecisionInv /\ [Next]_vars => DecisionInv'
  <2> SUFFICES ASSUME RequestInv, DecisionInv, [Next]_vars PROVE DecisionInv'
    OBVIOUS
  <2>1. CASE Ask
    <3>1. PICK ms \in Modes : \E x : kb' = MatchModes(ms, x)
      BY <2>1 DEF Ask
    <3>2. KbInv(kb')
      BY <3>1, MatchedModes
    <3>3. phase' = "retrieved"
      BY <2>1 DEF Ask
    <3> QED
      BY <3>2, <3>3 DEF DecisionInv, KbInv
  <2>2. CASE DecideItem
    <3>1. /\ phase = "retrieved" /\ phase' = "decided" /\ rows' = StageC(q, rows)
          /\ \E g \in Gbms : decision' = Decided(q, g)
      BY <2>2 DEF DecideItem
    <3>2. PICK g \in Gbms : decision' = Decided(q, g)
      BY <3>1
    <3>3. /\ decision'.confidence \in Int
          /\ decision'.label # "ti" => decision'.confidence >= TauSuggest
      BY <3>1, <3>2, DecidedConfidence DEF DecisionInv
    <3>4. Candidates(rows', rows)
      <4>1. IsHistory(rows) /\ SameEntries(rows, rows)
        BY <3>1 DEF RequestInv, SameEntries
      <4> QED
        BY <3>1, <4>1, StageCRows
    <3>5. Listing(rows') /\ \A k \in DOMAIN rows' : rows'[k].cos \in Int
      BY <3>4 DEF Candidates
    <3> QED
      BY <3>1, <3>3, <3>5 DEF DecisionInv, KbInv, Listing
  <2>3. CASE Answer
    BY <2>3 DEF Answer, DecisionInv
  <2>4. CASE Search
    BY <2>4 DEF Search, DecisionInv
  <2>5. CASE AskLaunch
    BY <2>5 DEF AskLaunch, DecisionInv
  <2>6. CASE Done
    BY <2>6 DEF Done, DecisionInv
  <2>7. CASE UNCHANGED vars
    BY <2>7 DEF vars, DecisionInv, KbInv, Listing
  <2> QED
    BY <2>1, <2>2, <2>3, <2>4, <2>5, <2>6, <2>7 DEF Next
<1> QED
  BY <1>1, <1>2, RequestKept, PTL DEF Spec

-----------------------------------------------------------------------------
(* The suggest reply                                                       *)

(* One list after another. *)
LEMMA Concatenated ==
    ASSUME NEW a, IsSeq(a), NEW b, IsSeq(b)
    PROVE  /\ IsSeq(a \o b)
           /\ DOMAIN (a \o b) = 1..(Len(a) + Len(b))
           /\ \A k \in DOMAIN a : k \in DOMAIN (a \o b) /\ (a \o b)[k] = a[k]
           /\ \A k \in DOMAIN (a \o b) : k \notin DOMAIN a =>
                 k - Len(a) \in DOMAIN b /\ (a \o b)[k] = b[k - Len(a)]
<1> DEFINE T == Range(a) \cup Range(b)
<1>1. /\ Len(a) \in Nat /\ DOMAIN a = 1..Len(a) /\ Len(b) \in Nat /\ DOMAIN b = 1..Len(b)
  BY SeqDomain
<1>2. a \in Seq(T) /\ b \in Seq(T)
  BY DEF IsSeq
<1> HIDE DEF T
<1>3. /\ a \o b \in Seq(T) /\ Len(a \o b) = Len(a) + Len(b)
      /\ \A k \in 1..Len(a) + Len(b) : (a \o b)[k] = IF k <= Len(a) THEN a[k] ELSE b[k - Len(a)]
  BY <1>2, ConcatProperties
<1>4. IsSeq(a \o b)
  BY <1>3, SeqOverSet
<1>5. DOMAIN (a \o b) = 1..(Len(a) + Len(b))
  BY <1>1, <1>3, LenProperties
<1>6. ASSUME NEW k \in 1..(Len(a) + Len(b)), k \notin 1..Len(a)
      PROVE  k - Len(a) \in 1..Len(b) /\ ~(k <= Len(a))
  BY <1>1, <1>6
<1>7. \A k \in 1..Len(a) : k \in 1..(Len(a) + Len(b)) /\ k <= Len(a)
  BY <1>1
<1> QED
  BY <1>1, <1>3, <1>4, <1>5, <1>6, <1>7

(* Listings with nothing in common. *)
LEMMA ConcatListing ==
    ASSUME NEW a, Listing(a), NEW b, Listing(b),
           \A i \in DOMAIN a, j \in DOMAIN b : a[i].item # b[j].item
    PROVE  Listing(a \o b)
<1>1. IsSeq(a) /\ IsSeq(b)
  BY DEF Listing
<1>2. Len(a) \in Nat /\ DOMAIN a \subseteq Int /\ DOMAIN b \subseteq Int
  BY <1>1, SeqDomain
<1>3. /\ IsSeq(a \o b)
      /\ \A k \in DOMAIN a : k \in DOMAIN (a \o b) /\ (a \o b)[k] = a[k]
      /\ \A k \in DOMAIN (a \o b) : k \notin DOMAIN a =>
            k - Len(a) \in DOMAIN b /\ (a \o b)[k] = b[k - Len(a)]
  BY <1>1, Concatenated
<1>4. DOMAIN (a \o b) \subseteq Int
  BY <1>3, SeqDomain
<1>5. ASSUME NEW i \in DOMAIN (a \o b), NEW j \in DOMAIN (a \o b), (a \o b)[i].item = (a \o b)[j].item
      PROVE  i = j
  <2>1. CASE i \in DOMAIN a /\ j \in DOMAIN a
    BY <1>3, <1>5, <2>1 DEF Listing
  <2>2. CASE i \notin DOMAIN a /\ j \notin DOMAIN a
    <3>1. i - Len(a) = j - Len(a)
      BY <1>3, <1>5, <2>2 DEF Listing
    <3> QED
      BY <1>2, <1>4, <3>1
  <2>3. CASE i \in DOMAIN a /\ j \notin DOMAIN a
    BY <1>3, <1>5, <2>3
  <2>4. CASE i \notin DOMAIN a /\ j \in DOMAIN a
    BY <1>3, <1>5, <2>4
  <2> QED
    BY <2>1, <2>2, <2>3, <2>4
<1> QED
  BY <1>3, <1>5 DEF Listing

(* The empty list and a list of one. *)
LEMMA EmptyListing ==
    ASSUME NEW s, s = <<>>
    PROVE  Listing(s) /\ DOMAIN s = {} /\ Len(s) = 0
BY DEF Listing, IsSeq

LEMMA OneListing ==
    ASSUME NEW x
    PROVE  Listing(<<x>>) /\ DOMAIN <<x>> = {1} /\ <<x>>[1] = x /\ Len(<<x>>) = 1
<1>1. <<x>> \in Seq({x})
  OBVIOUS
<1>2. IsSeq(<<x>>)
  BY <1>1, SeqOverSet
<1>3. DOMAIN <<x>> = {1} /\ <<x>>[1] = x /\ Len(<<x>>) = 1
  BY <1>1, LenProperties
<1> QED
  BY <1>2, <1>3 DEF Listing

(* The order the entries of a list stand in. *)
InOrder(s, Q) == \A h, k \in DOMAIN s : h < k => <<s[h], s[k]>> \in Q

OrderOf(s) == {p \in Range(s) \X Range(s) :
                  \E i, j \in DOMAIN s : i < j /\ s[i] = p[1] /\ s[j] = p[2]}

LEMMA PickedInOrder ==
    ASSUME NEW s, IsSeq(s), NEW Q, InOrder(s, Q), NEW S \in SUBSET DOMAIN s
    PROVE  InOrder(Picked(s, S), Q)
<1>1. PICK at_ \in [DOMAIN Picked(s, S) -> S] :
        /\ \A k \in DOMAIN Picked(s, S) : Picked(s, S)[k] = s[at_[k]]
        /\ \A k, h \in DOMAIN Picked(s, S) : h < k <=> at_[h] < at_[k]
  BY PickedEntries
<1>2. ASSUME NEW h \in DOMAIN Picked(s, S), NEW k \in DOMAIN Picked(s, S), h < k
      PROVE  <<Picked(s, S)[h], Picked(s, S)[k]>> \in Q
  <2>1. at_[h] \in DOMAIN s /\ at_[k] \in DOMAIN s /\ at_[h] < at_[k]
    BY <1>1, <1>2
  <2>2. <<s[at_[h]], s[at_[k]]>> \in Q
    BY <2>1 DEF InOrder
  <2> QED
    BY <1>1, <2>2
<1> QED
  BY <1>2 DEF InOrder

LEMMA OwnOrder ==
    ASSUME NEW s, Listing(s)
    PROVE  /\ InOrder(s, OrderOf(s))
           /\ \A p, r : ~(<<p, r>> \in OrderOf(s) /\ <<r, p>> \in OrderOf(s))
<1>1. DOMAIN s \subseteq Int /\ IsSeq(s)
  BY SeqDomain DEF Listing
<1>2. InOrder(s, OrderOf(s))
  BY DEF InOrder, OrderOf, Range
<1>3. ASSUME NEW p, NEW r, <<p, r>> \in OrderOf(s), <<r, p>> \in OrderOf(s) PROVE FALSE
  <2>1. PICK i, j \in DOMAIN s : i < j /\ s[i] = p /\ s[j] = r
    BY <1>3 DEF OrderOf
  <2>2. PICK k, l \in DOMAIN s : k < l /\ s[k] = r /\ s[l] = p
    BY <1>3 DEF OrderOf
  <2>3. i = l /\ j = k
    BY <2>1, <2>2 DEF Listing
  <2>4. i \in Int /\ j \in Int
    BY <1>1
  <2> QED
    BY <2>1, <2>2, <2>3, <2>4
<1> QED
  BY <1>2, <1>3

(* Listings of the same entries in one asymmetric order are equal. *)
LEMMA SameInOrder ==
    ASSUME NEW u, IsSeq(u), NEW v, IsSeq(v), SameEntries(u, v), NEW Q,
           InOrder(u, Q), InOrder(v, Q),
           \A p, r : ~(<<p, r>> \in Q /\ <<r, p>> \in Q)
    PROVE  u = v
<1>1. \A h, k \in DOMAIN u : ~(<<u[h], u[k]>> \in Q /\ <<u[k], u[h]>> \in Q)
  OBVIOUS
<1>2. /\ \A h, k \in DOMAIN u : h < k => <<u[h], u[k]>> \in Q
      /\ \A h, k \in DOMAIN v : h < k => <<v[h], v[k]>> \in Q
  BY DEF InOrder
<1>3. /\ \A i \in DOMAIN u : \E j \in DOMAIN v : u[i] = v[j]
      /\ \A j \in DOMAIN v : \E i \in DOMAIN u : v[j] = u[i]
  BY DEF SameEntries
<1> QED
  BY <1>1, <1>2, <1>3, OneOrder

(* The order of the rows of s once the judge has chosen: the chosen row    *)
(* first, unless the decision is automatic, and the others as they were.   *)
Judged(s, d, chosen) ==
    {p \in Range(s) \X Range(s) :
        \/ d.action # "auto" /\ p[1].item = chosen /\ p[2].item # chosen
        \/ /\ d.action = "auto" \/ (p[1].item # chosen /\ p[2].item # chosen)
           /\ p \in OrderOf(s)}

LEMMA JudgedOrder ==
    ASSUME NEW s, Listing(s), NEW d, NEW chosen
    PROVE  \A p, r : ~(<<p, r>> \in Judged(s, d, chosen) /\ <<r, p>> \in Judged(s, d, chosen))
<1>1. \A p, r : ~(<<p, r>> \in OrderOf(s) /\ <<r, p>> \in OrderOf(s))
  BY OwnOrder
<1> SUFFICES ASSUME NEW p, NEW r, <<p, r>> \in Judged(s, d, chosen), <<r, p>> \in Judged(s, d, chosen)
             PROVE  FALSE
  OBVIOUS
<1>2. \/ d.action # "auto" /\ p.item = chosen /\ r.item # chosen
      \/ /\ d.action = "auto" \/ (p.item # chosen /\ r.item # chosen)
         /\ <<p, r>> \in OrderOf(s)
  BY DEF Judged
<1>3. \/ d.action # "auto" /\ r.item = chosen /\ p.item # chosen
      \/ /\ d.action = "auto" \/ (r.item # chosen /\ p.item # chosen)
         /\ <<r, p>> \in OrderOf(s)
  BY DEF Judged
<1> QED
  BY <1>1, <1>2, <1>3

(* _reorder_for_judge keeps the rows and puts them in that order. *)
LEMMA ReorderedRows ==
    ASSUME NEW s, Listing(s), NEW t, Listing(t), InOrder(t, OrderOf(s)),
           \A k \in DOMAIN t : t[k] \in Range(s), NEW d, NEW chosen
    PROVE  /\ Listing(Reordered(t, d, chosen)) /\ SameEntries(Reordered(t, d, chosen), t)
           /\ InOrder(Reordered(t, d, chosen), Judged(s, d, chosen))
<1> DEFINE r == Reordered(t, d, chosen)
           Q == Judged(s, d, chosen)
           top == {i \in DOMAIN t : /\ t[i].item = chosen
                                    /\ \A j \in DOMAIN t : t[j].item = chosen => i <= j}
           rest == DOMAIN t \ top
           a == Picked(t, top)
           b == Picked(t, rest)
<1>1. IsSeq(t) /\ DOMAIN t \subseteq Int
  BY SeqDomain DEF Listing
<1>2. \A i \in DOMAIN t : i \in top <=> t[i].item = chosen
  <2> SUFFICES ASSUME NEW i \in DOMAIN t, t[i].item = chosen, NEW j \in DOMAIN t, t[j].item = chosen
               PROVE  i <= j
    OBVIOUS
  <2>1. i = j /\ i \in Int
    BY <1>1 DEF Listing
  <2> QED
    BY <2>1
<1>3. r = IF d.action = "auto" \/ top = {} THEN t ELSE a \o b
  BY DEF Reordered
<1>4. top \in SUBSET DOMAIN t /\ rest \in SUBSET DOMAIN t
  OBVIOUS
<1> HIDE DEF top, r
<1>5. \A e, f \in Range(s) : <<e, f>> \in Q <=>
         \/ d.action # "auto" /\ e.item = chosen /\ f.item # chosen
         \/ /\ d.action = "auto" \/ (e.item # chosen /\ f.item # chosen)
            /\ <<e, f>> \in OrderOf(s)
  BY DEF Judged
<1> HIDE DEF Q
<1>6. CASE d.action = "auto" \/ top = {}
  <2>1. r = t
    BY <1>3, <1>6
  <2>2. ASSUME NEW h \in DOMAIN t, NEW k \in DOMAIN t, h < k PROVE <<t[h], t[k]>> \in Q
    <3>1. <<t[h], t[k]>> \in OrderOf(s)
      BY <2>2 DEF InOrder
    <3>2. d.action = "auto" \/ (t[h].item # chosen /\ t[k].item # chosen)
      BY <1>2, <1>6
    <3> QED
      BY <1>5, <3>1, <3>2
  <2>3. InOrder(r, Q)
    BY <2>1, <2>2 DEF InOrder
  <2>4. SameEntries(r, t)
    BY <2>1 DEF SameEntries
  <2> QED
    BY <2>1, <2>3, <2>4 DEF r, Q
<1>7. CASE d.action # "auto" /\ top # {}
  <2>1. r = a \o b
    BY <1>3, <1>7
  <2>2. /\ Listing(a)
        /\ \A k \in DOMAIN a : \E i \in top : a[k] = t[i]
        /\ \A i \in top : \E k \in DOMAIN a : a[k] = t[i]
    BY <1>4, PickedListing
  <2>3. /\ Listing(b)
        /\ \A k \in DOMAIN b : \E i \in rest : b[k] = t[i]
        /\ \A i \in rest : \E k \in DOMAIN b : b[k] = t[i]
    BY <1>4, PickedListing
  <2>4. InOrder(b, OrderOf(s))
    BY <1>1, <1>4, PickedInOrder
  <2> HIDE DEF a, b
  <2>5. \A k \in DOMAIN a : a[k].item = chosen /\ a[k] \in Range(s)
    BY <1>2, <1>4, <2>2
  <2>6. \A k \in DOMAIN b : b[k].item # chosen /\ b[k] \in Range(s)
    BY <1>2, <1>4, <2>3
  <2>7. IsSeq(a) /\ IsSeq(b)
    BY <2>2, <2>3 DEF Listing
  <2>8. /\ DOMAIN a \subseteq Int /\ DOMAIN b \subseteq Int /\ Len(a) \in Nat /\ DOMAIN a = 1..Len(a)
        /\ Len(b) \in Nat /\ DOMAIN b = 1..Len(b)
    BY <2>7, SeqDomain
  <2>9. /\ IsSeq(r) /\ DOMAIN r = 1..(Len(a) + Len(b))
        /\ \A k \in DOMAIN a : k \in DOMAIN r /\ r[k] = a[k]
        /\ \A k \in DOMAIN r : k \notin DOMAIN a => k - Len(a) \in DOMAIN b /\ r[k] = b[k - Len(a)]
    BY <2>1, <2>7, Concatenated
  <2>10. Listing(r)
    BY <2>1, <2>2, <2>3, <2>5, <2>6, ConcatListing
  <2>11. ASSUME NEW h \in DOMAIN r, NEW k \in DOMAIN r, h < k PROVE <<r[h], r[k]>> \in Q
    <3>1. h \in Int /\ k \in Int
      BY <2>8, <2>9
    <3>2. CASE h \in DOMAIN a /\ k \in DOMAIN a
      <4>1. a[h].item = a[k].item
        BY <2>5, <3>2
      <4>2. h = k
        BY <2>2, <3>2, <4>1 DEF Listing
      <4> QED
        BY <2>11, <3>1, <4>2
    <3>3. CASE h \in DOMAIN a /\ k \notin DOMAIN a
      BY <1>5, <1>7, <2>5, <2>6, <2>9, <3>3
    <3>4. CASE h \notin DOMAIN a /\ k \notin DOMAIN a
      <4>1. /\ h - Len(a) \in DOMAIN b /\ k - Len(a) \in DOMAIN b
            /\ r[h] = b[h - Len(a)] /\ r[k] = b[k - Len(a)]
        BY <2>9, <3>4
      <4>2. h - Len(a) < k - Len(a)
        BY <2>8, <2>11, <3>1
      <4>3. <<r[h], r[k]>> \in OrderOf(s)
        BY <2>4, <4>1, <4>2 DEF InOrder
      <4> QED
        BY <1>5, <2>6, <4>1, <4>3
    <3>5. CASE h \notin DOMAIN a /\ k \in DOMAIN a
      BY <2>8, <2>9, <2>11, <3>1, <3>5
    <3> QED
      BY <3>2, <3>3, <3>4, <3>5
  <2>12. ASSUME NEW k \in DOMAIN r PROVE \E i \in DOMAIN t : r[k] = t[i]
    BY <1>4, <2>2, <2>3, <2>9
  <2>13. ASSUME NEW i \in DOMAIN t PROVE \E k \in DOMAIN r : t[i] = r[k]
    <3>1. CASE i \in top
      BY <2>2, <2>9, <3>1
    <3>2. CASE i \notin top
      <4>1. PICK k \in DOMAIN b : b[k] = t[i]
        BY <2>3, <3>2
      <4>2. k + Len(a) \in DOMAIN r /\ k + Len(a) \notin DOMAIN a /\ (k + Len(a)) - Len(a) = k
        BY <2>8, <2>9
      <4> QED
        BY <2>9, <4>1, <4>2
    <3> QED
      BY <3>1, <3>2
  <2>14. SameEntries(r, t)
    BY <2>12, <2>13 DEF SameEntries
  <2>15. InOrder(r, Q)
    BY <2>11 DEF InOrder
  <2> QED
    BY <2>10, <2>14, <2>15 DEF r, Q
<1> QED
  BY <1>6, <1>7

(* The rows a score away from a threshold. *)
LEMMA AtLeastRows ==
    ASSUME NEW s, Listing(s), NEW c
    PROVE  /\ Listing(AtLeast(s, c))
           /\ \A k \in DOMAIN AtLeast(s, c) : \E i \in DOMAIN s : AtLeast(s, c)[k] = s[i] /\ s[i].score >= c
           /\ \A i \in DOMAIN s : s[i].score >= c => \E k \in DOMAIN AtLeast(s, c) : AtLeast(s, c)[k] = s[i]
           /\ \A Q : InOrder(s, Q) => InOrder(AtLeast(s, c), Q)
<1> DEFINE S == {i \in DOMAIN s : s[i].score >= c}
<1>1. AtLeast(s, c) = Picked(s, S)
  BY DEF AtLeast
<1>2. S \in SUBSET DOMAIN s /\ \A i \in DOMAIN s : i \in S <=> s[i].score >= c
  OBVIOUS
<1> HIDE DEF S
<1>3. /\ Listing(Picked(s, S))
      /\ \A k \in DOMAIN Picked(s, S) : \E i \in S : Picked(s, S)[k] = s[i]
      /\ \A i \in S : \E k \in DOMAIN Picked(s, S) : Picked(s, S)[k] = s[i]
  BY <1>2, PickedListing
<1>4. ASSUME NEW Q, InOrder(s, Q) PROVE InOrder(Picked(s, S), Q)
  BY <1>2, <1>4, PickedInOrder DEF Listing
<1> QED
  BY <1>1, <1>2, <1>3, <1>4

LEMMA UnderRows ==
    ASSUME NEW s, Listing(s), NEW c
    PROVE  /\ Listing(Under(s, c))
           /\ \A k \in DOMAIN Under(s, c) : \E i \in DOMAIN s : Under(s, c)[k] = s[i] /\ s[i].score < c
<1> DEFINE S == {i \in DOMAIN s : s[i].score < c}
<1>1. Under(s, c) = Picked(s, S)
  BY DEF Under
<1>2. S \in SUBSET DOMAIN s /\ \A i \in S : s[i].score < c
  OBVIOUS
<1> HIDE DEF S
<1>3. /\ Listing(Picked(s, S))
      /\ \A k \in DOMAIN Picked(s, S) : \E i \in S : Picked(s, S)[k] = s[i]
  BY <1>2, PickedListing
<1> QED
  BY <1>1, <1>2, <1>3

(* What suggest has to choose from: each item once, with its score. *)
LEMMA SuggestionListing ==
    ASSUME NEW s, Listing(s), \A k \in DOMAIN s : s[k].cos \in Int, NEW d, d.confidence \in Int
    PROVE  /\ Listing(SuggestionRows(d, s))
           /\ \A k \in DOMAIN SuggestionRows(d, s) : SuggestionRows(d, s)[k].score \in Int
<1> DEFINE own == IF d.label # "ti" /\ d.relevant # 0
                  THEN <<[type |-> d.type, item |-> d.relevant, score |-> d.confidence,
                          source |-> Provenance(d.source)]>>
                  ELSE <<>>
           S == {i \in DOMAIN s : ~(own # <<>> /\ s[i].item = own[1].item)}
           others == Picked(s, S)
           shown == [i \in DOMAIN others |->
                       [type |-> others[i].type, item |-> others[i].item, score |-> others[i].cos,
                        source |-> Provenance(others[i].source)]]
<1>1. SuggestionRows(d, s) = own \o shown
  BY DEF SuggestionRows
<1>2. Listing(own) /\ \A k \in DOMAIN own : own[k].score \in Int /\ own # <<>> /\ own[k].item = own[1].item
  <2>1. CASE d.label # "ti" /\ d.relevant # 0
    <3> DEFINE x == [type |-> d.type, item |-> d.relevant, score |-> d.confidence,
                     source |-> Provenance(d.source)]
    <3>1. own = <<x>> /\ x.score \in Int
      BY <2>1
    <3> HIDE DEF x, own
    <3>2. own # <<>>
      BY <3>1
    <3> QED
      BY <3>1, <3>2, OneListing
  <2>2. CASE ~(d.label # "ti" /\ d.relevant # 0)
    <3>1. own = <<>>
      BY <2>2
    <3> HIDE DEF own
    <3> QED
      BY <3>1, EmptyListing
  <2> QED
    BY <2>1, <2>2
<1> HIDE DEF own
<1>3. S \in SUBSET DOMAIN s /\ \A i \in S : ~(own # <<>> /\ s[i].item = own[1].item)
  OBVIOUS
<1> HIDE DEF S
<1>4. Listing(others) /\ \A k \in DOMAIN others : \E i \in S : others[k] = s[i]
  BY <1>3, PickedListing
<1>5. \A k \in DOMAIN others : others[k].cos \in Int /\ ~(own # <<>> /\ others[k].item = own[1].item)
  BY <1>3, <1>4
<1> HIDE DEF others
<1>6. /\ DOMAIN shown = DOMAIN others /\ shown = [k \in DOMAIN others |-> shown[k]]
      /\ \A k \in DOMAIN others : shown[k].item = others[k].item /\ shown[k].score = others[k].cos
  OBVIOUS
<1> HIDE DEF shown
<1>7. Listing(shown)
  BY <1>4, <1>6, MappedListing
<1>8. \A i \in DOMAIN own, j \in DOMAIN shown : own[i].item # shown[j].item
  BY <1>2, <1>5, <1>6
<1>9. Listing(own \o shown)
  BY <1>2, <1>7, <1>8, ConcatListing
<1>10. IsSeq(own) /\ IsSeq(shown)
  BY <1>2, <1>7 DEF Listing
<1>11. ASSUME NEW k \in DOMAIN (own \o shown) PROVE (own \o shown)[k].score \in Int
  <2>1. CASE k \in DOMAIN own
    BY <1>2, <1>10, <2>1, Concatenated
  <2>2. CASE k \notin DOMAIN own
    <3>1. k - Len(own) \in DOMAIN shown /\ (own \o shown)[k] = shown[k - Len(own)]
      BY <1>10, <2>2, Concatenated
    <3> QED
      BY <1>5, <1>6, <3>1
  <2> QED
    BY <2>1, <2>2
<1> QED
  BY <1>1, <1>9, <1>11

(* The declined hypothesis: none, or one row under the threshold about an  *)
(* item that is not in the reply.                                          *)
LEMMA DeclinedRow ==
    ASSUME NEW d, d.confidence \in Int, NEW g, NEW s, Listing(s), NEW used
    PROVE  /\ Listing(Declined(d, g, s, used))
           /\ \A k \in DOMAIN Declined(d, g, s, used) :
                 /\ Declined(d, g, s, used)[k].score \in Int
                 /\ Declined(d, g, s, used)[k].score < TauSuggest
                 /\ Declined(d, g, s, used)[k].item \notin used
<1> DEFINE S == {i \in DOMAIN s : s[i].item \notin used /\ BaseGroup(s[i].type) = g.label}
           fit == Picked(s, S)
           x == [type |-> fit[1].type, item |-> fit[1].item, score |-> d.confidence,
                 source |-> Provenance(fit[1].source)]
           said == /\ d.reason = "gbm_below_suggest"
                   /\ BelowFloor <= d.confidence /\ d.confidence < TauSuggest
                   /\ fit # <<>>
           r == Declined(d, g, s, used)
<1>1. r = IF said THEN <<x>> ELSE <<>>
  BY DEF Declined
<1>2. S \in SUBSET DOMAIN s /\ \A i \in S : s[i].item \notin used
  OBVIOUS
<1> HIDE DEF S, r
<1>3. IsSeq(fit) /\ \A k \in DOMAIN fit : \E i \in S : fit[k] = s[i]
  BY <1>2, PickedListing DEF Listing
<1> HIDE DEF fit
<1>4. CASE said
  <2>1. fit # <<>> /\ x.score \in Int /\ x.score < TauSuggest
    BY <1>4
  <2>2. 1 \in DOMAIN fit
    <3>1. Len(fit) \in Nat /\ DOMAIN fit = 1..Len(fit) /\ DOMAIN fit # {}
      BY <1>3, <2>1, SeqDomain, EmptyOrNot
    <3> QED
      BY <3>1
  <2>3. x.item \notin used
    BY <1>2, <1>3, <2>2
  <2>4. r = <<x>>
    BY <1>1, <1>4
  <2> HIDE DEF x
  <2> QED
    BY <2>1, <2>3, <2>4, OneListing DEF r
<1>5. CASE ~said
  <2>1. r = <<>>
    BY <1>1, <1>5
  <2> QED
    BY <2>1, EmptyListing DEF r
<1> QED
  BY <1>4, <1>5

(* The rows at or above a threshold of a list that has them first. *)
LEMMA AtLeastConcat ==
    ASSUME NEW a, NEW b, Listing(a \o b), IsSeq(a), IsSeq(b), NEW c \in Int,
           \A i \in DOMAIN a : a[i].score \in Int /\ a[i].score >= c,
           \A j \in DOMAIN b : b[j].score \in Int /\ b[j].score < c
    PROVE  AtLeast(a \o b, c) = a
<1> DEFINE s == a \o b
           u == AtLeast(s, c)
           Q == OrderOf(s)
<1>1. /\ \A k \in DOMAIN a : k \in DOMAIN s /\ s[k] = a[k]
      /\ \A k \in DOMAIN s : k \notin DOMAIN a => k - Len(a) \in DOMAIN b /\ s[k] = b[k - Len(a)]
  BY Concatenated
<1> HIDE DEF s
<1>2. Listing(s)
  BY DEF s
<1>3. InOrder(s, Q) /\ \A p, r : ~(<<p, r>> \in Q /\ <<r, p>> \in Q)
  BY <1>2, OwnOrder
<1> HIDE DEF Q
<1>4. /\ IsSeq(u)
      /\ \A k \in DOMAIN u : \E i \in DOMAIN s : u[k] = s[i] /\ s[i].score >= c
      /\ \A i \in DOMAIN s : s[i].score >= c => \E k \in DOMAIN u : u[k] = s[i]
      /\ InOrder(u, Q)
  BY <1>2, <1>3, AtLeastRows DEF Listing
<1>5. InOrder(a, Q)
  BY <1>1, <1>3 DEF InOrder
<1>6. \A i \in DOMAIN s : s[i].score >= c => i \in DOMAIN a
  BY <1>1
<1> HIDE DEF u
<1>7. SameEntries(u, a)
  BY <1>1, <1>4, <1>6 DEF SameEntries
<1>8. u = a
  BY <1>3, <1>4, <1>5, <1>7, SameInOrder
<1> QED
  BY <1>8 DEF u, s

(* A prefix that is cut off where the list ends, and the empty list's. *)
LEMMA EmptyPrefix ==
    ASSUME NEW s, s = <<>>, NEW n \in Int
    PROVE  Prefix(s, n) = <<>>
<1>1. IsSeq(s) /\ DOMAIN s = {}
  BY EmptyListing DEF Listing
<1>2. IsSeq(Prefix(s, n)) /\ DOMAIN Prefix(s, n) = {k \in DOMAIN s : k <= n}
  BY <1>1, PrefixEntries
<1> QED
  BY <1>1, <1>2, EmptyOrNot

(* The rows that may be suggested are the same with the dock and without,  *)
(* in the same order, whatever the judge chose.                            *)
LEMMA SuggestedSame ==
    ASSUME NEW s, Listing(s), \A k \in DOMAIN s : s[k].score \in Int, NEW d, NEW chosen
    PROVE  AtLeast(Reordered(AtLeast(s, BelowFloor), d, chosen), TauSuggest)
             = AtLeast(Reordered(AtLeast(s, TauSuggest), d, chosen), TauSuggest)
<1> DEFINE Q == Judged(s, d, chosen)
           more == AtLeast(s, BelowFloor)
           less == AtLeast(s, TauSuggest)
           rm == Reordered(more, d, chosen)
           rl == Reordered(less, d, chosen)
           u == AtLeast(rm, TauSuggest)
           v == AtLeast(rl, TauSuggest)
<1>1. InOrder(s, OrderOf(s)) /\ \A k \in DOMAIN s : s[k] \in Range(s)
  BY OwnOrder DEF Range
<1>2. /\ Listing(more) /\ InOrder(more, OrderOf(s))
      /\ \A k \in DOMAIN more : \E i \in DOMAIN s : more[k] = s[i]
      /\ \A i \in DOMAIN s : s[i].score >= BelowFloor => \E k \in DOMAIN more : more[k] = s[i]
  BY <1>1, AtLeastRows
<1>3. /\ Listing(less) /\ InOrder(less, OrderOf(s))
      /\ \A k \in DOMAIN less : \E i \in DOMAIN s : less[k] = s[i] /\ s[i].score >= TauSuggest
      /\ \A i \in DOMAIN s : s[i].score >= TauSuggest => \E k \in DOMAIN less : less[k] = s[i]
  BY <1>1, AtLeastRows
<1> HIDE DEF more, less, Q
<1>4. Listing(rm) /\ SameEntries(rm, more) /\ InOrder(rm, Q)
  <2>1. \A k \in DOMAIN more : more[k] \in Range(s)
    BY <1>1, <1>2
  <2> QED
    BY <1>2, <2>1, ReorderedRows DEF Q
<1>5. Listing(rl) /\ SameEntries(rl, less) /\ InOrder(rl, Q)
  <2>1. \A k \in DOMAIN less : less[k] \in Range(s)
    BY <1>1, <1>3
  <2> QED
    BY <1>3, <2>1, ReorderedRows DEF Q
<1> HIDE DEF rm, rl
<1>6. /\ IsSeq(u) /\ InOrder(u, Q)
      /\ \A k \in DOMAIN u : \E i \in DOMAIN rm : u[k] = rm[i] /\ rm[i].score >= TauSuggest
      /\ \A i \in DOMAIN rm : rm[i].score >= TauSuggest => \E k \in DOMAIN u : u[k] = rm[i]
  BY <1>4, AtLeastRows DEF Listing
<1>7. /\ IsSeq(v) /\ InOrder(v, Q)
      /\ \A k \in DOMAIN v : \E i \in DOMAIN rl : v[k] = rl[i] /\ rl[i].score >= TauSuggest
      /\ \A i \in DOMAIN rl : rl[i].score >= TauSuggest => \E k \in DOMAIN v : v[k] = rl[i]
  BY <1>5, AtLeastRows DEF Listing
<1> HIDE DEF u, v
<1>8. ASSUME NEW k \in DOMAIN u PROVE \E j \in DOMAIN v : u[k] = v[j]
  <2>1. PICK i \in DOMAIN rm : u[k] = rm[i] /\ rm[i].score >= TauSuggest
    BY <1>6
  <2>2. PICK a \in DOMAIN more : rm[i] = more[a]
    BY <1>4 DEF SameEntries
  <2>3. PICK b \in DOMAIN s : more[a] = s[b]
    BY <1>2
  <2>4. PICK c \in DOMAIN less : less[c] = s[b]
    BY <1>3, <2>1, <2>2, <2>3
  <2>5. PICK e \in DOMAIN rl : less[c] = rl[e]
    BY <1>5 DEF SameEntries
  <2> QED
    BY <1>7, <2>1, <2>2, <2>3, <2>4, <2>5
<1>9. ASSUME NEW k \in DOMAIN v PROVE \E j \in DOMAIN u : v[k] = u[j]
  <2>1. PICK i \in DOMAIN rl : v[k] = rl[i] /\ rl[i].score >= TauSuggest
    BY <1>7
  <2>2. PICK a \in DOMAIN less : rl[i] = less[a]
    BY <1>5 DEF SameEntries
  <2>3. PICK b \in DOMAIN s : less[a] = s[b]
    BY <1>3
  <2>4. s[b].score >= BelowFloor
    <3>1. s[b].score \in Int /\ s[b].score >= TauSuggest
      BY <2>1, <2>2, <2>3
    <3> QED
      BY <3>1 DEF TauSuggest, BelowFloor
  <2>5. PICK c \in DOMAIN more : more[c] = s[b]
    BY <1>2, <2>4
  <2>6. PICK e \in DOMAIN rm : more[c] = rm[e]
    BY <1>4 DEF SameEntries
  <2> QED
    BY <1>6, <2>1, <2>2, <2>3, <2>5, <2>6
<1>10. SameEntries(u, v)
  BY <1>8, <1>9 DEF SameEntries
<1>11. \A p, r : ~(<<p, r>> \in Q /\ <<r, p>> \in Q)
  BY JudgedOrder DEF Q
<1>12. u = v
  BY <1>6, <1>7, <1>10, <1>11, SameInOrder
<1> QED
  BY <1>12 DEF u, v, rm, rl, more, less

(* The rows of all at or above the threshold, those under it, and what is  *)
(* declined about none of them.                                            *)
ReplyParts(all, realAll, weak, no) ==
    /\ Listing(all) /\ \A k \in DOMAIN all : all[k].score \in Int
    /\ Listing(realAll)
    /\ \A k \in DOMAIN realAll : \E i \in DOMAIN all : realAll[k] = all[i] /\ all[i].score >= TauSuggest
    /\ Listing(weak)
    /\ \A k \in DOMAIN weak : \E i \in DOMAIN all : weak[k] = all[i] /\ all[i].score < TauSuggest
    /\ Listing(no)
    /\ \A k \in DOMAIN no : /\ no[k].score \in Int /\ no[k].score < TauSuggest
                            /\ no[k].item \notin ItemsOf(Prefix(realAll, SuggestMax)) \cup ItemsOf(weak)

Docked(below, weak, no, m) == m \in Int /\ below = Prefix(weak \o no, m)

(* A reply: some of the rows that may be suggested, from the first on,     *)
(* then the dock, and no item twice.                                       *)
LEMMA ReplyRows ==
    ASSUME NEW all, NEW realAll, NEW weak, NEW no, ReplyParts(all, realAll, weak, no),
           NEW m, NEW below, Docked(below, weak, no, m), NEW d
    PROVE  /\ Listing(Shown(d, realAll, below) \o below)
           /\ AtLeast(Shown(d, realAll, below) \o below, TauSuggest) = Shown(d, realAll, below)
           /\ \E n \in Int : Shown(d, realAll, below) = Prefix(realAll, n)
           /\ d.label # "ti" => Shown(d, realAll, below) = Prefix(realAll, SuggestMax)
<1> SUFFICES ASSUME Listing(all), \A k \in DOMAIN all : all[k].score \in Int, Listing(realAll),
           \A k \in DOMAIN realAll : \E i \in DOMAIN all : realAll[k] = all[i] /\ all[i].score >= TauSuggest,
           Listing(weak),
           \A k \in DOMAIN weak : \E i \in DOMAIN all : weak[k] = all[i] /\ all[i].score < TauSuggest,
           Listing(no),
           \A k \in DOMAIN no : /\ no[k].score \in Int /\ no[k].score < TauSuggest
                                /\ no[k].item \notin ItemsOf(Prefix(realAll, SuggestMax)) \cup ItemsOf(weak),
           m \in Int, below = Prefix(weak \o no, m)
    PROVE  /\ Listing(Shown(d, realAll, below) \o below)
           /\ AtLeast(Shown(d, realAll, below) \o below, TauSuggest) = Shown(d, realAll, below)
           /\ \E n \in Int : Shown(d, realAll, below) = Prefix(realAll, n)
           /\ d.label # "ti" => Shown(d, realAll, below) = Prefix(realAll, SuggestMax)
  BY DEF ReplyParts, Docked
<1> DEFINE head == Prefix(realAll, SuggestMax)
           used == ItemsOf(head) \cup ItemsOf(weak)
           dock == weak \o no
           shown == Shown(d, realAll, below)
<1>1. SuggestMax \in Int /\ TauSuggest \in Int
  BY AnalysisAssumption DEF TauSuggest
<1>2. /\ \A k \in DOMAIN weak : weak[k].item \in used
      /\ \A k \in DOMAIN head : head[k].item \in used
      /\ \A k \in DOMAIN no : no[k].item \notin used
  BY DEF ItemsOf
<1> HIDE DEF used
<1>3. Listing(dock)
  BY <1>2, ConcatListing
<1>4. ASSUME NEW k \in DOMAIN dock
      PROVE  \/ \E i \in DOMAIN weak : dock[k] = weak[i]
             \/ \E i \in DOMAIN no : dock[k] = no[i]
  <2>1. IsSeq(weak) /\ IsSeq(no)
    BY DEF Listing
  <2>2. CASE k \in DOMAIN weak
    BY <2>1, <2>2, Concatenated
  <2>3. CASE k \notin DOMAIN weak
    BY <2>1, <2>3, Concatenated
  <2> QED
    BY <2>2, <2>3
<1>5. below = Prefix(dock, m)
  OBVIOUS
<1> HIDE DEF dock
<1>6. Listing(below) /\ \A k \in DOMAIN below : k \in DOMAIN dock /\ below[k] = dock[k]
  <2>1. Listing(Prefix(dock, m)) /\ \A k \in DOMAIN Prefix(dock, m) : k \in DOMAIN dock /\ Prefix(dock, m)[k] = dock[k]
    BY <1>3, PrefixListing
  <2> QED
    BY <1>5, <2>1
<1>7. ASSUME NEW k \in DOMAIN below
      PROVE  \/ \E i \in DOMAIN weak : below[k] = weak[i]
             \/ \E i \in DOMAIN no : below[k] = no[i]
  BY <1>4, <1>6
<1>8. \A k \in DOMAIN below : below[k].score \in Int /\ below[k].score < TauSuggest
  <2>1. \A k \in DOMAIN weak : weak[k].score \in Int /\ weak[k].score < TauSuggest
    OBVIOUS
  <2> QED
    BY <1>7, <2>1
<1>9. /\ \E n \in Int : shown = Prefix(realAll, n) /\ n <= SuggestMax
      /\ d.label # "ti" => shown = Prefix(realAll, SuggestMax)
  <2> DEFINE n == IF below # <<>> /\ d.label = "ti"
                  THEN IF SuggestMax > Len(below) THEN SuggestMax - Len(below) ELSE 0
                  ELSE SuggestMax
  <2>1. Len(below) \in Nat /\ SuggestMax \in Nat
    BY <1>6, SeqDomain, AnalysisAssumption DEF Listing
  <2>2. n \in Int /\ n <= SuggestMax
    BY <2>1
  <2>3. shown = Prefix(realAll, n)
    BY DEF Shown
  <2>4. d.label # "ti" => n = SuggestMax
    OBVIOUS
  <2> HIDE DEF n, shown
  <2> QED
    BY <2>2, <2>3, <2>4
<1> HIDE DEF shown
<1>10. PICK n \in Int : shown = Prefix(realAll, n) /\ n <= SuggestMax
  BY <1>9
<1>11. /\ Listing(shown)
       /\ \A k \in DOMAIN shown : k \in DOMAIN realAll /\ shown[k] = realAll[k]
  <2>1. /\ Listing(Prefix(realAll, n))
        /\ \A k \in DOMAIN Prefix(realAll, n) : k \in DOMAIN realAll /\ Prefix(realAll, n)[k] = realAll[k]
    BY PrefixListing
  <2> QED
    BY <1>10, <2>1
<1>12. \A k \in DOMAIN shown : k \in DOMAIN head /\ shown[k] = head[k]
  <2>1. IsSeq(realAll) /\ DOMAIN realAll \subseteq Int
    BY SeqDomain DEF Listing
  <2>2. DOMAIN Prefix(realAll, n) = {k \in DOMAIN realAll : k <= n}
    BY <2>1, PrefixEntries
  <2>3. /\ DOMAIN head = {k \in DOMAIN realAll : k <= SuggestMax}
        /\ \A k \in DOMAIN head : head[k] = realAll[k]
    BY <1>1, <2>1, PrefixEntries
  <2> HIDE DEF head
  <2>4. ASSUME NEW k \in Int, k <= n PROVE k <= SuggestMax
    BY <1>1, <1>10, <2>4
  <2>5. DOMAIN shown = {k \in DOMAIN realAll : k <= n}
    BY <1>10, <2>2
  <2>6. ASSUME NEW k \in DOMAIN shown PROVE k \in DOMAIN head
    <3>1. k \in DOMAIN realAll /\ k <= n
      BY <2>5
    <3> QED
      BY <2>1, <2>3, <2>4, <3>1
  <2> QED
    BY <1>11, <2>3, <2>6
<1>13. \A k \in DOMAIN shown : shown[k].score \in Int /\ shown[k].score >= TauSuggest
  <2>1. \A k \in DOMAIN realAll : realAll[k].score \in Int /\ realAll[k].score >= TauSuggest
    OBVIOUS
  <2> QED
    BY <1>11, <2>1
<1> HIDE DEF head
<1>14. ASSUME NEW i \in DOMAIN shown, NEW j \in DOMAIN below, shown[i].item = below[j].item
       PROVE  FALSE
  <2>1. CASE \E k \in DOMAIN weak : below[j] = weak[k]
    <3>1. PICK a \in DOMAIN all : below[j] = all[a] /\ all[a].score < TauSuggest
      BY <2>1
    <3>2. i \in DOMAIN realAll /\ shown[i] = realAll[i]
      BY <1>11
    <3>3. PICK b \in DOMAIN all : shown[i] = all[b] /\ all[b].score >= TauSuggest
      BY <3>2
    <3>4. a = b
      BY <1>14, <3>1, <3>3 DEF Listing
    <3>5. all[a].score \in Int
      OBVIOUS
    <3> QED
      BY <1>1, <3>1, <3>3, <3>4, <3>5
  <2>2. CASE \E k \in DOMAIN no : below[j] = no[k]
    BY <1>2, <1>12, <1>14, <2>2
  <2> QED
    BY <1>7, <2>1, <2>2
<1>15. Listing(shown \o below)
  BY <1>6, <1>11, <1>14, ConcatListing
<1>16. AtLeast(shown \o below, TauSuggest) = shown
  <2>1. IsSeq(shown) /\ IsSeq(below)
    BY <1>6, <1>11 DEF Listing
  <2> QED
    BY <1>1, <1>8, <1>13, <1>15, <2>1, AtLeastConcat
<1> QED
  BY <1>9, <1>15, <1>16 DEF shown

Renderable(s, d) ==
    /\ Listing(s) /\ \A k \in DOMAIN s : s[k].cos \in Int
    /\ d.confidence \in Int
    /\ d.label # "ti" => d.confidence >= TauSuggest

Rendered(d, g, s, chosen, with, without) ==
    with = Render(d, g, s, chosen, TRUE) /\ without = Render(d, g, s, chosen, FALSE)

(* Both replies, in terms of the rows that may be suggested. *)
LEMMA RenderedRows ==
    ASSUME NEW s, NEW d, Renderable(s, d), NEW g, NEW chosen, NEW with, NEW without,
           Rendered(d, g, s, chosen, with, without)
    PROVE  \E suggested : \E n \in Int :
              /\ IsSeq(suggested)
              /\ Listing(with)
              /\ AtLeast(with, TauSuggest) \in {<<>>, Prefix(suggested, n)}
              /\ without \in {<<>>, Prefix(suggested, SuggestMax)}
              /\ d.label # "ti" => /\ AtLeast(with, TauSuggest) = Prefix(suggested, SuggestMax)
                                   /\ without = Prefix(suggested, SuggestMax)
<1>0. /\ Listing(s) /\ \A k \in DOMAIN s : s[k].cos \in Int
      /\ d.confidence \in Int /\ (d.label # "ti" => d.confidence >= TauSuggest)
      /\ with = Render(d, g, s, chosen, TRUE) /\ without = Render(d, g, s, chosen, FALSE)
  BY DEF Renderable, Rendered
<1> DEFINE sr == SuggestionRows(d, s)
           proxy == IF d.confidence = 0 /\ s # <<>> THEN s[1].cos ELSE d.confidence
           more == AtLeast(sr, BelowFloor)
           all == Reordered(more, d, chosen)
           all0 == Reordered(AtLeast(sr, TauSuggest), d, chosen)
           realAll == AtLeast(all, TauSuggest)
           weak == Under(all, TauSuggest)
           used == ItemsOf(Prefix(realAll, SuggestMax)) \cup ItemsOf(weak)
           no == Declined(d, g, s, used)
           m == AtMost(BelowMax, BelowCap)
           below == Prefix(weak \o no, m)
           shown == Shown(d, realAll, below)
           nil == Prefix(<<>>, m)
<1>1. SuggestMax \in Int /\ m \in Int /\ TauSuggest \in Int
  BY AnalysisAssumption DEF AtMost, BelowCap, TauSuggest
<1>2. Listing(sr) /\ \A k \in DOMAIN sr : sr[k].score \in Int
  BY <1>0, SuggestionListing
<1>3. realAll = AtLeast(all0, TauSuggest)
  <2> HIDE DEF sr
  <2> QED
    BY <1>2, SuggestedSame
<1>4. with = IF proxy < BelowFloor \/ all = <<>> THEN <<>> ELSE shown \o below
  BY <1>0 DEF Render
<1>5. without = IF proxy < TauSuggest \/ all0 = <<>> THEN <<>>
                ELSE Shown(d, AtLeast(all0, TauSuggest), nil) \o nil
  BY <1>0 DEF Render
<1>6. d.label # "ti" => ~(proxy < BelowFloor) /\ ~(proxy < TauSuggest)
  BY <1>0 DEF TauSuggest, BelowFloor
<1> HIDE DEF sr, proxy
<1>7. /\ Listing(more) /\ \A Q : InOrder(sr, Q) => InOrder(more, Q)
      /\ \A k \in DOMAIN more : \E i \in DOMAIN sr : more[k] = sr[i]
  BY <1>2, AtLeastRows
<1> HIDE DEF more
<1>8. Listing(all) /\ \A k \in DOMAIN all : all[k].score \in Int
  <2>1. InOrder(sr, OrderOf(sr)) /\ \A k \in DOMAIN sr : sr[k] \in Range(sr)
    BY <1>2, OwnOrder DEF Range
  <2>2. InOrder(more, OrderOf(sr)) /\ \A k \in DOMAIN more : more[k] \in Range(sr)
    BY <1>7, <2>1
  <2>3. Listing(all) /\ SameEntries(all, more)
    BY <1>2, <1>7, <2>2, ReorderedRows
  <2> HIDE DEF all
  <2> QED
    BY <1>2, <1>7, <2>3 DEF SameEntries
<1> HIDE DEF all, all0
<1>9. /\ Listing(realAll)
      /\ \A k \in DOMAIN realAll : \E i \in DOMAIN all : realAll[k] = all[i] /\ all[i].score >= TauSuggest
  BY <1>8, AtLeastRows
<1>10. /\ Listing(weak)
       /\ \A k \in DOMAIN weak : \E i \in DOMAIN all : weak[k] = all[i] /\ all[i].score < TauSuggest
  BY <1>8, UnderRows
<1>11. ASSUME NEW c, c = <<>> PROVE AtLeast(c, TauSuggest) = <<>>
  <2>1. Listing(c) /\ DOMAIN c = {}
    BY <1>11, EmptyListing
  <2>2. IsSeq(AtLeast(c, TauSuggest)) /\ DOMAIN AtLeast(c, TauSuggest) = {}
    BY <2>1, AtLeastRows DEF Listing
  <2> QED
    BY <2>2, EmptyOrNot
<1>12. all = <<>> \/ all0 = <<>> => realAll = <<>>
  BY <1>3, <1>11
<1> HIDE DEF realAll, weak
<1>13. /\ Listing(no)
       /\ \A k \in DOMAIN no : no[k].score \in Int /\ no[k].score < TauSuggest /\ no[k].item \notin used
  <2> HIDE DEF used
  <2> QED
    BY <1>0, DeclinedRow
<1> HIDE DEF no, m
<1>14. /\ Listing(shown \o below) /\ AtLeast(shown \o below, TauSuggest) = shown
       /\ \E n \in Int : shown = Prefix(realAll, n)
       /\ d.label # "ti" => shown = Prefix(realAll, SuggestMax)
  <2>1. Docked(below, weak, no, m)
    BY <1>1 DEF Docked
  <2>2. ReplyParts(all, realAll, weak, no)
    BY <1>8, <1>9, <1>10, <1>13 DEF ReplyParts
  <2> HIDE DEF below, used
  <2> QED
    BY <2>1, <2>2, ReplyRows
<1> HIDE DEF shown, below
<1>15. nil = <<>>
  BY <1>1, EmptyPrefix
<1> HIDE DEF nil
<1>16. Shown(d, realAll, nil) \o nil = Prefix(realAll, SuggestMax)
  <2>1. Shown(d, realAll, nil) = Prefix(realAll, SuggestMax)
    BY <1>15 DEF Shown
  <2>2. IsSeq(Prefix(realAll, SuggestMax))
    BY <1>1, <1>9, PrefixEntries DEF Listing
  <2>3. Prefix(realAll, SuggestMax) \in Seq(Range(Prefix(realAll, SuggestMax)))
    BY <2>2 DEF IsSeq
  <2>4. Prefix(realAll, SuggestMax) \o <<>> = Prefix(realAll, SuggestMax)
    BY <2>3, ConcatEmptySeq
  <2> QED
    BY <1>15, <2>1, <2>4
<1>17. realAll = <<>> => Prefix(realAll, SuggestMax) = <<>>
  BY <1>1, EmptyPrefix
<1>18. Listing(with)
  <2>1. CASE with = <<>>
    BY <2>1, EmptyListing
  <2>2. CASE with = shown \o below
    BY <1>14, <2>2
  <2> QED
    BY <1>4, <2>1, <2>2
<1>19. PICK n \in Int : shown = Prefix(realAll, n)
  BY <1>14
<1>20. AtLeast(with, TauSuggest) \in {<<>>, Prefix(realAll, n)}
  BY <1>4, <1>11, <1>14, <1>19
<1>21. without \in {<<>>, Prefix(realAll, SuggestMax)}
  BY <1>3, <1>5, <1>16
<1>22. ASSUME d.label # "ti"
       PROVE  /\ AtLeast(with, TauSuggest) = Prefix(realAll, SuggestMax)
              /\ without = Prefix(realAll, SuggestMax)
  <2>1. CASE all = <<>>
    <3>1. with = <<>> /\ Prefix(realAll, SuggestMax) = <<>>
      BY <1>4, <1>12, <1>17, <2>1
    <3> QED
      BY <1>11, <1>21, <3>1
  <2>2. CASE all # <<>>
    <3>1. with = shown \o below
      BY <1>4, <1>6, <1>22, <2>2
    <3>2. AtLeast(with, TauSuggest) = Prefix(realAll, SuggestMax)
      BY <1>14, <1>22, <3>1
    <3>3. CASE all0 = <<>>
      BY <1>5, <1>12, <1>17, <3>2, <3>3
    <3>4. CASE all0 # <<>>
      BY <1>3, <1>5, <1>6, <1>16, <1>22, <3>2, <3>4
    <3> QED
      BY <3>2, <3>3, <3>4
  <2> QED
    BY <2>1, <2>2
<1> QED
  BY <1>9, <1>18, <1>20, <1>21, <1>22 DEF Listing

(* Two prefixes of a list agree where both have an entry. *)
LEMMA PrefixesAgree ==
    ASSUME NEW s, IsSeq(s), NEW n \in Int, NEW m \in Int,
           NEW u \in {<<>>, Prefix(s, n)}, NEW v \in {<<>>, Prefix(s, m)},
           NEW i \in DOMAIN u, i <= Len(v)
    PROVE  u[i] = v[i]
<1>1. DOMAIN <<>> = {} /\ Len(<<>>) = 0
  OBVIOUS
<1>2. u = Prefix(s, n)
  BY <1>1
<1>3. Len(s) \in Nat /\ DOMAIN s = 1..Len(s)
  BY SeqDomain
<1>4. DOMAIN Prefix(s, n) = {k \in DOMAIN s : k <= n} /\ \A k \in DOMAIN Prefix(s, n) : Prefix(s, n)[k] = s[k]
  BY PrefixEntries
<1>5. i \in DOMAIN s /\ u[i] = s[i] /\ i \in Int /\ i >= 1
  BY <1>2, <1>3, <1>4
<1>6. v # <<>>
  BY <1>1, <1>5
<1>7. v = Prefix(s, m)
  BY <1>6
<1>8. IsSeq(Prefix(s, m)) /\ \A k \in DOMAIN Prefix(s, m) : Prefix(s, m)[k] = s[k]
  BY PrefixEntries
<1>9. Len(v) \in Nat /\ DOMAIN v = 1..Len(v)
  BY <1>7, <1>8, SeqDomain
<1>10. i \in DOMAIN v
  BY <1>5, <1>9
<1> QED
  BY <1>5, <1>7, <1>8, <1>10

(* For every reply of suggest: with a label, the dock changes no row at or *)
(* above the threshold; without one, it takes the last of them at most;    *)
(* and no item is named twice.                                             *)
THEOREM DockDisplacesNothing == Spec => []DockNeverDisplaces
<1>1. DecisionInv => DockNeverDisplaces
  <2> SUFFICES ASSUME DecisionInv, phase = "decided", route = "suggest",
                      NEW chosen \in {0} \cup ItemsOf(rows)
               PROVE  LET with == Render(decision, gbm, rows, chosen, TRUE)
                          without == Render(decision, gbm, rows, chosen, FALSE)
                          real == AtLeast(with, TauSuggest)
                      IN /\ \A i, j \in DOMAIN with : with[i].item = with[j].item => i = j
                         /\ IF decision.label # "ti" THEN real = without
                            ELSE \A i \in DOMAIN real : i <= Len(without) => real[i] = without[i]
    BY DEF DockNeverDisplaces
  <2> DEFINE with == Render(decision, gbm, rows, chosen, TRUE)
             without == Render(decision, gbm, rows, chosen, FALSE)
             real == AtLeast(with, TauSuggest)
  <2>1. Renderable(rows, decision)
    BY DEF DecisionInv, Renderable
  <2> SUFFICES /\ \A i, j \in DOMAIN with : with[i].item = with[j].item => i = j
               /\ IF decision.label # "ti" THEN real = without
                  ELSE \A i \in DOMAIN real : i <= Len(without) => real[i] = without[i]
    OBVIOUS
  <2>2. \E suggested : \E n \in Int :
           /\ IsSeq(suggested)
           /\ Listing(with)
           /\ AtLeast(with, TauSuggest) \in {<<>>, Prefix(suggested, n)}
           /\ without \in {<<>>, Prefix(suggested, SuggestMax)}
           /\ decision.label # "ti" => /\ AtLeast(with, TauSuggest) = Prefix(suggested, SuggestMax)
                                       /\ without = Prefix(suggested, SuggestMax)
    <3>1. Rendered(decision, gbm, rows, chosen, with, without)
      BY DEF Rendered
    <3> HIDE DEF with, without
    <3> QED
      BY <2>1, <3>1, RenderedRows
  <2> HIDE DEF with, without
  <2>3. PICK suggested : \E n \in Int :
           /\ IsSeq(suggested)
           /\ Listing(with)
           /\ real \in {<<>>, Prefix(suggested, n)}
           /\ without \in {<<>>, Prefix(suggested, SuggestMax)}
           /\ decision.label # "ti" => /\ real = Prefix(suggested, SuggestMax)
                                       /\ without = Prefix(suggested, SuggestMax)
    BY <2>2
  <2> HIDE DEF real
  <2>4. \A i, j \in DOMAIN with : with[i].item = with[j].item => i = j
    BY <2>3 DEF Listing
  <2>5. SuggestMax \in Int
    BY AnalysisAssumption
  <2>6. ASSUME NEW i \in DOMAIN real, i <= Len(without) PROVE real[i] = without[i]
    <3>1. PICK n \in Int : real \in {<<>>, Prefix(suggested, n)}
      BY <2>3
    <3> QED
      BY <2>3, <2>5, <2>6, <3>1, PrefixesAgree
  <2> QED
    BY <2>3, <2>4, <2>6
<1> QED
  BY <1>1, DecisionKept, PTL

-----------------------------------------------------------------------------
(* The groups of a launch: the order its items are sent in                 *)

(* Part of a launch is one. *)
LEMMA PickedLaunch ==
    ASSUME NEW l, IsLaunch(l), NEW S \in SUBSET DOMAIN l
    PROVE  /\ IsLaunch(Picked(l, S))
           /\ \A k \in DOMAIN Picked(l, S) : \E i \in S : Picked(l, S)[k] = l[i]
           /\ \A i \in S : \E k \in DOMAIN Picked(l, S) : Picked(l, S)[k] = l[i]
<1>1. IsSeq(l)
  BY DEF IsLaunch
<1>2. /\ IsSeq(Picked(l, S))
      /\ \A k \in DOMAIN Picked(l, S) : \E i \in S : Picked(l, S)[k] = l[i]
      /\ \A i \in S : \E k \in DOMAIN Picked(l, S) : Picked(l, S)[k] = l[i]
  BY <1>1, PickedRange
<1>3. PICK at_ \in [DOMAIN Picked(l, S) -> S] :
        /\ \A k \in DOMAIN Picked(l, S) : Picked(l, S)[k] = l[at_[k]]
        /\ \A k, h \in DOMAIN Picked(l, S) : h < k <=> at_[h] < at_[k]
  BY <1>1, PickedEntries
<1>4. ASSUME NEW k \in DOMAIN Picked(l, S), NEW h \in DOMAIN Picked(l, S),
             Picked(l, S)[k].id = Picked(l, S)[h].id
      PROVE  k = h
  <2>1. at_[k] \in DOMAIN l /\ at_[h] \in DOMAIN l
    OBVIOUS
  <2>2. at_[k] = at_[h]
    BY <1>3, <1>4, <2>1 DEF IsLaunch
  <2>3. at_[k] \in Int /\ k \in Int /\ h \in Int
    <3>1. DOMAIN l = 1..Len(l)
      BY <1>1, SeqDomain
    <3>2. DOMAIN Picked(l, S) = 1..Len(Picked(l, S))
      BY <1>2, SeqDomain
    <3> QED
      BY <2>1, <3>1, <3>2
  <2>4. ~(h < k) /\ ~(k < h)
    BY <1>3, <2>1, <2>2, <2>3
  <2> QED
    BY <2>3, <2>4
<1>5. \A k \in DOMAIN Picked(l, S) : \E i \in DOMAIN l : Picked(l, S)[k] = l[i]
  BY <1>2
<1>6. \A k \in DOMAIN Picked(l, S) : /\ Picked(l, S)[k].id \in Int /\ Picked(l, S)[k].fp \in Int
                                     /\ Picked(l, S)[k].emb \in Int
  BY <1>5 DEF IsLaunch
<1> QED
  BY <1>2, <1>4, <1>6 DEF IsLaunch

(* The ids order a launch totally. *)
LEMMA IdOrder ==
    ASSUME NEW l, IsLaunch(l)
    PROVE  IsOrder(DOMAIN l, {p \in Pairs(l) : l[p[1]].id < l[p[2]].id})
<1> DEFINE R == {p \in Pairs(l) : l[p[1]].id < l[p[2]].id}
<1>1. ASSUME NEW i \in DOMAIN l, NEW j \in DOMAIN l PROVE <<i, j>> \in R <=> l[i].id < l[j].id
  BY DEF Pairs
<1> HIDE DEF R
<1>2. \A i \in DOMAIN l : l[i].id \in Int
  BY DEF IsLaunch
<1>3. ASSUME NEW i \in DOMAIN l, NEW j \in DOMAIN l, i # j PROVE <<i, j>> \in R \/ <<j, i>> \in R
  <2>1. l[i].id # l[j].id
    BY <1>3 DEF IsLaunch
  <2> QED
    BY <1>1, <1>2, <2>1
<1>4. ASSUME NEW i \in DOMAIN l, NEW j \in DOMAIN l PROVE ~(<<i, j>> \in R /\ <<j, i>> \in R)
  BY <1>1, <1>2
<1>5. ASSUME NEW i \in DOMAIN l, NEW j \in DOMAIN l, NEW k \in DOMAIN l, <<i, j>> \in R, <<j, k>> \in R
      PROVE  <<i, k>> \in R
  BY <1>1, <1>2, <1>5
<1>6. IsOrder(DOMAIN l, R)
  BY <1>3, <1>4, <1>5 DEF IsOrder
<1> QED
  BY <1>6 DEF R

(* Sorting by id keeps the items and forgets the order they came in. *)
LEMMA ByIdItems ==
    ASSUME NEW l, IsLaunch(l)
    PROVE  /\ IsLaunch(ById(l))
           /\ \A k \in DOMAIN ById(l) : \E i \in DOMAIN l : ById(l)[k] = l[i]
           /\ \A i \in DOMAIN l : \E k \in DOMAIN ById(l) : ById(l)[k] = l[i]
<1> DEFINE R == {p \in Pairs(l) : l[p[1]].id < l[p[2]].id}
           s == Sorted(l, R)
<1>1. IsOrder(DOMAIN l, R)
  BY IdOrder
<1>2. ById(l) = s
  BY DEF ById
<1> HIDE DEF R
<1>3. IsSeq(l)
  BY DEF IsLaunch
<1>4. /\ IsSeq(s) /\ DOMAIN s = DOMAIN l
      /\ \A k \in DOMAIN s : \E i \in DOMAIN l : s[k] = l[i]
      /\ \A i \in DOMAIN l : \E k \in DOMAIN s : s[k] = l[i]
  BY <1>1, <1>3, SortedRange
<1>5. PICK at_ \in [DOMAIN l -> DOMAIN l] :
        /\ \A k \in DOMAIN l : s[k] = l[at_[k]]
        /\ \A k, h \in DOMAIN l : h < k => <<at_[h], at_[k]>> \in R
  BY <1>1, <1>3, SortedEntries
<1> HIDE DEF s
<1>6. ASSUME NEW k \in DOMAIN s, NEW h \in DOMAIN s, s[k].id = s[h].id PROVE k = h
  <2>1. at_[k] = at_[h]
    <3>1. k \in DOMAIN l /\ h \in DOMAIN l
      BY <1>4
    <3>2. at_[k] \in DOMAIN l /\ at_[h] \in DOMAIN l /\ l[at_[k]].id = l[at_[h]].id
      BY <1>5, <1>6, <3>1
    <3> QED
      BY <3>2 DEF IsLaunch
  <2>2. ~(<<at_[k], at_[h]>> \in R) /\ ~(<<at_[h], at_[k]>> \in R)
    BY <1>1, <1>4, <1>5, <2>1 DEF IsOrder
  <2>3. k \in Int /\ h \in Int
    <3>1. DOMAIN s = 1..Len(s)
      BY <1>4, SeqDomain
    <3> QED
      BY <3>1
  <2>4. ~(k < h) /\ ~(h < k)
    BY <1>4, <1>5, <2>2
  <2> QED
    BY <2>3, <2>4
<1>7. ASSUME NEW k \in DOMAIN s PROVE s[k].id \in Int /\ s[k].fp \in Int /\ s[k].emb \in Int
  <2>1. PICK i \in DOMAIN l : s[k] = l[i]
    BY <1>4
  <2> QED
    BY <2>1 DEF IsLaunch
<1> QED
  BY <1>2, <1>4, <1>6, <1>7 DEF IsLaunch

LEMMA ByIdSame ==
    ASSUME NEW s, IsLaunch(s), NEW t, IsLaunch(t), SameEntries(s, t)
    PROVE  ById(s) = ById(t)
<1> DEFINE R == {p \in Pairs(s) : s[p[1]].id < s[p[2]].id}
           Q == {p \in Pairs(t) : t[p[1]].id < t[p[2]].id}
<1>1. IsOrder(DOMAIN s, R)
  BY IdOrder
<1>2. IsOrder(DOMAIN t, Q)
  BY IdOrder
<1>3. ASSUME NEW i \in DOMAIN s, NEW j \in DOMAIN s, NEW k \in DOMAIN t, NEW m \in DOMAIN t,
             s[i] = t[k], s[j] = t[m]
      PROVE  <<i, j>> \in R <=> <<k, m>> \in Q
  <2>1. <<i, j>> \in R <=> s[i].id < s[j].id
    BY DEF Pairs
  <2>2. <<k, m>> \in Q <=> t[k].id < t[m].id
    BY DEF Pairs
  <2> QED
    BY <1>3, <2>1, <2>2
<1>4. ById(s) = Sorted(s, R) /\ ById(t) = Sorted(t, Q)
  BY DEF ById
<1> HIDE DEF R, Q
<1>5. IsSeq(s) /\ IsSeq(t) /\ \A i, j \in DOMAIN s : s[i] = s[j] => i = j
  BY DEF IsLaunch
<1>6. Sorted(s, R) = Sorted(t, Q)
  BY <1>1, <1>2, <1>3, <1>5, SortedStable DEF SameEntries
<1> QED
  BY <1>4, <1>6

LEMMA WithFpItems ==
    ASSUME NEW l, IsLaunch(l), NEW fp
    PROVE  /\ IsLaunch(WithFp(l, fp))
           /\ \A k \in DOMAIN WithFp(l, fp) : \E i \in DOMAIN l : WithFp(l, fp)[k] = l[i] /\ l[i].fp = fp
           /\ \A i \in DOMAIN l : l[i].fp = fp => \E k \in DOMAIN WithFp(l, fp) : WithFp(l, fp)[k] = l[i]
<1> DEFINE S == {i \in DOMAIN l : l[i].fp = fp}
<1>1. S \in SUBSET DOMAIN l /\ \A i \in DOMAIN l : i \in S <=> l[i].fp = fp
  OBVIOUS
<1>2. WithFp(l, fp) = Picked(l, S)
  BY DEF WithFp
<1> HIDE DEF S
<1> QED
  BY <1>1, <1>2, PickedLaunch

LEMMA WithFpSame ==
    ASSUME NEW s, IsLaunch(s), NEW t, IsLaunch(t), SameEntries(s, t), NEW fp
    PROVE  ById(WithFp(s, fp)) = ById(WithFp(t, fp))
<1> DEFINE S == {i \in DOMAIN s : s[i].fp = fp}
           T == {i \in DOMAIN t : t[i].fp = fp}
<1>1. /\ S \in SUBSET DOMAIN s /\ T \in SUBSET DOMAIN t
      /\ \A i \in DOMAIN s, k \in DOMAIN t : s[i] = t[k] => (i \in S <=> k \in T)
  OBVIOUS
<1>2. WithFp(s, fp) = Picked(s, S) /\ WithFp(t, fp) = Picked(t, T)
  BY DEF WithFp
<1> HIDE DEF S, T
<1>3. SameEntries(Picked(s, S), Picked(t, T))
  BY <1>1, PickedSame DEF IsLaunch
<1>4. IsLaunch(Picked(s, S)) /\ IsLaunch(Picked(t, T))
  BY <1>1, PickedLaunch
<1> QED
  BY <1>2, <1>3, <1>4, ByIdSame

(* The groups are the same for the same items. *)
LEMMA GroupLaunchSame ==
    ASSUME NEW s, IsLaunch(s), NEW t, IsLaunch(t), SameEntries(s, t), Len(s) = Len(t), NEW seen
    PROVE  GroupLaunch(s, seen) = GroupLaunch(t, seen)
<1>1. {s[i].fp : i \in DOMAIN s} = {t[i].fp : i \in DOMAIN t}
  BY DEF SameEntries
<1>2. \A fp : ById(WithFp(s, fp)) = ById(WithFp(t, fp))
  BY WithFpSame
<1>3. Buckets(s) = Buckets(t)
  BY <1>1, <1>2 DEF Buckets
<1> QED
  BY <1>2, <1>3 DEF GroupLaunch

LEMMA PermutedLaunch ==
    ASSUME NEW l, IsLaunch(l), NEW p \in Bijection(DOMAIN l, DOMAIN l),
           NEW m, m = [i \in DOMAIN l |-> l[p[i]]]
    PROVE  IsLaunch(m) /\ SameEntries(m, l) /\ Len(m) = Len(l)
<1>1. /\ p \in [DOMAIN l -> DOMAIN l]
      /\ \A i, j \in DOMAIN l : p[i] = p[j] => i = j
      /\ \A k \in DOMAIN l : \E i \in DOMAIN l : p[i] = k
  BY DEF Bijection, Injection, Surjection, IsInjective
<1>2. Len(l) \in Nat /\ DOMAIN l = 1..Len(l)
  BY SeqDomain DEF IsLaunch
<1>3. DOMAIN m = DOMAIN l /\ m = [k \in DOMAIN l |-> m[k]] /\ \A i \in DOMAIN l : m[i] = l[p[i]]
  OBVIOUS
<1>4. IsSeq(m) /\ Len(m) = Len(l)
  BY <1>2, <1>3, SeqOfFunction
<1>5. ASSUME NEW i \in DOMAIN m, NEW j \in DOMAIN m, m[i].id = m[j].id PROVE i = j
  BY <1>1, <1>3, <1>5 DEF IsLaunch
<1>6. \A i \in DOMAIN m : m[i].id \in Int /\ m[i].fp \in Int /\ m[i].emb \in Int
  BY <1>1, <1>3 DEF IsLaunch
<1>7. SameEntries(m, l)
  BY <1>1, <1>3 DEF SameEntries
<1> QED
  BY <1>4, <1>5, <1>6, <1>7 DEF IsLaunch

-----------------------------------------------------------------------------
(* The groups of a launch: every item is in exactly one of them            *)

(* What holds of 0 and with every number of the next one. *)
LEMMA UpTo ==
    ASSUME NEW N \in Nat, NEW Good, 0 \in Good, \A n \in 1..N : n - 1 \in Good => n \in Good
    PROVE  \A n \in 0..N : n \in Good
<1> SUFFICES ASSUME NEW k \in 0..N, k \notin Good PROVE FALSE
  OBVIOUS
<1> DEFINE T == {n \in 0..N : n \notin Good}
<1>1. T \subseteq Nat /\ T # {}
  OBVIOUS
<1>2. PICK m \in T : \A o \in T : m <= o
  BY <1>1, LeastNumber
<1>3. m \in 1..N /\ m \notin Good
  OBVIOUS
<1>4. m - 1 \in 0..N /\ m - 1 \notin T
  BY <1>2, <1>3
<1> QED
  BY <1>3, <1>4

(* A list can be worked off one entry after the other. *)
Foldable(N, S, base, step) == N \in Nat /\ base \in S /\ step \in [S \X (1..N) -> S]

IsFold(f, N, S, base, step) ==
    f \in [0..N -> S] /\ f[0] = base /\ \A n \in 1..N : f[n] = step[<<f[n - 1], n>>]

LEMMA Folded ==
    ASSUME NEW N, NEW S, NEW base, NEW step, Foldable(N, S, base, step)
    PROVE  \E f : IsFold(f, N, S, base, step)
<1> USE DEF Foldable
<1> DEFINE Works(f, n) == f[0] = base /\ \A k \in 1..n : f[k] = step[<<f[k - 1], k>>]
           Good == {n \in 0..N : \E f \in [0..N -> S] : Works(f, n)}
<1>1. 0 \in Good
  <2> DEFINE f == [k \in 0..N |-> base]
  <2>1. f \in [0..N -> S] /\ Works(f, 0) /\ 0 \in 0..N
    OBVIOUS
  <2> QED
    BY <2>1
<1>2. ASSUME NEW n \in 1..N, n - 1 \in Good PROVE n \in Good
  <2>1. PICK f \in [0..N -> S] : Works(f, n - 1)
    BY <1>2
  <2> DEFINE h == [k \in 0..N |-> IF k = n THEN step[<<f[n - 1], n>>] ELSE f[k]]
  <2>2. n - 1 \in 0..N /\ n - 1 # n /\ n # 0 /\ f[n - 1] \in S
    OBVIOUS
  <2>3. step[<<f[n - 1], n>>] \in S
    BY <2>2
  <2>4. h \in [0..N -> S]
    BY <2>3
  <2>5. h[0] = base /\ h[n - 1] = f[n - 1] /\ h[n] = step[<<f[n - 1], n>>]
    BY <2>1, <2>2
  <2>6. ASSUME NEW k \in 1..n PROVE h[k] = step[<<h[k - 1], k>>]
    <3>1. CASE k = n
      BY <2>5, <3>1
    <3>2. CASE k # n
      <4>1. k \in 1..(n - 1) /\ k \in 0..N /\ k - 1 \in 0..N /\ k - 1 # n
        BY <3>2
      <4> QED
        BY <2>1, <3>2, <4>1
    <3> QED
      BY <3>1, <3>2
  <2> HIDE DEF h
  <2>7. Works(h, n) /\ n \in 0..N
    BY <2>5, <2>6
  <2> HIDE DEF Works
  <2> QED
    BY <2>4, <2>7
<1>3. N \in Good
  <2> HIDE DEF Good
  <2> QED
    BY <1>1, <1>2, UpTo
<1> QED
  BY <1>3 DEF IsFold

(* A group of items of I. *)
GroupOf(I) ==
    [members : Seq(I), centroid : Int, templates : SUBSET UNION {x.templates : x \in I}]

Vectors(I) == \A x \in I : x.emb \in Int

Has(g, x) == \E j \in DOMAIN g.members : g.members[j] = x

LEMMA AddedMember ==
    ASSUME NEW I, Vectors(I), NEW g \in GroupOf(I), NEW x \in I
    PROVE  /\ AddMember(g, x) \in GroupOf(I)
           /\ \A y : Has(AddMember(g, x), y) <=> Has(g, y) \/ y = x
<1> DEFINE S == {i \in DOMAIN g.members : g.members[i].emb # NoEmb}
           n == Cardinality(S)
           h == AddMember(g, x)
<1>1. g.members \in Seq(I) /\ g.centroid \in Int /\ g.templates \in SUBSET UNION {z.templates : z \in I}
  BY DEF GroupOf
<1>2. n \in Nat
  <2>1. Len(g.members) \in Nat /\ DOMAIN g.members = 1..Len(g.members)
    BY <1>1
  <2>2. IsFiniteSet(1..Len(g.members))
    BY <2>1, FS_Interval
  <2>3. IsFiniteSet(S)
    BY <2>1, <2>2, FS_Subset
  <2> QED
    BY <2>3, FS_CardinalityType
<1>3. h = [ members |-> Append(g.members, x),
            centroid |-> IF x.emb = NoEmb THEN g.centroid
                         ELSE IF g.centroid = NoEmb \/ n = 0 THEN x.emb
                         ELSE (g.centroid * n + x.emb) \div (n + 1),
            templates |-> g.templates \cup x.templates ]
  BY DEF AddMember
<1> HIDE DEF n, h
<1>4. x.emb \in Int
  BY DEF Vectors
<1>5. h.members = Append(g.members, x) /\ h.members \in Seq(I)
  BY <1>1, <1>3
<1>6. (g.centroid * n + x.emb) \div (n + 1) \in Int
  <2>1. g.centroid * n + x.emb \in Int /\ n + 1 \in Nat /\ n + 1 # 0
    BY <1>1, <1>2, <1>4
  <2> QED
    BY <2>1
<1>7. h.centroid \in Int
  BY <1>1, <1>3, <1>4, <1>6
<1>8. h.templates \in SUBSET UNION {z.templates : z \in I}
  BY <1>1, <1>3
<1>9. h = [members |-> h.members, centroid |-> h.centroid, templates |-> h.templates]
  BY <1>3
<1>10. h \in GroupOf(I)
  BY <1>5, <1>7, <1>8, <1>9 DEF GroupOf
<1>11. ASSUME NEW y PROVE Has(h, y) <=> Has(g, y) \/ y = x
  <2>1. Len(g.members) \in Nat /\ DOMAIN g.members = 1..Len(g.members)
    BY <1>1
  <2>2. DOMAIN h.members = 1..(Len(g.members) + 1)
    BY <1>1, <1>5
  <2>3. /\ \A j \in 1..Len(g.members) : h.members[j] = g.members[j]
        /\ h.members[Len(g.members) + 1] = x
    BY <1>1, <1>5
  <2> QED
    BY <2>1, <2>2, <2>3 DEF Has
<1> QED
  BY <1>10, <1>11 DEF h

(* The members join one after the other. *)
LEMMA Joined ==
    ASSUME NEW I, Vectors(I), NEW g \in GroupOf(I), NEW ms \in Seq(I)
    PROVE  /\ Join(g, ms) \in GroupOf(I)
           /\ \A y : Has(Join(g, ms), y) <=> Has(g, y) \/ \E j \in DOMAIN ms : ms[j] = y
<1> DEFINE N == Len(ms)
           S == GroupOf(I)
           joined[n \in 0..N] == IF n = 0 THEN g ELSE AddMember(joined[n - 1], ms[n])
           step == [p \in S \X (1..N) |-> AddMember(p[1], ms[p[2]])]
<1>1. N \in Nat /\ DOMAIN ms = 1..N /\ \A n \in 1..N : ms[n] \in I
  OBVIOUS
<1>2. \A h \in S, n \in 1..N : AddMember(h, ms[n]) \in S
  BY <1>1, AddedMember
<1>3. step \in [S \X (1..N) -> S] /\ \A h \in S, n \in 1..N : step[<<h, n>>] = AddMember(h, ms[n])
  BY <1>2
<1>4. Join(g, ms) = joined[N]
  BY DEF Join
<1>5. joined = CHOOSE h : h = [n \in 0..N |-> IF n = 0 THEN g ELSE AddMember(h[n - 1], ms[n])]
  OBVIOUS
<1> HIDE DEF step, N, S
<1>6. \E f : f = [n \in 0..N |-> IF n = 0 THEN g ELSE AddMember(f[n - 1], ms[n])]
  <2>1. g \in S
    BY DEF S
  <2>2. Foldable(N, S, g, step)
    BY <1>1, <1>3, <2>1 DEF Foldable
  <2>3. PICK f : IsFold(f, N, S, g, step)
    BY <2>2, Folded
  <2>4. f \in [0..N -> S] /\ f[0] = g /\ \A n \in 1..N : f[n] = step[<<f[n - 1], n>>]
    BY <2>3 DEF IsFold
  <2>5. ASSUME NEW n \in 0..N PROVE f[n] = IF n = 0 THEN g ELSE AddMember(f[n - 1], ms[n])
    <3>1. CASE n = 0
      BY <2>4, <3>1
    <3>2. CASE n # 0
      <4>1. n \in 1..N /\ n - 1 \in 0..N
        BY <1>1, <3>2
      <4> QED
        BY <1>3, <2>4, <3>2, <4>1
    <3> QED
      BY <3>1, <3>2
  <2>6. f = [n \in 0..N |-> IF n = 0 THEN g ELSE AddMember(f[n - 1], ms[n])]
    BY <2>4, <2>5
  <2> QED
    BY <2>6
<1>7. PICK c : /\ c = joined
               /\ c = [n \in 0..N |-> IF n = 0 THEN g ELSE AddMember(c[n - 1], ms[n])]
  <2> DEFINE c == CHOOSE h : h = [n \in 0..N |-> IF n = 0 THEN g ELSE AddMember(h[n - 1], ms[n])]
  <2>1. c = [n \in 0..N |-> IF n = 0 THEN g ELSE AddMember(c[n - 1], ms[n])]
    BY <1>6
  <2> QED
    BY <1>5, <2>1
<1> HIDE DEF joined
<1>8. c[0] = g /\ \A n \in 1..N : c[n] = AddMember(c[n - 1], ms[n])
  BY <1>1, <1>7
<1> DEFINE Good == {n \in 0..N : /\ c[n] \in S
                                 /\ \A y : Has(c[n], y) <=> Has(g, y) \/ \E j \in 1..n : ms[j] = y}
<1>9. 0 \in Good
  BY <1>1, <1>8 DEF S
<1>10. ASSUME NEW n \in 1..N, n - 1 \in Good PROVE n \in Good
  <2>1. c[n - 1] \in S /\ c[n] = AddMember(c[n - 1], ms[n]) /\ ms[n] \in I /\ n \in 0..N
    BY <1>1, <1>8, <1>10
  <2>2. c[n] \in S /\ \A y : Has(c[n], y) <=> Has(c[n - 1], y) \/ y = ms[n]
    BY <2>1, AddedMember DEF S
  <2>3. ASSUME NEW y PROVE Has(c[n], y) <=> Has(g, y) \/ \E j \in 1..n : ms[j] = y
    <3>1. Has(c[n - 1], y) <=> Has(g, y) \/ \E j \in 1..(n - 1) : ms[j] = y
      BY <1>10
    <3>2. \A j : j \in 1..n <=> j \in 1..(n - 1) \/ j = n
      BY <1>1
    <3> QED
      BY <2>2, <3>1, <3>2
  <2> QED
    BY <2>1, <2>2, <2>3
<1>11. N \in Good
  <2> HIDE DEF Good
  <2>1. \A n \in 0..N : n \in Good
    BY <1>1, <1>9, <1>10, UpTo
  <2> QED
    BY <1>1, <2>1
<1> QED
  BY <1>1, <1>4, <1>7, <1>11 DEF S

LEMMA NewMembers ==
    ASSUME NEW I, Vectors(I), NEW ms \in Seq(I)
    PROVE  /\ NewGroup(ms) \in GroupOf(I)
           /\ \A y : Has(NewGroup(ms), y) <=> \E j \in DOMAIN ms : ms[j] = y
<1>1. EmptyGroup \in GroupOf(I)
  BY DEF EmptyGroup, GroupOf, NoEmb
<1>2. \A y : ~Has(EmptyGroup, y)
  BY DEF EmptyGroup, Has
<1> QED
  BY <1>1, <1>2, Joined DEF NewGroup

-----------------------------------------------------------------------------
(* Counting the groups an item is in                                       *)

Once(gs, x) == \E k \in DOMAIN gs : \A j \in DOMAIN gs : Has(gs[j], x) <=> j = k
Nowhere(gs, x) == \A k \in DOMAIN gs : ~Has(gs[k], x)

(* From gs to r, x is put into one more group if in, into none otherwise. *)
Puts(gs, in, r, x) ==
    /\ Once(gs, x) /\ ~in => Once(r, x)
    /\ Nowhere(gs, x) /\ in => Once(r, x)
    /\ Nowhere(gs, x) /\ ~in => Nowhere(r, x)

LEMMA PutsLast ==
    ASSUME NEW gs, IsSeq(gs), NEW g, NEW x, NEW in \in BOOLEAN, Has(g, x) <=> in
    PROVE  Puts(gs, in, Append(gs, g), x)
<1> DEFINE r == Append(gs, g)
           n == Len(gs)
<1>1. /\ n \in Nat /\ DOMAIN gs = 1..n /\ DOMAIN r = 1..(n + 1)
      /\ \A k \in 1..n : r[k] = gs[k]
      /\ r[n + 1] = g
  BY Appended, SeqDomain
<1> HIDE DEF r, n
<1>2. \A k : k \in DOMAIN r <=> k \in DOMAIN gs \/ k = n + 1
  BY <1>1
<1>3. n + 1 \notin DOMAIN gs
  BY <1>1
<1>4. Puts(gs, in, r, x)
  <2>1. ASSUME Once(gs, x), ~in PROVE Once(r, x)
    <3>1. PICK k \in DOMAIN gs : \A j \in DOMAIN gs : Has(gs[j], x) <=> j = k
      BY <2>1 DEF Once
    <3>2. \A j \in DOMAIN r : Has(r[j], x) <=> j = k
      BY <1>1, <1>2, <1>3, <2>1, <3>1
    <3> QED
      BY <1>2, <3>2 DEF Once
  <2>2. ASSUME Nowhere(gs, x), in PROVE Once(r, x)
    <3>1. \A j \in DOMAIN r : Has(r[j], x) <=> j = n + 1
      BY <1>1, <1>2, <1>3, <2>2 DEF Nowhere
    <3> QED
      BY <1>2, <3>1 DEF Once
  <2>3. ASSUME Nowhere(gs, x), ~in PROVE Nowhere(r, x)
    BY <1>1, <1>2, <2>3 DEF Nowhere
  <2> QED
    BY <2>1, <2>2, <2>3 DEF Puts
<1> QED
  BY <1>4 DEF r

LEMMA PutsInto ==
    ASSUME NEW gs, NEW m \in DOMAIN gs, NEW g, NEW x, NEW in \in BOOLEAN,
           Has(g, x) <=> Has(gs[m], x) \/ in,
           NEW r, r = [i \in DOMAIN gs |-> IF i = m THEN g ELSE gs[i]]
    PROVE  Puts(gs, in, r, x)
<1>1. DOMAIN r = DOMAIN gs /\ r[m] = g /\ \A i \in DOMAIN gs : i # m => r[i] = gs[i]
  OBVIOUS
<1>2. ASSUME Once(gs, x), ~in PROVE Once(r, x)
  <2>1. PICK k \in DOMAIN gs : \A j \in DOMAIN gs : Has(gs[j], x) <=> j = k
    BY <1>2 DEF Once
  <2>2. \A j \in DOMAIN r : Has(r[j], x) <=> j = k
    BY <1>1, <1>2, <2>1
  <2> QED
    BY <1>1, <2>2 DEF Once
<1>3. ASSUME Nowhere(gs, x), in PROVE Once(r, x)
  <2>1. \A j \in DOMAIN r : Has(r[j], x) <=> j = m
    BY <1>1, <1>3 DEF Nowhere
  <2> QED
    BY <1>1, <2>1 DEF Once
<1>4. ASSUME Nowhere(gs, x), ~in PROVE Nowhere(r, x)
  BY <1>1, <1>4 DEF Nowhere
<1> QED
  BY <1>2, <1>3, <1>4 DEF Puts

(* What is put once is there once, whenever that happens. *)
LEMMA Counted ==
    ASSUME NEW N \in Nat, NEW f, NEW x, NEW In \in SUBSET (1..N),
           \A n \in 1..N : Puts(f[n - 1], n \in In, f[n], x)
    PROVE  /\ Once(f[0], x) /\ In = {} => Once(f[N], x)
           /\ Nowhere(f[0], x) /\ (\E k \in In : \A j \in In : j = k) => Once(f[N], x)
<1>1. ASSUME Once(f[0], x), In = {} PROVE Once(f[N], x)
  <2> DEFINE Good == {n \in 0..N : Once(f[n], x)}
  <2>1. 0 \in Good
    BY <1>1
  <2>2. ASSUME NEW n \in 1..N, n - 1 \in Good PROVE n \in Good
    BY <1>1, <2>2 DEF Puts
  <2> HIDE DEF Good
  <2>3. N \in Good
    BY <2>1, <2>2, UpTo
  <2> QED
    BY <2>3 DEF Good
<1>2. ASSUME Nowhere(f[0], x), NEW k \in In, \A j \in In : j = k PROVE Once(f[N], x)
  <2> DEFINE Good == {n \in 0..N : IF n < k THEN Nowhere(f[n], x) ELSE Once(f[n], x)}
  <2>1. 0 \in Good
    BY <1>2
  <2>2. ASSUME NEW n \in 1..N, n - 1 \in Good PROVE n \in Good
    <3>1. Puts(f[n - 1], n \in In, f[n], x) /\ (n \in In <=> n = k) /\ k \in 1..N
      BY <1>2
    <3>2. n - 1 < k <=> n <= k
      BY <3>1
    <3>3. IF n - 1 < k THEN Nowhere(f[n - 1], x) ELSE Once(f[n - 1], x)
      BY <2>2
    <3>4. CASE n < k
      <4>1. n # k /\ n <= k /\ n \in 0..N
        BY <3>1, <3>4
      <4> QED
        BY <3>1, <3>2, <3>3, <3>4, <4>1 DEF Puts
    <3>5. CASE n = k
      <4>1. n <= k /\ ~(n < k) /\ n \in 0..N
        BY <3>1, <3>5
      <4> QED
        BY <3>1, <3>2, <3>3, <3>5, <4>1 DEF Puts
    <3>6. CASE n > k
      <4>1. n # k /\ ~(n <= k) /\ ~(n < k) /\ n \in 0..N
        BY <3>1, <3>6
      <4> QED
        BY <3>1, <3>2, <3>3, <4>1 DEF Puts
    <3> QED
      BY <3>1, <3>4, <3>5, <3>6
  <2> HIDE DEF Good
  <2>3. N \in Good
    BY <2>1, <2>2, UpTo
  <2>4. ~(N < k)
    OBVIOUS
  <2> QED
    BY <2>3, <2>4 DEF Good
<1> QED
  BY <1>1, <1>2

-----------------------------------------------------------------------------
(* Passes two and three put every item once                                *)

LEMMA BestGroupType ==
    ASSUME NEW I, Vectors(I), NEW gs \in Seq(GroupOf(I)), NEW x \in I
    PROVE  BestGroup(gs, x) \in {0} \cup DOMAIN gs
<1> DEFINE near == {k \in DOMAIN gs : Close(gs[k].centroid, x.emb)}
           gap == [k \in near |-> Gap(gs[k].centroid, x.emb)]
           best == {k \in near : \A o \in near : Gap(gs[k].centroid, x.emb) <= Gap(gs[o].centroid, x.emb)}
<1>1. BestGroup(gs, x) = IF near = {} THEN 0 ELSE CHOOSE k \in best : \A o \in best : o <= k
  BY DEF BestGroup
<1>2. Len(gs) \in Nat /\ DOMAIN gs = 1..Len(gs) /\ \A k \in DOMAIN gs : gs[k] \in GroupOf(I)
  OBVIOUS
<1>3. IsFiniteSet(DOMAIN gs)
  BY <1>2, FS_Interval
<1>4. IsFiniteSet(near) /\ near \subseteq DOMAIN gs /\ best \subseteq DOMAIN gs
  BY <1>3, FS_Subset
<1>5. IsFiniteSet(best)
  BY <1>4, FS_Subset
<1>6. \A k \in near : gap[k] \in Int
  <2>1. ASSUME NEW k \in DOMAIN gs PROVE gs[k].centroid \in Int
    BY <1>2 DEF GroupOf
  <2>2. x.emb \in Int
    BY DEF Vectors
  <2> QED
    BY <2>1, <2>2 DEF Gap
<1>7. \A k \in near : k \in best <=> \A o \in near : gap[k] <= gap[o]
  OBVIOUS
<1>8. best \subseteq near
  OBVIOUS
<1> HIDE DEF near, gap, best
<1>9. CASE near = {}
  BY <1>1, <1>9
<1>10. CASE near # {}
  <2> DEFINE T == {gap[k] : k \in near}
  <2>1. IsFiniteSet(T)
    <3> HIDE DEF T
    <3>1. T = {gap[k] : k \in near}
      BY DEF T
    <3> QED
      BY <1>4, <3>1, ImageFinite
  <2>2. T \in SUBSET Int /\ T # {}
    BY <1>6, <1>10
  <2>3. PICK m \in T : \A o \in T : m <= o
    <3> HIDE DEF T
    <3> QED
      BY <2>1, <2>2, Extremes
  <2>4. PICK k \in near : gap[k] = m
    OBVIOUS
  <2>5. best # {}
    BY <1>7, <2>3, <2>4
  <2>6. best \in SUBSET Int
    BY <1>2, <1>4
  <2>7. PICK top \in best : \A o \in best : o <= top
    BY <1>5, <2>5, <2>6, Extremes
  <2>8. (CHOOSE b \in best : \A o \in best : o <= b) \in best
    BY <2>7
  <2> QED
    BY <1>1, <1>4, <1>10, <2>8
<1> QED
  BY <1>9, <1>10

(* One group replaced. *)
LEMMA Replaced ==
    ASSUME NEW T, NEW gs \in Seq(T), NEW m \in DOMAIN gs, NEW g \in T
    PROVE  [i \in DOMAIN gs |-> IF i = m THEN g ELSE gs[i]] \in Seq(T)
<1>1. Len(gs) \in Nat /\ DOMAIN gs = 1..Len(gs) /\ \A i \in DOMAIN gs : gs[i] \in T
  OBVIOUS
<1>2. [i \in DOMAIN gs |-> IF i = m THEN g ELSE gs[i]] \in [1..Len(gs) -> T]
  BY <1>1
<1> QED
  BY <1>1, <1>2

LEMMA AttachPuts ==
    ASSUME NEW I, Vectors(I), NEW gs \in Seq(GroupOf(I)), NEW x \in I
    PROVE  /\ Attach(gs, x) \in Seq(GroupOf(I))
           /\ \A y : Puts(gs, y = x, Attach(gs, x), y)
<1> DEFINE k == BestGroup(gs, x)
<1>1. k \in {0} \cup DOMAIN gs
  BY BestGroupType
<1>2. Attach(gs, x) = IF k = 0 THEN Append(gs, NewGroup(<<x>>))
                      ELSE [i \in DOMAIN gs |-> IF i = k THEN AddMember(gs[i], x) ELSE gs[i]]
  BY DEF Attach
<1> HIDE DEF k
<1>3. IsSeq(gs)
  BY SeqOverSet
<1>4. CASE k = 0
  <2>1. <<x>> \in Seq(I) /\ \A y : (\E j \in DOMAIN <<x>> : <<x>>[j] = y) <=> y = x
    OBVIOUS
  <2>2. NewGroup(<<x>>) \in GroupOf(I) /\ \A y : Has(NewGroup(<<x>>), y) <=> y = x
    BY <2>1, NewMembers
  <2>3. Attach(gs, x) = Append(gs, NewGroup(<<x>>))
    BY <1>2, <1>4
  <2>4. Append(gs, NewGroup(<<x>>)) \in Seq(GroupOf(I))
    BY <2>2
  <2>5. ASSUME NEW y PROVE Puts(gs, y = x, Append(gs, NewGroup(<<x>>)), y)
    <3>1. (y = x) \in BOOLEAN /\ (Has(NewGroup(<<x>>), y) <=> y = x)
      BY <2>2
    <3> QED
      BY <1>3, <3>1, PutsLast
  <2> QED
    BY <2>3, <2>4, <2>5
<1>5. CASE k # 0
  <2>1. k \in DOMAIN gs /\ gs[k] \in GroupOf(I)
    BY <1>1, <1>5
  <2> DEFINE g == AddMember(gs[k], x)
             r == [i \in DOMAIN gs |-> IF i = k THEN g ELSE gs[i]]
  <2>2. Attach(gs, x) = r
    BY <1>2, <1>5
  <2>3. g \in GroupOf(I) /\ \A y : Has(g, y) <=> Has(gs[k], y) \/ y = x
    BY <2>1, AddedMember
  <2> HIDE DEF g
  <2>4. r \in Seq(GroupOf(I))
    BY <2>1, <2>3, Replaced
  <2>5. ASSUME NEW y PROVE Puts(gs, y = x, r, y)
    <3>1. (y = x) \in BOOLEAN /\ (Has(g, y) <=> Has(gs[k], y) \/ y = x)
      BY <2>3
    <3>2. r = [i \in DOMAIN gs |-> IF i = k THEN g ELSE gs[i]]
      OBVIOUS
    <3> HIDE DEF r
    <3> QED
      BY <2>1, <3>1, <3>2, PutsInto
  <2> QED
    BY <2>2, <2>4, <2>5
<1> QED
  BY <1>4, <1>5

LEMMA MergePuts ==
    ASSUME NEW I, Vectors(I), NEW gs \in Seq(GroupOf(I)), NEW g \in GroupOf(I)
    PROVE  /\ Merge(gs, g) \in Seq(GroupOf(I))
           /\ \A y : Puts(gs, Has(g, y), Merge(gs, g), y)
<1> DEFINE fit == {k \in DOMAIN gs : /\ Close(gs[k].centroid, g.centroid)
                                     /\ SharesTemplates(gs[k].templates, g.templates)}
           first == CHOOSE k \in fit : \A o \in fit : k <= o
<1>1. Merge(gs, g) = IF fit = {} THEN Append(gs, g)
                     ELSE [i \in DOMAIN gs |-> IF i = first THEN Join(gs[i], g.members) ELSE gs[i]]
  BY DEF Merge
<1>2. Len(gs) \in Nat /\ DOMAIN gs = 1..Len(gs) /\ fit \subseteq DOMAIN gs /\ IsSeq(gs)
  BY SeqOverSet
<1>3. fit \in SUBSET Nat
  BY <1>2
<1>4. fit # {} => first \in fit
  <2> HIDE DEF fit
  <2>1. ASSUME fit # {} PROVE \E k \in fit : \A o \in fit : k <= o
    BY <1>3, <2>1, LeastNumber
  <2> QED
    BY <2>1
<1> HIDE DEF fit, first
<1>5. \A y : Has(g, y) \in BOOLEAN
  BY DEF Has
<1>6. CASE fit = {}
  BY <1>1, <1>2, <1>5, <1>6, PutsLast
<1>7. CASE fit # {}
  <2>1. first \in DOMAIN gs /\ gs[first] \in GroupOf(I) /\ g.members \in Seq(I)
    <3>1. first \in DOMAIN gs
      BY <1>2, <1>4, <1>7
    <3>2. gs[first] \in GroupOf(I)
      BY <3>1
    <3> QED
      BY <3>1, <3>2 DEF GroupOf
  <2> DEFINE h == Join(gs[first], g.members)
             r == [i \in DOMAIN gs |-> IF i = first THEN h ELSE gs[i]]
  <2>2. Merge(gs, g) = r
    BY <1>1, <1>7
  <2>3. h \in GroupOf(I) /\ \A y : Has(h, y) <=> Has(gs[first], y) \/ Has(g, y)
    BY <2>1, Joined DEF Has
  <2> HIDE DEF h
  <2>4. r \in Seq(GroupOf(I))
    BY <2>1, <2>3, Replaced
  <2>5. ASSUME NEW y PROVE Puts(gs, Has(g, y), r, y)
    <3>1. r = [i \in DOMAIN gs |-> IF i = first THEN h ELSE gs[i]]
      OBVIOUS
    <3> HIDE DEF r
    <3> QED
      BY <1>5, <2>1, <2>3, <3>1, PutsInto
  <2> QED
    BY <2>2, <2>4, <2>5
<1> QED
  BY <1>6, <1>7

(* Pass two, item by item. *)
LEMMA AttachedSteps ==
    ASSUME NEW I, Vectors(I), NEW bs \in Seq(GroupOf(I)), NEW ls \in Seq(I)
    PROVE  \E c \in [0..Len(ls) -> Seq(GroupOf(I))] :
              /\ c[0] = bs /\ c[Len(ls)] = Attached(bs, ls)
              /\ \A n \in 1..Len(ls) : c[n] = Attach(c[n - 1], ls[n])
<1> DEFINE N == Len(ls)
           S == Seq(GroupOf(I))
           attached[n \in 0..N] == IF n = 0 THEN bs ELSE Attach(attached[n - 1], ls[n])
           step == [p \in S \X (1..N) |-> Attach(p[1], ls[p[2]])]
<1>1. N \in Nat /\ \A n \in 1..N : ls[n] \in I
  OBVIOUS
<1>2. \A h \in S, n \in 1..N : Attach(h, ls[n]) \in S
  BY <1>1, AttachPuts
<1>3. step \in [S \X (1..N) -> S] /\ \A h \in S, n \in 1..N : step[<<h, n>>] = Attach(h, ls[n])
  BY <1>2
<1>4. Attached(bs, ls) = attached[N] /\ bs \in S
  BY DEF Attached
<1>5. attached = CHOOSE h : h = [n \in 0..N |-> IF n = 0 THEN bs ELSE Attach(h[n - 1], ls[n])]
  OBVIOUS
<1> HIDE DEF step, N, S
<1>6. \E f : f = [n \in 0..N |-> IF n = 0 THEN bs ELSE Attach(f[n - 1], ls[n])]
  <2>1. Foldable(N, S, bs, step)
    BY <1>1, <1>3, <1>4 DEF Foldable
  <2>2. PICK f : IsFold(f, N, S, bs, step)
    BY <2>1, Folded
  <2>3. f \in [0..N -> S] /\ f[0] = bs /\ \A n \in 1..N : f[n] = step[<<f[n - 1], n>>]
    BY <2>2 DEF IsFold
  <2>4. ASSUME NEW n \in 0..N PROVE f[n] = IF n = 0 THEN bs ELSE Attach(f[n - 1], ls[n])
    <3>1. CASE n = 0
      BY <2>3, <3>1
    <3>2. CASE n # 0
      <4>1. n \in 1..N /\ n - 1 \in 0..N
        BY <1>1, <3>2
      <4> QED
        BY <1>3, <2>3, <3>2, <4>1
    <3> QED
      BY <3>1, <3>2
  <2>5. f = [n \in 0..N |-> IF n = 0 THEN bs ELSE Attach(f[n - 1], ls[n])]
    BY <2>3, <2>4
  <2> QED
    BY <2>5
<1>7. PICK c : /\ c = attached
               /\ c = [n \in 0..N |-> IF n = 0 THEN bs ELSE Attach(c[n - 1], ls[n])]
  <2> DEFINE c == CHOOSE h : h = [n \in 0..N |-> IF n = 0 THEN bs ELSE Attach(h[n - 1], ls[n])]
  <2>1. c = [n \in 0..N |-> IF n = 0 THEN bs ELSE Attach(c[n - 1], ls[n])]
    BY <1>6
  <2> QED
    BY <1>5, <2>1
<1> HIDE DEF attached
<1>8. c[0] = bs /\ \A n \in 1..N : c[n] = Attach(c[n - 1], ls[n])
  BY <1>1, <1>7
<1> DEFINE Good == {n \in 0..N : c[n] \in S}
<1>9. 0 \in Good
  BY <1>1, <1>4, <1>8
<1>10. ASSUME NEW n \in 1..N, n - 1 \in Good PROVE n \in Good
  BY <1>1, <1>2, <1>8, <1>10
<1>11. \A n \in 0..N : c[n] \in S
  <2>1. \A n \in 0..N : n \in Good
    <3> HIDE DEF Good
    <3> QED
      BY <1>1, <1>9, <1>10, UpTo
  <2> QED
    BY <2>1
<1>12. c \in [0..N -> S]
  BY <1>7, <1>11
<1> QED
  BY <1>4, <1>7, <1>8, <1>12 DEF N, S

(* Pass three, group by group. *)
LEMMA MergedSteps ==
    ASSUME NEW I, Vectors(I), NEW gs \in Seq(GroupOf(I))
    PROVE  \E c \in [0..Len(gs) -> Seq(GroupOf(I))] :
              /\ c[0] = <<>> /\ c[Len(gs)] = Merged(gs)
              /\ \A n \in 1..Len(gs) : c[n] = Merge(c[n - 1], gs[n])
<1> DEFINE N == Len(gs)
           S == Seq(GroupOf(I))
           merged[n \in 0..N] == IF n = 0 THEN <<>> ELSE Merge(merged[n - 1], gs[n])
           step == [p \in S \X (1..N) |-> Merge(p[1], gs[p[2]])]
<1>1. N \in Nat /\ \A n \in 1..N : gs[n] \in GroupOf(I)
  OBVIOUS
<1>2. \A h \in S, n \in 1..N : Merge(h, gs[n]) \in S
  BY <1>1, MergePuts
<1>3. step \in [S \X (1..N) -> S] /\ \A h \in S, n \in 1..N : step[<<h, n>>] = Merge(h, gs[n])
  BY <1>2
<1>4. Merged(gs) = merged[N] /\ <<>> \in S
  BY DEF Merged
<1>5. merged = CHOOSE h : h = [n \in 0..N |-> IF n = 0 THEN <<>> ELSE Merge(h[n - 1], gs[n])]
  OBVIOUS
<1> HIDE DEF step, N, S
<1>6. \E f : f = [n \in 0..N |-> IF n = 0 THEN <<>> ELSE Merge(f[n - 1], gs[n])]
  <2>1. Foldable(N, S, <<>>, step)
    BY <1>1, <1>3, <1>4 DEF Foldable
  <2>2. PICK f : IsFold(f, N, S, <<>>, step)
    BY <2>1, Folded
  <2>3. f \in [0..N -> S] /\ f[0] = <<>> /\ \A n \in 1..N : f[n] = step[<<f[n - 1], n>>]
    BY <2>2 DEF IsFold
  <2>4. ASSUME NEW n \in 0..N PROVE f[n] = IF n = 0 THEN <<>> ELSE Merge(f[n - 1], gs[n])
    <3>1. CASE n = 0
      BY <2>3, <3>1
    <3>2. CASE n # 0
      <4>1. n \in 1..N /\ n - 1 \in 0..N
        BY <1>1, <3>2
      <4> QED
        BY <1>3, <2>3, <3>2, <4>1
    <3> QED
      BY <3>1, <3>2
  <2>5. f = [n \in 0..N |-> IF n = 0 THEN <<>> ELSE Merge(f[n - 1], gs[n])]
    BY <2>3, <2>4
  <2> QED
    BY <2>5
<1>7. PICK c : /\ c = merged
               /\ c = [n \in 0..N |-> IF n = 0 THEN <<>> ELSE Merge(c[n - 1], gs[n])]
  <2> DEFINE c == CHOOSE h : h = [n \in 0..N |-> IF n = 0 THEN <<>> ELSE Merge(h[n - 1], gs[n])]
  <2>1. c = [n \in 0..N |-> IF n = 0 THEN <<>> ELSE Merge(c[n - 1], gs[n])]
    BY <1>6
  <2> QED
    BY <1>5, <2>1
<1> HIDE DEF merged
<1>8. c[0] = <<>> /\ \A n \in 1..N : c[n] = Merge(c[n - 1], gs[n])
  BY <1>1, <1>7
<1> DEFINE Good == {n \in 0..N : c[n] \in S}
<1>9. 0 \in Good
  BY <1>1, <1>4, <1>8
<1>10. ASSUME NEW n \in 1..N, n - 1 \in Good PROVE n \in Good
  BY <1>1, <1>2, <1>8, <1>10
<1>11. \A n \in 0..N : c[n] \in S
  <2>1. \A n \in 0..N : n \in Good
    <3> HIDE DEF Good
    <3> QED
      BY <1>1, <1>9, <1>10, UpTo
  <2> QED
    BY <2>1
<1>12. c \in [0..N -> S]
  BY <1>7, <1>11
<1> QED
  BY <1>4, <1>7, <1>8, <1>12 DEF N, S

-----------------------------------------------------------------------------
(* The launch as a whole                                                   *)

(* The items of a fingerprint, each once. *)
LEMMA FpItems ==
    ASSUME NEW l, IsLaunch(l), NEW fp, NEW I, I = {l[i] : i \in DOMAIN l},
           NEW ms, ms = ById(WithFp(l, fp))
    PROVE  /\ ms \in Seq(I)
           /\ \A y : (\E j \in DOMAIN ms : ms[j] = y) <=> y \in I /\ y.fp = fp
           /\ \A i, j \in DOMAIN ms : ms[i] = ms[j] => i = j
<1> DEFINE w == WithFp(l, fp)
<1>1. /\ IsLaunch(w)
      /\ \A k \in DOMAIN w : \E i \in DOMAIN l : w[k] = l[i] /\ l[i].fp = fp
      /\ \A i \in DOMAIN l : l[i].fp = fp => \E k \in DOMAIN w : w[k] = l[i]
  BY WithFpItems
<1> HIDE DEF w
<1>2. /\ IsLaunch(ms)
      /\ \A k \in DOMAIN ms : \E i \in DOMAIN w : ms[k] = w[i]
      /\ \A i \in DOMAIN w : \E k \in DOMAIN ms : ms[k] = w[i]
  BY <1>1, ByIdItems DEF w
<1>3. Len(ms) \in Nat /\ DOMAIN ms = 1..Len(ms) /\ ms \in Seq(Range(ms))
  BY <1>2, SeqDomain DEF IsLaunch, IsSeq
<1>4. \A k \in DOMAIN ms : ms[k] \in I /\ ms[k].fp = fp
  BY <1>1, <1>2
<1>5. ms \in Seq(I)
  <2>1. ms \in [1..Len(ms) -> Range(ms)]
    BY <1>3, LenProperties
  <2>2. ms \in [1..Len(ms) -> I]
    BY <1>3, <1>4, <2>1
  <2> QED
    BY <1>3, <2>2
<1>6. ASSUME NEW y \in I, y.fp = fp PROVE \E j \in DOMAIN ms : ms[j] = y
  <2>1. PICK i \in DOMAIN l : y = l[i]
    OBVIOUS
  <2>2. PICK k \in DOMAIN w : w[k] = l[i]
    BY <1>1, <1>6, <2>1
  <2> QED
    BY <1>2, <2>1, <2>2
<1>7. \A i, j \in DOMAIN ms : ms[i] = ms[j] => i = j
  BY <1>2 DEF IsLaunch
<1> QED
  BY <1>4, <1>5, <1>6, <1>7

(* Pass one: a fingerprinted item is in the bucket of its fingerprint. *)
LEMMA BucketsPut ==
    ASSUME NEW l, IsLaunch(l), NEW I, I = {l[i] : i \in DOMAIN l}
    PROVE  /\ Buckets(l) \in Seq(GroupOf(I))
           /\ \A y \in I : IF y.fp = 0 THEN Nowhere(Buckets(l), y) ELSE Once(Buckets(l), y)
<1> DEFINE F == {l[i].fp : i \in DOMAIN l} \ {0}
           n == Cardinality(F)
           fps == Ascending(F)
           bs == Buckets(l)
<1>1. IsFiniteSet(F)
  <2>1. Len(l) \in Nat /\ DOMAIN l = 1..Len(l)
    BY SeqDomain DEF IsLaunch
  <2>2. IsFiniteSet(DOMAIN l)
    BY <2>1, FS_Interval
  <2> DEFINE f == [i \in DOMAIN l |-> l[i].fp]
             T == {f[i] : i \in DOMAIN l}
  <2>3. IsFiniteSet(T)
    <3>1. T = {f[i] : i \in DOMAIN l}
      OBVIOUS
    <3> HIDE DEF T, f
    <3> QED
      BY <2>2, <3>1, ImageFinite
  <2>4. F \subseteq T
    OBVIOUS
  <2> QED
    BY <2>3, <2>4, FS_Subset
<1>2. F \in SUBSET Int
  BY DEF IsLaunch
<1>3. /\ 0 \notin F
      /\ \A y \in I : y.fp # 0 => y.fp \in F
  OBVIOUS
<1>4. bs = [k \in DOMAIN fps |-> NewGroup(ById(WithFp(l, fps[k])))]
  BY DEF Buckets
<1> HIDE DEF F
<1>5. /\ n \in Nat /\ fps \in [1..n -> F]
      /\ \A i \in F : \E k \in 1..n : fps[k] = i
      /\ \A k, h \in 1..n : h < k <=> fps[h] < fps[k]
  BY <1>1, <1>2, AscendingEntries
<1> HIDE DEF n, fps, bs
<1>6. Vectors(I)
  BY DEF Vectors, IsLaunch
<1>7. ASSUME NEW k \in 1..n
      PROVE  bs[k] \in GroupOf(I) /\ \A y : Has(bs[k], y) <=> y \in I /\ y.fp = fps[k]
  <2> DEFINE ms == ById(WithFp(l, fps[k]))
  <2>1. ms \in Seq(I) /\ \A y : (\E j \in DOMAIN ms : ms[j] = y) <=> y \in I /\ y.fp = fps[k]
    <3>1. ms = ById(WithFp(l, fps[k]))
      OBVIOUS
    <3> HIDE DEF ms
    <3> QED
      BY <3>1, FpItems
  <2>2. bs[k] = NewGroup(ms)
    BY <1>4, <1>5
  <2> HIDE DEF ms
  <2> QED
    BY <1>6, <2>1, <2>2, NewMembers
<1>8. DOMAIN bs = 1..n /\ bs \in [1..n -> GroupOf(I)]
  BY <1>4, <1>5, <1>7
<1>9. bs \in Seq(GroupOf(I))
  BY <1>5, <1>8
<1>10. ASSUME NEW y \in I, y.fp = 0 PROVE Nowhere(bs, y)
  <2>1. ASSUME NEW k \in 1..n PROVE ~Has(bs[k], y)
    <3>1. fps[k] # 0
      BY <1>3, <1>5
    <3> QED
      BY <1>7, <1>10, <3>1
  <2> QED
    BY <1>8, <2>1 DEF Nowhere
<1>11. ASSUME NEW y \in I, y.fp # 0 PROVE Once(bs, y)
  <2>1. PICK k \in 1..n : fps[k] = y.fp
    BY <1>3, <1>5, <1>11
  <2>2. ASSUME NEW j \in 1..n, fps[j] = fps[k] PROVE j = k
    <3>1. fps[k] \in Int
      BY <1>2, <1>5
    <3>2. ~(j < k) /\ ~(k < j)
      BY <1>5, <2>2, <3>1
    <3> QED
      BY <1>5, <3>2
  <2>3. \A j \in DOMAIN bs : Has(bs[j], y) <=> j = k
    BY <1>7, <1>8, <2>1, <2>2
  <2> QED
    BY <1>8, <2>3 DEF Once
<1> QED
  BY <1>9, <1>10, <1>11 DEF bs

LEMMA AttachedOnce ==
    ASSUME NEW I, Vectors(I), NEW bs \in Seq(GroupOf(I)), NEW ls \in Seq(I),
           \A i, j \in DOMAIN ls : ls[i] = ls[j] => i = j
    PROVE  /\ Attached(bs, ls) \in Seq(GroupOf(I))
           /\ \A y \in I : IF \E j \in DOMAIN ls : ls[j] = y
                           THEN Nowhere(bs, y) => Once(Attached(bs, ls), y)
                           ELSE Once(bs, y) => Once(Attached(bs, ls), y)
<1> DEFINE N == Len(ls)
<1>1. N \in Nat /\ DOMAIN ls = 1..N /\ \A n \in 1..N : ls[n] \in I
  OBVIOUS
<1>2. PICK c \in [0..N -> Seq(GroupOf(I))] :
        /\ c[0] = bs /\ c[N] = Attached(bs, ls)
        /\ \A n \in 1..N : c[n] = Attach(c[n - 1], ls[n])
  BY AttachedSteps
<1> HIDE DEF N
<1>3. Attached(bs, ls) \in Seq(GroupOf(I))
  BY <1>1, <1>2
<1>4. ASSUME NEW y \in I
      PROVE  IF \E j \in DOMAIN ls : ls[j] = y
             THEN Nowhere(bs, y) => Once(Attached(bs, ls), y)
             ELSE Once(bs, y) => Once(Attached(bs, ls), y)
  <2> DEFINE In == {n \in 1..N : y = ls[n]}
  <2>1. ASSUME NEW n \in 1..N PROVE Puts(c[n - 1], n \in In, c[n], y)
    <3>1. n - 1 \in 0..N /\ c[n - 1] \in Seq(GroupOf(I)) /\ ls[n] \in I
      BY <1>1
    <3>2. \A z : Puts(c[n - 1], z = ls[n], Attach(c[n - 1], ls[n]), z)
      BY <3>1, AttachPuts
    <3>3. ((y = ls[n]) <=> n \in In) /\ c[n] = Attach(c[n - 1], ls[n])
      BY <1>2
    <3> QED
      BY <3>2, <3>3 DEF Puts
  <2>2. In \in SUBSET (1..N) /\ \A n \in 1..N : n \in In <=> y = ls[n]
    OBVIOUS
  <2> HIDE DEF In
  <2>3. /\ Once(c[0], y) /\ In = {} => Once(c[N], y)
        /\ Nowhere(c[0], y) /\ (\E k \in In : \A j \in In : j = k) => Once(c[N], y)
    BY <1>1, <2>1, <2>2, Counted
  <2>4. CASE \E j \in DOMAIN ls : ls[j] = y
    <3>1. PICK j \in 1..N : ls[j] = y
      BY <1>1, <2>4
    <3>2. j \in In /\ \A k \in In : k = j
      BY <1>1, <2>2, <3>1
    <3> QED
      BY <1>2, <2>3, <2>4, <3>2
  <2>5. CASE ~\E j \in DOMAIN ls : ls[j] = y
    <3>1. In = {}
      BY <1>1, <2>2, <2>5
    <3> QED
      BY <1>2, <2>3, <2>5, <3>1
  <2> QED
    BY <2>4, <2>5
<1> QED
  BY <1>3, <1>4

LEMMA MergedOnce ==
    ASSUME NEW I, Vectors(I), NEW gs \in Seq(GroupOf(I)), NEW y, Once(gs, y)
    PROVE  Once(Merged(gs), y)
<1> DEFINE N == Len(gs)
           In == {n \in 1..N : Has(gs[n], y)}
<1>1. N \in Nat /\ DOMAIN gs = 1..N /\ \A n \in 1..N : gs[n] \in GroupOf(I)
  OBVIOUS
<1>2. PICK c \in [0..N -> Seq(GroupOf(I))] :
        /\ c[0] = <<>> /\ c[N] = Merged(gs)
        /\ \A n \in 1..N : c[n] = Merge(c[n - 1], gs[n])
  BY MergedSteps
<1>3. In \in SUBSET (1..N) /\ \A n \in 1..N : n \in In <=> Has(gs[n], y)
  OBVIOUS
<1> HIDE DEF N, In
<1>4. ASSUME NEW n \in 1..N PROVE Puts(c[n - 1], n \in In, c[n], y)
  <2>1. n - 1 \in 0..N /\ c[n - 1] \in Seq(GroupOf(I)) /\ gs[n] \in GroupOf(I)
    BY <1>1
  <2>2. Puts(c[n - 1], Has(gs[n], y), c[n], y)
    BY <1>2, <2>1, MergePuts
  <2> QED
    BY <1>3, <2>2 DEF Puts
<1>5. Nowhere(c[0], y)
  BY <1>2 DEF Nowhere
<1>6. \E k \in In : \A j \in In : j = k
  <2>1. PICK k \in DOMAIN gs : \A j \in DOMAIN gs : Has(gs[j], y) <=> j = k
    BY DEF Once
  <2>2. k \in In /\ \A j \in In : j = k
    BY <1>1, <1>3, <2>1
  <2> QED
    BY <2>2
<1> QED
  BY <1>1, <1>2, <1>3, <1>4, <1>5, <1>6, Counted

LEMMA GroupedOnce ==
    ASSUME NEW l, IsLaunch(l), NEW seen, NEW gs, gs = GroupLaunch(l, seen)
    PROVE  \A m \in DOMAIN l :
              Cardinality({k \in DOMAIN gs : \E j \in DOMAIN gs[k].members : gs[k].members[j] = l[m]}) = 1
<1> TAKE m \in DOMAIN l
<1> DEFINE I == {l[i] : i \in DOMAIN l}
           bs == Buckets(l)
           ls == ById(WithFp(l, 0))
           ats == Attached(bs, ls)
           mgs == Merged(ats)
           x == l[m]
<1>1. x \in I /\ Vectors(I)
  BY DEF Vectors, IsLaunch
<1>2. bs \in Seq(GroupOf(I)) /\ \A y \in I : IF y.fp = 0 THEN Nowhere(bs, y) ELSE Once(bs, y)
  BY BucketsPut
<1>3. /\ ls \in Seq(I)
      /\ \A y : (\E j \in DOMAIN ls : ls[j] = y) <=> y \in I /\ y.fp = 0
      /\ \A i, j \in DOMAIN ls : ls[i] = ls[j] => i = j
  BY FpItems
<1>4. gs = [k \in DOMAIN mgs |-> Finish(mgs[k], Len(l), seen)]
  BY DEF GroupLaunch
<1> HIDE DEF I, bs, ls, x
<1>5. ats \in Seq(GroupOf(I)) /\ \A y \in I : IF \E j \in DOMAIN ls : ls[j] = y
                                              THEN Nowhere(bs, y) => Once(ats, y)
                                              ELSE Once(bs, y) => Once(ats, y)
  BY <1>1, <1>2, <1>3, AttachedOnce
<1>6. Once(ats, x)
  BY <1>1, <1>2, <1>3, <1>5
<1> HIDE DEF ats
<1>7. Once(mgs, x)
  BY <1>1, <1>5, <1>6, MergedOnce
<1> HIDE DEF mgs
<1>8. DOMAIN gs = DOMAIN mgs /\ \A k \in DOMAIN gs : gs[k].members = mgs[k].members
  BY <1>4 DEF Finish
<1>9. PICK k \in DOMAIN mgs : \A j \in DOMAIN mgs : Has(mgs[j], x) <=> j = k
  BY <1>7 DEF Once
<1>10. {n \in DOMAIN gs : \E j \in DOMAIN gs[n].members : gs[n].members[j] = x} = {k}
  BY <1>8, <1>9 DEF Has
<1>11. Cardinality({k}) = 1
  BY FS_Singleton
<1> QED
  BY <1>10, <1>11 DEF x

(* The groups at hand are those of the launch at hand. *)
LaunchInv ==
    phase = "grouped" =>
        launch \in Launches /\ \E seen \in SUBSET {1} : groups = GroupLaunch(launch, seen)

LEMMA LaunchKept == Spec => []LaunchInv
<1>1. Init => LaunchInv
  BY DEF Init, LaunchInv
<1>2. LaunchInv /\ [Next]_vars => LaunchInv'
  <2> SUFFICES ASSUME LaunchInv, [Next]_vars PROVE LaunchInv'
    OBVIOUS
  <2>1. CASE Ask
    BY <2>1 DEF Ask, LaunchInv
  <2>2. CASE DecideItem
    BY <2>2 DEF DecideItem, LaunchInv
  <2>3. CASE Answer
    BY <2>3 DEF Answer, LaunchInv
  <2>4. CASE Search
    BY <2>4 DEF Search, LaunchInv
  <2>5. CASE AskLaunch
    BY <2>5 DEF AskLaunch, LaunchInv
  <2>6. CASE Done
    BY <2>6 DEF Done, LaunchInv
  <2>7. CASE UNCHANGED vars
    BY <2>7 DEF vars, LaunchInv
  <2> QED
    BY <2>1, <2>2, <2>3, <2>4, <2>5, <2>6, <2>7 DEF Next
<1> QED
  BY <1>1, <1>2, PTL DEF Spec

(* For every launch, in whatever order its items are sent: the groups,     *)
(* their representatives and their priors are the same, and the three      *)
(* passes lose no item and put none into two groups.                       *)
THEOREM GroupsAreStable == Spec => []GroupsStable
<1>1. LaunchInv => GroupsStable
  <2> SUFFICES ASSUME LaunchInv, phase = "grouped"
               PROVE  /\ \A i \in DOMAIN launch :
                            Cardinality({k \in DOMAIN groups :
                                \E j \in DOMAIN groups[k].members : groups[k].members[j] = launch[i]}) = 1
                      /\ \E seen \in SUBSET {1} : \A p \in Bijection(DOMAIN launch, DOMAIN launch) :
                            GroupsOf(GroupLaunch([i \in DOMAIN launch |-> launch[p[i]]], seen)) = GroupsOf(groups)
    BY DEF GroupsStable
  <2>1. PICK seen \in SUBSET {1} : groups = GroupLaunch(launch, seen)
    BY DEF LaunchInv
  <2>2. IsLaunch(launch)
    BY AnalysisAssumption DEF LaunchInv
  <2>3. \A i \in DOMAIN launch :
           Cardinality({k \in DOMAIN groups :
               \E j \in DOMAIN groups[k].members : groups[k].members[j] = launch[i]}) = 1
    BY <2>1, <2>2, GroupedOnce
  <2>4. ASSUME NEW p \in Bijection(DOMAIN launch, DOMAIN launch)
        PROVE  GroupsOf(GroupLaunch([i \in DOMAIN launch |-> launch[p[i]]], seen)) = GroupsOf(groups)
    <3> DEFINE m == [i \in DOMAIN launch |-> launch[p[i]]]
    <3>1. IsLaunch(m) /\ SameEntries(m, launch) /\ Len(m) = Len(launch)
      BY <2>2, PermutedLaunch
    <3> HIDE DEF m
    <3>2. GroupLaunch(m, seen) = groups
      BY <2>1, <2>2, <3>1, GroupLaunchSame
    <3> QED
      BY <3>2 DEF m
  <2> QED
    BY <2>3, <2>4
<1> QED
  BY <1>1, LaunchKept, PTL
=============================================================================
