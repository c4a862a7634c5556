----------------------------- MODULE MCAnalysis -----------------------------
(***************************************************************************)
(* Analysis for TLC: one query with a status code and one without, up to   *)
(* two items of history that agree or disagree with it in every way the    *)
(* stages tell apart, and launches of up to three failures.                *)
(***************************************************************************)
EXTENDS Analysis

Pb == [prefix |-> "pb", sub |-> "001"]
Ti == [prefix |-> "ti", sub |-> "001"]
Ab == [prefix |-> "ab", sub |-> "001"]

(* A seed rule matches the exception of one that is without a status code. *)
MCQueries ==
    { [item |-> 9, launch |-> 2, name |-> "n", prev |-> 1, fp |-> c[3], hash |-> 3, codes |-> c[1],
       tokens |-> {"id1", "w"}, words |-> IF c[3] = 0 THEN {} ELSE {"w"}, exc |-> c[2]] :
        c \in {<<{}, {}, 0>>, <<{}, {}, 1>>, <<{}, {"Timeout"}, 1>>, <<{500}, {}, 1>>} }

(* The templates moved on since the item was indexed; one was never. *)
MCIndexed(x) ==
    {[fp |-> x.fp, hash |-> 1, codes |-> x.codes, tokens |-> x.tokens]} \cup
    (IF x.exc = {} /\ x.codes = {} THEN {NoSignature} ELSE {})

(* A twin, one with another status code, and one with another hash. *)
MCMembers(x) ==
    IF x.fp = 0 THEN {}
    ELSE { [x EXCEPT !.item = 8], [x EXCEPT !.item = 8, !.codes = {404}],
           [x EXCEPT !.item = 8, !.hash = 2] }

(* The launch an item is in goes with its id; an exact match finds it by   *)
(* words, and its vector may be of an older version.  What is still to be  *)
(* investigated has no label event.                                        *)
RowSet(id, launchOf, nameOf) ==
    LET all == { [item |-> id, type |-> t, source |-> l[1], age |-> l[2], codes |-> c, tokens |-> w,
                  hash |-> IF h THEN 1 ELSE 2, fp |-> h, tmpl |-> h, cos |-> s,
                  launch |-> launchOf, name |-> nameOf,
                  lex |-> IF h THEN 80 ELSE 0, trgm |-> 50, vec |-> ~(h /\ s = 40)] :
                   t \in {Pb, Ab, Ti}, l \in {<<"rp", 10>>, <<"rp", 200>>, <<None, NoDate>>},
                   c \in {{}, {500}}, w \in {{"id1", "w"}, {"id2", "w"}}, h \in BOOLEAN, s \in {40, 90} }
    IN { r \in all : r.type = Ti => r.source = None /\ r.codes = {} /\ r.tokens = {"id1", "w"} }

(* A second item: the same choices, fewer of them. *)
OtherSet ==
    { r \in RowSet(4, 2, "m") : /\ r.age # 200 /\ r.tokens = {"id1", "w"}
                               /\ IF r.hash = 1 THEN r.cos = 90 ELSE r.cos = 40 /\ r.codes = {} }

MCHistories ==
    {<<>>} \cup {<<a>> : a \in RowSet(3, 1, "n")}
           \cup {<<a, b>> : a \in {r \in RowSet(3, 1, "n") :
                                       /\ r.cos = 90 \/ r.hash = 1
                                       /\ r.age = 10 \/ (r.cos = 90 /\ r.tokens = {"id1", "w"} /\ r.codes = {})},
                            b \in OtherSet}

MCModes ==
    { {}, {[mode |-> 7, status |-> "confirmed", label |-> Ab, purity |-> 96, support |-> 12,
            cos |-> 95, ver |-> 1, jac |-> 80, fps |-> {1}],
           [mode |-> 5, status |-> "candidate", label |-> Pb, purity |-> 50, support |-> 2,
            cos |-> 90, ver |-> 1, jac |-> 100, fps |-> {}]} }

MCCatalog == <<[label |-> "si", conf |-> 80, exc |-> {"Timeout"}, msg |-> {}, kw |-> {"timeout"}]>>
MCGbms == {NoGbm} \cup [label : {"pb"}, prob : {35, 60, 85}]
MCAnalyzerModes == {"LAUNCH_NAME", "unset"}

MCItems(id, embs, templates) ==
    { [id |-> id, fp |-> f, hash |-> f, emb |-> e, stack |-> (id = 2), logs |-> 1, templates |-> t] :
        f \in {0, 1}, e \in embs, t \in templates }

MCLaunches ==
    {<<>>} \cup { <<a, b, c>> : a \in MCItems(1, {NoEmb, 0}, {{}, {1}}),
                                b \in MCItems(2, {0, 30, 60}, {{}, {1}}),
                                c \in MCItems(3, {NoEmb, 0, 30, 60}, {{1}}) }
=============================================================================
