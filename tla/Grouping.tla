------------------------------ MODULE Grouping ------------------------------
(***************************************************************************)
(* core/grouping.py: how the failures of one launch are grouped so that    *)
(* one diagnosis serves a whole group.  Pure operators.                    *)
(*                                                                         *)
(* An item is [id, fp, hash, emb, stack, logs, templates].  An embedding   *)
(* is an angle in degrees or NoEmb, and a centroid the running mean of     *)
(* angles; two of them are close when their cosine is at least             *)
(* THETA_GROUP, which is at most Theta degrees apart.                      *)
(***************************************************************************)
EXTENDS Lists

CONSTANTS
    BurstShare,    \* ANALYZER_BURST_SI_SHARE, in per cent
    BurstSize      \* BURST_N

ASSUME GroupingAssumption == BurstShare \in 0..100 /\ BurstSize \in Nat \ {0}

Theta == 33
NoEmb == -1
SiPriorCap == 90
SiPriorBase == 50

Gap(a, b) == IF a >= b THEN a - b ELSE b - a

(* _cosine >= theta; a missing vector is close to nothing. *)
Close(a, b) == a # NoEmb /\ b # NoEmb /\ Gap(a, b) <= Theta

(* _jaccard >= JACCARD_MIN; two empty sets share nothing. *)
SharesTemplates(a, b) ==
    a \cup b # {} /\ 2 * Cardinality(a \cap b) >= Cardinality(a \cup b)

(* _add_member: the running mean weighs the members that have a vector. *)
AddMember(g, item) ==
    LET n == Cardinality({i \in DOMAIN g.members : g.members[i].emb # NoEmb})
    IN [ members |-> Append(g.members, item),
         centroid |-> IF item.emb = NoEmb THEN g.centroid
                      ELSE IF g.centroid = NoEmb \/ n = 0 THEN item.emb
                      ELSE (g.centroid * n + item.emb) \div (n + 1),
         templates |-> g.templates \cup item.templates ]

EmptyGroup == [members |-> <<>>, centroid |-> NoEmb, templates |-> {}]

(* The members of one group join another, one after the other. *)
Join(g, members) ==
    LET joined[n \in 0..Len(members)] ==
            IF n = 0 THEN g ELSE AddMember(joined[n - 1], members[n])
    IN joined[Len(members)]

(* _new_group: the mean of the vectors, which is what adding one member    *)
(* after another comes to.                                                 *)
NewGroup(members) == Join(EmptyGroup, members)

(* Mutant of ById: the order the items were sent in. *)
AsSent(items) == items

ById(items) ==
    Sorted(items, {p \in Pairs(items) : items[p[1]].id < items[p[2]].id})

WithFp(items, fp) == Picked(items, {i \in DOMAIN items : items[i].fp = fp})

(* Pass 1: a bucket for every exception fingerprint, in its order. *)
Buckets(items) ==
    LET fps == Ascending({items[i].fp : i \in DOMAIN items} \ {0})
    IN [k \in DOMAIN fps |-> NewGroup(ById(WithFp(items, fps[k])))]

(* Pass 2: the last of the closest groups, or 0. *)
BestGroup(groups, item) ==
    LET near == {k \in DOMAIN groups : Close(groups[k].centroid, item.emb)}
        gap(k) == Gap(groups[k].centroid, item.emb)
        best == {k \in near : \A o \in near : gap(k) <= gap(o)}
    IN IF near = {} THEN 0 ELSE CHOOSE k \in best : \A o \in best : o <= k

Attach(groups, item) ==
    LET k == BestGroup(groups, item)
    IN IF k = 0 THEN Append(groups, NewGroup(<<item>>))
       ELSE [i \in DOMAIN groups |-> IF i = k THEN AddMember(groups[i], item) ELSE groups[i]]

(* Pass 3, _merge_close: each group joins the first one before it that is  *)
(* close and shares templates.                                             *)
Merge(merged, g) ==
    LET fit == {k \in DOMAIN merged : /\ Close(merged[k].centroid, g.centroid)
                                      /\ SharesTemplates(merged[k].templates, g.templates)}
        first == CHOOSE k \in fit : \A o \in fit : k <= o
    IN IF fit = {} THEN Append(merged, g)
       ELSE [i \in DOMAIN merged |-> IF i = first THEN Join(merged[i], g.members) ELSE merged[i]]

(* _representative *)
Representative(members) ==
    CHOOSE m \in Range(members) : \A o \in Range(members) :
        \/ m.stack /\ ~o.stack
        \/ m.stack = o.stack /\ m.logs > o.logs
        \/ m.stack = o.stack /\ m.logs = o.logs /\ m.id <= o.id

(* The burst prior of a group of n among total failures; new says that     *)
(* the representative's failure has no history.                            *)
SiPrior(n, total, new) ==
    IF new /\ n >= BurstSize /\ 100 * n > BurstShare * total
    THEN IF SiPriorBase + (100 * n) \div total > SiPriorCap THEN SiPriorCap
         ELSE SiPriorBase + (100 * n) \div total
    ELSE 0

(* The items without a fingerprint, one after the other. *)
Attached(buckets, leftovers) ==
    LET attached[n \in 0..Len(leftovers)] ==
            IF n = 0 THEN buckets ELSE Attach(attached[n - 1], leftovers[n])
    IN attached[Len(leftovers)]

Merged(close) ==
    LET merged[n \in 0..Len(close)] ==
            IF n = 0 THEN <<>> ELSE Merge(merged[n - 1], close[n])
    IN merged[Len(close)]

(* The group as it is replied; seen are the error hashes with a history. *)
Finish(g, total, seen) ==
    [ members |-> g.members,
      rep |-> Representative(g.members),
      si |-> SiPrior(Len(g.members), total, Representative(g.members).hash \notin seen) ]

(* group_launch *)
GroupLaunch(items, seen) ==
    LET gs == Merged(Attached(Buckets(items), ById(WithFp(items, 0))))
    IN [k \in DOMAIN gs |-> Finish(gs[k], Len(items), seen)]
=============================================================================
