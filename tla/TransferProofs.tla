--------------------------- MODULE TransferProofs ---------------------------
(***************************************************************************)
(* Proofs about Transfer, for every source, every selection and options,   *)
(* and any number of runs of the tool and of requests that go wrong.       *)
(***************************************************************************)
EXTENDS Transfer, ListProofs

-----------------------------------------------------------------------------
(* Trees *)

(* A part of a launch that has every item's parent is a launch's items again. *)
LEMMA PickedTree ==
    ASSUME NEW s, IsTree(s), NEW S \in SUBSET DOMAIN s,
           \A p \in Kinship(s) : p[2] \in S => p[1] \in S
    PROVE  /\ IsTree(Picked(s, S))
           /\ \A k \in DOMAIN Picked(s, S) : \E i \in DOMAIN s : Picked(s, S)[k] = s[i]
<1>1. IsSeq(s)
  BY DEF IsTree
<1>2. PICK at_ \in [DOMAIN Picked(s, S) -> S] :
        /\ \A k \in DOMAIN Picked(s, S) : Picked(s, S)[k] = s[at_[k]]
        /\ \A i \in S : \E k \in DOMAIN Picked(s, S) : at_[k] = i
        /\ \A k, h \in DOMAIN Picked(s, S) : h < k <=> at_[h] < at_[k]
  BY <1>1, PickedEntries
<1> DEFINE t == Picked(s, S)
<1>3. IsSeq(t)
  BY <1>1, PickedEntries
<1> HIDE DEF t
<1>4. \A a, b \in DOMAIN t : a < b => t[a].id < t[b].id
  BY <1>2 DEF IsTree, t
<1>5. ASSUME NEW k \in DOMAIN t
      PROVE  /\ t[k].id \in Nat \ {0}
             /\ t[k].parent # 0 => \E p \in DOMAIN t : p < k /\ t[p].id = t[k].parent
             /\ t[k].parent = 0 => ~t[k].nested
  <2>1. at_[k] \in S /\ at_[k] \in DOMAIN s /\ t[k] = s[at_[k]]
    BY <1>2 DEF t
  <2>2. ASSUME t[k].parent # 0 PROVE \E p \in DOMAIN t : p < k /\ t[p].id = t[k].parent
    <3>1. PICK i \in DOMAIN s : i < at_[k] /\ s[i].id = s[at_[k]].parent
      BY <2>1, <2>2 DEF IsTree
    <3>2. <<i, at_[k]>> \in Kinship(s)
      BY <2>1, <3>1 DEF Kinship
    <3>3. i \in S
      BY <2>1, <3>2
    <3>4. PICK p \in DOMAIN t : at_[p] = i
      BY <1>2, <3>3 DEF t
    <3>5. p < k /\ t[p] = s[i]
      BY <1>2, <3>1, <3>4 DEF t
    <3> QED
      BY <2>1, <3>1, <3>5
  <2>3. t[k].id \in Nat \ {0} /\ (t[k].parent = 0 => ~t[k].nested)
    BY <2>1 DEF IsTree
  <2> QED
    BY <2>2, <2>3
<1>6. IsTree(t)
  BY <1>3, <1>4, <1>5 DEF IsTree
<1>7. \A k \in DOMAIN t : \E i \in DOMAIN s : t[k] = s[i]
  BY <1>2 DEF t
<1> QED
  BY <1>6, <1>7 DEF t

(* items_of_launch finds every item: who is not listed hangs under one who is. *)
LEMMA AllAreFound ==
    ASSUME NEW s, IsTree(s)
    PROVE  Reach(DOMAIN s, {k \in DOMAIN s : ~s[k].nested}, Kinship(s)) = DOMAIN s
<1> SUFFICES ASSUME NEW S \in SUBSET DOMAIN s, {k \in DOMAIN s : ~s[k].nested} \subseteq S,
                    \A p \in Kinship(s) : p[1] \in S => p[2] \in S
             PROVE  DOMAIN s \subseteq S
  BY DEF Reach
<1> SUFFICES ASSUME (DOMAIN s) \ S # {} PROVE FALSE
  OBVIOUS
<1>1. DOMAIN s \subseteq Nat
  BY SeqDomain DEF IsTree
<1>2. PICK k \in (DOMAIN s) \ S : \A j \in (DOMAIN s) \ S : k <= j
  BY <1>1, LeastNumber
<1>3. s[k].parent # 0
  BY <1>2 DEF IsTree
<1>4. PICK p \in DOMAIN s : p < k /\ s[p].id = s[k].parent
  BY <1>2, <1>3 DEF IsTree
<1>5. p \in S
  BY <1>1, <1>2, <1>4
<1>6. <<p, k>> \in Kinship(s)
  BY <1>2, <1>4 DEF Kinship
<1> QED
  BY <1>2, <1>5, <1>6

(* drop_passed keeps the parents of what it keeps. *)
LEMMA ParentsSurvive ==
    ASSUME NEW s
    PROVE  /\ Survivors(s) \in SUBSET DOMAIN s
           /\ \A p \in Kinship(s) : p[2] \in Survivors(s) => p[1] \in Survivors(s)
<1>1. Survivors(s) \in SUBSET DOMAIN s
  BY DEF Survivors, Reach
<1>2. ASSUME NEW p \in Kinship(s), p[2] \in Survivors(s) PROVE p[1] \in Survivors(s)
  <2>1. p[1] \in DOMAIN s /\ p[2] \in DOMAIN s
    BY DEF Kinship
  <2>2. <<p[2], p[1]>> \in {<<q[2], q[1]>> : q \in Kinship(s)}
    OBVIOUS
  <2>3. \A S \in SUBSET DOMAIN s :
          {k \in DOMAIN s : ~s[k].passed} \subseteq S
          /\ (\A q \in {<<r[2], r[1]>> : r \in Kinship(s)} : q[1] \in S => q[2] \in S) => p[1] \in S
    BY <1>2, <2>2 DEF Survivors, Reach
  <2> QED
    BY <2>1, <2>3 DEF Survivors, Reach
<1> QED
  BY <1>1, <1>2

(* What is selected are launches of the source. *)
LEMMA SelectedAreSources ==
    ASSUME opts \in OptionSets
    PROVE  /\ IsSeq(Selected)
           /\ \A l \in DOMAIN Selected : \E h \in DOMAIN Source : Selected[l] = Source[h]
<1> DEFINE S == {k \in DOMAIN Source : opts.name \in {AnyName, Source[k].name}}
           t == Picked(Source, S)
<1>1. IsSeq(Source) /\ opts.limit \in Nat /\ S \in SUBSET DOMAIN Source
  BY TransferAssumption
<1>2. Selected = SubSeq(t, 1, IF opts.limit < Len(t) THEN opts.limit ELSE Len(t))
  BY DEF Selected, Prefix, FilterByName
<1> HIDE DEF S
<1>3. IsSeq(t) /\ \A k \in DOMAIN t : \E h \in DOMAIN Source : t[k] = Source[h]
  BY <1>1, PickedEntries
<1> HIDE DEF t
<1> DEFINE m == IF opts.limit < Len(t) THEN opts.limit ELSE Len(t)
<1>4. Len(t) \in Nat /\ DOMAIN t = 1..Len(t)
  BY <1>3, SeqDomain
<1>5. m \in Nat /\ m <= Len(t)
  BY <1>1, <1>4
<1>6. Selected = SubSeq(t, 1, m)
  BY <1>2
<1> HIDE DEF m
<1>7. Selected = [k \in 1..m |-> t[k]]
  <2>1. t \in Seq(Range(t))
    BY <1>3 DEF IsSeq
  <2> QED
    BY <1>4, <1>5, <1>6, <2>1
<1>8. IsSeq(Selected)
  BY <1>5, <1>7, SeqOfFunction
<1> QED
  BY <1>3, <1>4, <1>5, <1>7, <1>8

(* What is carried of a launch are items of it, every one after its parent. *)
LEMMA ItemsAreSources ==
    ASSUME opts \in OptionSets, NEW l \in DOMAIN Selected
    PROVE  /\ IsTree(Items(l))
           /\ \A k \in DOMAIN Items(l) : \E i \in DOMAIN Selected[l].items :
                  Items(l)[k] = Selected[l].items[i]
<1> DEFINE src == Selected[l].items
           all == ItemsOfLaunch(src)
<1>1. IsTree(src)
  BY SelectedAreSources, TransferAssumption
<1>2. all = Picked(src, DOMAIN src)
  BY <1>1, AllAreFound DEF ItemsOfLaunch
<1>3. Items(l) = IF opts.skipPassed THEN DropPassed(all) ELSE all
  BY DEF Items
<1> HIDE DEF src
<1>4. IsTree(all) /\ \A k \in DOMAIN all : \E i \in DOMAIN src : all[k] = src[i]
  <2>1. \A p \in Kinship(src) : p[1] \in DOMAIN src
    BY DEF Kinship
  <2> QED
    BY <1>1, <1>2, <2>1, PickedTree
<1> HIDE DEF all
<1>5. /\ IsTree(DropPassed(all))
      /\ \A k \in DOMAIN DropPassed(all) : \E i \in DOMAIN all : DropPassed(all)[k] = all[i]
  BY <1>4, ParentsSurvive, PickedTree DEF DropPassed
<1>6. IsTree(Items(l)) /\ \A k \in DOMAIN Items(l) : \E i \in DOMAIN src : Items(l)[k] = src[i]
  <2>1. CASE opts.skipPassed
    <3>1. Items(l) = DropPassed(all)
      BY <1>3, <2>1
    <3> QED
      BY <1>4, <1>5, <3>1
  <2>2. CASE ~opts.skipPassed
    <3>1. Items(l) = all
      BY <1>3, <2>2
    <3> QED
      BY <1>4, <3>1
  <2> QED
    BY <2>1, <2>2
<1> QED
  BY <1>6 DEF src

-----------------------------------------------------------------------------
(* The invariant *)

(* The records of the target have their fields. *)
IsTarget(t) ==
    /\ t = [types |-> t.types, launches |-> t.launches, items |-> t.items]
    /\ IsSeq(t.launches) /\ IsSeq(t.items)
    /\ \A v \in DOMAIN t.launches :
          t.launches[v] = [name |-> t.launches[v].name, start |-> t.launches[v].start,
                           done |-> t.launches[v].done]
    /\ \A v \in DOMAIN t.items :
          t.items[v] = [launch |-> t.items[v].launch, of |-> t.items[v].of,
                        parent |-> t.items[v].parent, logs |-> t.items[v].logs,
                        done |-> t.items[v].done, issue |-> t.items[v].issue]

(* The types created since the first run are numbered, so that the newest is known. *)
Numbered(types) ==
    IsFiniteSet(types) /\ \A x \in types : x.nr \in Nat /\ x.nr <= Cardinality(types)

SameLaunch(a, b) == a.name = b.name /\ a.start = b.start

(* A label may stand for a label of the source. *)
Fits(types, x, label) ==
    /\ Meaning(x) = Meaning(label)
    /\ x.by = "rp" \/ x \in types \/ (x = label /\ label \notin SourceTypes)

(* Item v of the target is a copy of item k of launch l. *)
CopyOf(t, v, l, k) ==
    LET i == t.items[v]
        o == Source[l].items[k]
    IN  /\ i.launch \in DOMAIN t.launches /\ SameLaunch(t.launches[i.launch], Source[l])
        /\ i.of = o.id
        /\ o.parent # 0 => /\ i.parent # 0 /\ i.parent \in DOMAIN t.items
                           /\ t.items[i.parent].of = o.parent
                           /\ t.items[i.parent].launch = i.launch
        /\ o.parent = 0 => i.parent = 0
        /\ i.issue # Untyped => Fits(t.types, i.issue, o.label)

(* What is on the target at any time, whatever run or request put it there. *)
TargetOK(t) ==
    /\ IsTarget(t) /\ Numbered(t.types)
    /\ \A v \in DOMAIN t.items : \E l \in DOMAIN Source :
          \E k \in DOMAIN Source[l].items : CopyOf(t, v, l, k)

(* What this run remembers: f is uuidOf, s the selection. *)
Remembers(f, t, s) ==
    \A key \in DOMAIN f :
        /\ key = <<key[1], key[2]>> /\ key[1] \in DOMAIN s
        /\ f[key] \in DOMAIN t.items /\ t.items[f[key]].of = key[2]
        /\ t.items[f[key]].launch \in DOMAIN t.launches
        /\ SameLaunch(t.launches[t.items[f[key]].launch], s[key[1]])

(* The first m items of launch a are started. *)
Started(its, a, f, m) == \A k \in DOMAIN its : k <= m => <<a, its[k].id>> \in DOMAIN f

Copying == {"item", "upload", "log", "finish"}
Points == {"idle", "sync", "launch", "replay", "done", "died"} \cup Copying

Typed ==
    /\ opts \in OptionSets /\ pc \in Points /\ at \in Nat \ {0} /\ n \in Nat \ {0}
    /\ indexed \subseteq Nat /\ events \in Seq(Nat) /\ IsFiniteSet(applied)
    /\ pending \in Seq(Nat) /\ batch \in Nat /\ doubled \in BOOLEAN

(* Until a request is repeated no launch is on the target twice. *)
Once(t) == \A v, w \in DOMAIN t.launches : SameLaunch(t.launches[v], t.launches[w]) => v = w

There(t, l) == \E v \in DOMAIN t.launches : SameLaunch(t.launches[v], l)

(* The launches before the one in hand are there. *)
Passed ==
    /\ pc = "launch" => \A l \in DOMAIN Selected : l < at => There(target, Selected[l])
    /\ pc \in Copying => \A l \in DOMAIN Selected : l <= at => There(target, Selected[l])
    /\ pc \in {"replay", "done"} => \A l \in DOMAIN Selected : There(target, Selected[l])

(* How far the launch in hand is. *)
InHand ==
    /\ pc = "sync" => at = 1 /\ DOMAIN uuidOf = {} /\ pending = <<>>
    /\ pc = "launch" => \A key \in DOMAIN uuidOf : key[1] < at
    /\ pc \in Copying =>
        /\ at \in DOMAIN Selected
        /\ luuid \in DOMAIN target.launches /\ SameLaunch(target.launches[luuid], Selected[at])
        /\ \A key \in DOMAIN uuidOf : /\ key[1] <= at
                                      /\ key[1] = at => target.items[uuidOf[key]].launch = luuid
    /\ pc = "item" => Started(Items(at), at, uuidOf, n - 1)
    /\ pc \in {"upload", "log"} => n \in DOMAIN Items(at) /\ Started(Items(at), at, uuidOf, n)
    /\ pc = "finish" => /\ n <= Len(Items(at)) + 1
                        /\ Started(Items(at), at, uuidOf, Len(Items(at)))

(* locator_map translates, and once types are synced it translates everything needed. *)
Translates ==
    /\ \A p \in mapping : Fits(target.types, p[2], p[1])
    /\ pc \in Copying \cup {"launch", "replay"} => Unmapped = {}

(* The launches to replay are copied whole. *)
Replayable ==
    pc \in Copying \cup {"launch", "replay"} =>
        \A j \in DOMAIN pending :
            /\ pending[j] \in DOMAIN Selected /\ ~SkipsDefects(pending[j])
            /\ Started(Items(pending[j]), pending[j], uuidOf, Len(Items(pending[j])))

TransferInv ==
    /\ Typed /\ TargetOK(target) /\ (~doubled => Once(target))
    /\ Remembers(uuidOf, target, Selected) /\ Passed /\ InHand /\ Translates /\ Replayable
    /\ covered => pc = "done"
    /\ CoverageIsReal

-----------------------------------------------------------------------------
(* What the requests do to the target *)

(* Requests add to the target; what is there stays what it is. *)
Grows(t, s) ==
    /\ t.types \subseteq s.types
    /\ DOMAIN t.launches \subseteq DOMAIN s.launches
    /\ \A v \in DOMAIN t.launches : SameLaunch(s.launches[v], t.launches[v])
    /\ DOMAIN t.items \subseteq DOMAIN s.items
    /\ \A v \in DOMAIN t.items :
          /\ s.items[v].launch = t.items[v].launch /\ s.items[v].of = t.items[v].of
          /\ s.items[v].parent = t.items[v].parent

LEMMA GrowsTwice ==
    ASSUME NEW t, NEW s, NEW r, Grows(t, s), Grows(s, r)
    PROVE  Grows(t, r)
BY DEF Grows, SameLaunch

LEMMA GrowsNot ==
    ASSUME NEW t PROVE Grows(t, t)
BY DEF Grows, SameLaunch

(* The records a request leaves, whichever it is. *)
LEMMA TargetRecord ==
    ASSUME NEW t, IsTarget(t)
    PROVE  /\ \A x : [t EXCEPT !.types = x] = [types |-> x, launches |-> t.launches, items |-> t.items]
           /\ \A x : [t EXCEPT !.launches = x] = [types |-> t.types, launches |-> x, items |-> t.items]
           /\ \A x : [t EXCEPT !.items = x] = [types |-> t.types, launches |-> t.launches, items |-> x]
BY DEF IsTarget

(* A copy stays one while the target grows, unless it is finished or relabelled. *)
LEMMA CopyStays ==
    ASSUME NEW t, NEW s, Grows(t, s), NEW v \in DOMAIN t.items, NEW l, NEW k, CopyOf(t, v, l, k),
           s.items[v].issue = t.items[v].issue
    PROVE  CopyOf(s, v, l, k)
<1> DEFINE o == Source[l].items[k]
<1>1. /\ s.items[v].launch \in DOMAIN s.launches
      /\ SameLaunch(s.launches[s.items[v].launch], Source[l]) /\ s.items[v].of = o.id
  BY DEF CopyOf, Grows, SameLaunch
<1>2. o.parent # 0 => /\ s.items[v].parent # 0 /\ s.items[v].parent \in DOMAIN s.items
                      /\ s.items[s.items[v].parent].of = o.parent
                      /\ s.items[s.items[v].parent].launch = s.items[v].launch
  BY DEF CopyOf, Grows
<1>3. o.parent = 0 => s.items[v].parent = 0
  BY DEF CopyOf, Grows
<1>4. s.items[v].issue # Untyped => Fits(s.types, s.items[v].issue, o.label)
  BY DEF CopyOf, Grows, Fits
<1> QED
  BY <1>1, <1>2, <1>3, <1>4 DEF CopyOf

(* POST launch *)
LEMMA NewLaunchOK ==
    ASSUME NEW t, TargetOK(t), NEW l
    PROVE  /\ TargetOK(NewLaunch(t, l)) /\ Grows(t, NewLaunch(t, l))
           /\ Len(NewLaunch(t, l).launches) \in DOMAIN NewLaunch(t, l).launches
           /\ SameLaunch(NewLaunch(t, l).launches[Len(NewLaunch(t, l).launches)], l)
           /\ Once(t) /\ ~There(t, l) => Once(NewLaunch(t, l))
           /\ NewLaunch(t, l).items = t.items
           /\ LET u == Len(NewLaunch(t, l).launches) IN
              /\ u \notin DOMAIN t.launches /\ DOMAIN NewLaunch(t, l).launches = DOMAIN t.launches \cup {u}
              /\ ~NewLaunch(t, l).launches[u].done
              /\ \A v \in DOMAIN t.launches : NewLaunch(t, l).launches[v] = t.launches[v]
<1> DEFINE x == [name |-> l.name, start |-> l.start, done |-> FALSE]
           s == NewLaunch(t, l)
<1>1. IsTarget(t)
  BY DEF TargetOK
<1>2. s = [types |-> t.types, launches |-> Append(t.launches, x), items |-> t.items]
  BY <1>1, TargetRecord DEF NewLaunch
<1>3. s.types = t.types /\ s.launches = Append(t.launches, x) /\ s.items = t.items
  BY <1>2
<1>4. x.name = l.name /\ x.start = l.start /\ ~x.done /\ x = [name |-> x.name, start |-> x.start, done |-> x.done]
  OBVIOUS
<1> HIDE DEF s, x
<1>5. /\ IsSeq(s.launches) /\ Len(t.launches) \in Nat /\ DOMAIN t.launches = 1..Len(t.launches)
      /\ Len(s.launches) = Len(t.launches) + 1 /\ DOMAIN s.launches = 1..(Len(t.launches) + 1)
      /\ \A v \in DOMAIN t.launches : s.launches[v] = t.launches[v]
      /\ s.launches[Len(t.launches) + 1] = x
  BY <1>1, <1>3, Appended, SeqDomain DEF IsTarget
<1>6. Grows(t, s)
  BY <1>3, <1>5 DEF Grows, SameLaunch
<1>7. IsTarget(s)
  <2>1. s = [types |-> s.types, launches |-> s.launches, items |-> s.items]
    BY <1>2, <1>3
  <2>2. \A v \in DOMAIN s.launches :
          s.launches[v] = [name |-> s.launches[v].name, start |-> s.launches[v].start,
                           done |-> s.launches[v].done]
    BY <1>1, <1>4, <1>5 DEF IsTarget
  <2> QED
    BY <1>1, <1>3, <1>5, <2>1, <2>2 DEF IsTarget
<1>8. TargetOK(s)
  BY <1>3, <1>6, <1>7, CopyStays DEF TargetOK
<1>9. Once(t) /\ ~There(t, l) => Once(s)
  <2> SUFFICES ASSUME Once(t), ~There(t, l), NEW v \in DOMAIN s.launches, NEW w \in DOMAIN s.launches,
                      SameLaunch(s.launches[v], s.launches[w])
               PROVE  v = w
    BY DEF Once
  <2>1. CASE v \in DOMAIN t.launches /\ w \in DOMAIN t.launches
    BY <1>5, <2>1 DEF Once
  <2>2. CASE v \in DOMAIN t.launches /\ w \notin DOMAIN t.launches
    BY <1>4, <1>5, <2>2 DEF There, SameLaunch
  <2>3. CASE v \notin DOMAIN t.launches /\ w \in DOMAIN t.launches
    BY <1>4, <1>5, <2>3 DEF There, SameLaunch
  <2>4. CASE v \notin DOMAIN t.launches /\ w \notin DOMAIN t.launches
    BY <1>5, <2>4
  <2> QED
    BY <2>1, <2>2, <2>3, <2>4
<1>10. Len(s.launches) \in DOMAIN s.launches /\ SameLaunch(s.launches[Len(s.launches)], l)
  BY <1>4, <1>5 DEF SameLaunch
<1>11. /\ Len(s.launches) \notin DOMAIN t.launches /\ ~s.launches[Len(s.launches)].done
       /\ DOMAIN s.launches = DOMAIN t.launches \cup {Len(s.launches)}
  BY <1>4, <1>5
<1> QED
  BY <1>3, <1>5, <1>6, <1>8, <1>9, <1>10, <1>11 DEF s

(* POST item *)
LEMMA NewItemIs ==
    ASSUME NEW t, IsTarget(t), NEW u, NEW i, NEW parent, NEW s, s = NewItem(t, u, i, parent)
    PROVE  /\ IsTarget(s) /\ s.types = t.types /\ s.launches = t.launches
           /\ Len(t.items) \in Nat /\ DOMAIN t.items = 1..Len(t.items)
           /\ Len(s.items) = Len(t.items) + 1 /\ DOMAIN s.items = 1..(Len(t.items) + 1)
           /\ \A v \in DOMAIN t.items : s.items[v] = t.items[v]
           /\ LET x == s.items[Len(t.items) + 1] IN
              /\ x.launch = u /\ x.of = i.id /\ x.parent = parent /\ ~x.done /\ x.logs = <<>>
              /\ x.issue = Untyped
<1> DEFINE x == [launch |-> u, of |-> i.id, parent |-> parent, logs |-> <<>>, done |-> FALSE,
                 issue |-> Untyped]
<1>1. IsTarget(t)
  OBVIOUS
<1>2. s = [types |-> t.types, launches |-> t.launches, items |-> Append(t.items, x)]
  BY <1>1, TargetRecord DEF NewItem
<1>3. s.types = t.types /\ s.launches = t.launches /\ s.items = Append(t.items, x)
  BY <1>2
<1>4. /\ x.launch = u /\ x.of = i.id /\ x.parent = parent /\ ~x.done /\ x.logs = <<>>
      /\ x.issue = Untyped
      /\ x = [launch |-> x.launch, of |-> x.of, parent |-> x.parent, logs |-> x.logs,
              done |-> x.done, issue |-> x.issue]
  OBVIOUS
<1> HIDE DEF x
<1>5. /\ IsSeq(s.items) /\ Len(t.items) \in Nat /\ DOMAIN t.items = 1..Len(t.items)
      /\ Len(s.items) = Len(t.items) + 1 /\ DOMAIN s.items = 1..(Len(t.items) + 1)
      /\ \A v \in DOMAIN t.items : s.items[v] = t.items[v]
      /\ s.items[Len(t.items) + 1] = x
  <2>1. IsSeq(t.items)
    BY <1>1 DEF IsTarget
  <2>2. Len(t.items) \in Nat /\ DOMAIN t.items = 1..Len(t.items)
    BY <2>1, SeqDomain
  <2>3. /\ IsSeq(Append(t.items, x)) /\ Len(Append(t.items, x)) = Len(t.items) + 1
        /\ DOMAIN Append(t.items, x) = 1..(Len(t.items) + 1)
        /\ \A k_ \in 1..Len(t.items) : Append(t.items, x)[k_] = t.items[k_]
        /\ Append(t.items, x)[Len(t.items) + 1] = x
    BY <2>1, Appended
  <2> QED
    BY <1>3, <2>2, <2>3, Zenon
<1>6. IsTarget(s)
  <2>1. s = [types |-> s.types, launches |-> s.launches, items |-> s.items]
    BY <1>2, <1>3
  <2>2. ASSUME NEW v \in DOMAIN s.items
        PROVE  s.items[v] = [launch |-> s.items[v].launch, of |-> s.items[v].of,
                             parent |-> s.items[v].parent, logs |-> s.items[v].logs,
                             done |-> s.items[v].done, issue |-> s.items[v].issue]
    <3>1. CASE v \in DOMAIN t.items
      BY <1>1, <1>5, <3>1 DEF IsTarget
    <3>2. CASE v = Len(t.items) + 1
      BY <1>4, <1>5, <3>2
    <3> QED
      BY <1>5, <3>1, <3>2
  <2>3. IsSeq(s.launches) /\ IsSeq(s.items)
    BY <1>1, <1>3, <1>5 DEF IsTarget
  <2>4. \A v \in DOMAIN s.launches :
          s.launches[v] = [name |-> s.launches[v].name, start |-> s.launches[v].start,
                           done |-> s.launches[v].done]
    BY <1>1, <1>3 DEF IsTarget
  <2> QED
    BY <2>1, <2>2, <2>3, <2>4 DEF IsTarget
<1> QED
  BY <1>1, <1>3, <1>4, <1>5, <1>6

(* The same, when i is an item of the source whose launch the target has at u and parent a   *)
(* copy of its parent.                                                                        *)
LEMMA NewItemOK ==
    ASSUME NEW t, TargetOK(t), NEW u \in DOMAIN t.launches, NEW l \in DOMAIN Source,
           SameLaunch(t.launches[u], Source[l]), NEW i, NEW parent, NEW s, s = NewItem(t, u, i, parent),
           \E k \in DOMAIN Source[l].items : i = Source[l].items[k],
           i.parent = 0 => parent = 0,
           i.parent # 0 => /\ parent # 0 /\ parent \in DOMAIN t.items
                           /\ t.items[parent].of = i.parent /\ t.items[parent].launch = u
    PROVE  /\ TargetOK(s) /\ Grows(t, s) /\ s.launches = t.launches
           /\ Len(s.items) \in DOMAIN s.items /\ Len(s.items) # 0
           /\ s.items[Len(s.items)].of = i.id /\ s.items[Len(s.items)].launch = u
<1>0. PICK k \in DOMAIN Source[l].items : i = Source[l].items[k]
  OBVIOUS
<1>1. IsTarget(t)
  BY DEF TargetOK
<1> DEFINE x == s.items[Len(t.items) + 1]
<1>3. s.types = t.types /\ s.launches = t.launches /\ IsTarget(s)
  BY <1>1, NewItemIs
<1>4. /\ x.launch = u /\ x.of = i.id /\ x.parent = parent /\ ~x.done /\ x.issue = Untyped
  BY <1>1, NewItemIs
<1>5. /\ Len(t.items) \in Nat /\ DOMAIN t.items = 1..Len(t.items)
      /\ Len(s.items) = Len(t.items) + 1 /\ DOMAIN s.items = 1..(Len(t.items) + 1)
      /\ \A v \in DOMAIN t.items : s.items[v] = t.items[v]
      /\ s.items[Len(t.items) + 1] = x
  BY <1>1, NewItemIs
<1> HIDE DEF x
<1>6. Grows(t, s)
  BY <1>3, <1>5 DEF Grows, SameLaunch
<1>8. CopyOf(s, Len(t.items) + 1, l, k)
  <2>1. i.parent # 0 => /\ parent \in DOMAIN s.items /\ s.items[parent].of = i.parent
                        /\ s.items[parent].launch = u
    BY <1>5
  <2> QED
    BY <1>0, <1>3, <1>4, <1>5, <2>1 DEF CopyOf
<1>9. TargetOK(s)
  <2>1. ASSUME NEW v \in DOMAIN s.items
        PROVE  \E m \in DOMAIN Source : \E j \in DOMAIN Source[m].items : CopyOf(s, v, m, j)
    <3>1. CASE v \in DOMAIN t.items
      BY <1>5, <1>6, <3>1, CopyStays DEF TargetOK
    <3>2. CASE v = Len(t.items) + 1
      BY <1>8, <3>2
    <3> QED
      BY <1>5, <3>1, <3>2
  <2> QED
    BY <1>3, <2>1 DEF TargetOK
<1>10. /\ Len(s.items) \in DOMAIN s.items /\ Len(s.items) # 0
       /\ s.items[Len(s.items)].of = i.id /\ s.items[Len(s.items)].launch = u
  BY <1>4, <1>5
<1> QED
  BY <1>3, <1>6, <1>9, <1>10

(* What a request may make of item w: i. *)
Touches(t, w, i) ==
    /\ i = [launch |-> i.launch, of |-> i.of, parent |-> i.parent, logs |-> i.logs,
            done |-> i.done, issue |-> i.issue]
    /\ i.launch = t.items[w].launch /\ i.of = t.items[w].of /\ i.parent = t.items[w].parent
    /\ \A l \in DOMAIN Source : \A k \in DOMAIN Source[l].items :
          CopyOf(t, w, l, k) => (i.issue # Untyped => Fits(t.types, i.issue, Source[l].items[k].label))

(* Items that are not touched are as they were. *)
LEMMA Untouched ==
    ASSUME NEW t, IsTarget(t), NEW w \in DOMAIN t.items
    PROVE  Touches(t, w, t.items[w])
BY DEF Touches, CopyOf, IsTarget

(* Items that are touched remain copies. *)
LEMMA TouchedOK ==
    ASSUME NEW t, TargetOK(t), NEW g, IsSeq(g), DOMAIN g = DOMAIN t.items,
           \A w \in DOMAIN g : Touches(t, w, g[w])
    PROVE  LET s == [types |-> t.types, launches |-> t.launches, items |-> g]
           IN  TargetOK(s) /\ Grows(t, s)
<1> DEFINE s == [types |-> t.types, launches |-> t.launches, items |-> g]
<1>1. /\ s.types = t.types /\ s.launches = t.launches /\ s.items = g
      /\ s = [types |-> s.types, launches |-> s.launches, items |-> s.items]
  OBVIOUS
<1> HIDE DEF s
<1>2. Grows(t, s)
  BY <1>1 DEF Grows, SameLaunch, Touches
<1>3. IsTarget(s)
  BY <1>1 DEF TargetOK, IsTarget, Touches
<1>4. ASSUME NEW v \in DOMAIN s.items
      PROVE  \E l \in DOMAIN Source : \E k \in DOMAIN Source[l].items : CopyOf(s, v, l, k)
  <2>0. PICK l \in DOMAIN Source : \E k \in DOMAIN Source[l].items : CopyOf(t, v, l, k)
    BY <1>1 DEF TargetOK
  <2>1. PICK k \in DOMAIN Source[l].items : CopyOf(t, v, l, k)
    BY <2>0
  <2> DEFINE o == Source[l].items[k]
  <2>2. /\ s.items[v].launch \in DOMAIN s.launches
        /\ SameLaunch(s.launches[s.items[v].launch], Source[l]) /\ s.items[v].of = o.id
    BY <1>1, <2>1 DEF CopyOf, Touches
  <2>3. o.parent # 0 => /\ s.items[v].parent # 0 /\ s.items[v].parent \in DOMAIN s.items
                        /\ s.items[s.items[v].parent].of = o.parent
                        /\ s.items[s.items[v].parent].launch = s.items[v].launch
    <3> SUFFICES ASSUME o.parent # 0
                 PROVE  /\ g[v].parent # 0 /\ g[v].parent \in DOMAIN g
                        /\ g[g[v].parent].of = o.parent /\ g[g[v].parent].launch = g[v].launch
      BY <1>1
    <3>1. g[v].parent = t.items[v].parent /\ g[v].launch = t.items[v].launch
      BY <1>1 DEF Touches
    <3>2. /\ t.items[v].parent # 0 /\ t.items[v].parent \in DOMAIN g
          /\ t.items[t.items[v].parent].of = o.parent
          /\ t.items[t.items[v].parent].launch = t.items[v].launch
      BY <2>1 DEF CopyOf
    <3>3. /\ g[t.items[v].parent].of = t.items[t.items[v].parent].of
          /\ g[t.items[v].parent].launch = t.items[t.items[v].parent].launch
      BY <3>2 DEF Touches
    <3> QED
      BY <3>1, <3>2, <3>3
  <2>4. /\ o.parent = 0 => s.items[v].parent = 0
        /\ s.items[v].issue # Untyped => Fits(s.types, s.items[v].issue, o.label)
    BY <1>1, <2>1 DEF Touches, CopyOf
  <2> QED
    BY <2>2, <2>3, <2>4 DEF CopyOf
<1>5. TargetOK(s)
  BY <1>1, <1>3, <1>4 DEF TargetOK
<1> QED
  BY <1>2, <1>5 DEF s

(* A request that touches one item. *)
LEMMA OneTouchedOK ==
    ASSUME NEW t, TargetOK(t), NEW v \in DOMAIN t.items, NEW i, Touches(t, v, i),
           NEW s, s = [t EXCEPT !.items = [t.items EXCEPT ![v] = i]]
    PROVE  /\ TargetOK(s) /\ Grows(t, s) /\ s.launches = t.launches /\ s.items[v] = i
           /\ DOMAIN s.items = DOMAIN t.items /\ \A w \in DOMAIN t.items : w # v => s.items[w] = t.items[w]
<1> DEFINE g == [t.items EXCEPT ![v] = i]
<1>1. IsTarget(t)
  BY DEF TargetOK
<1>2. s = [types |-> t.types, launches |-> t.launches, items |-> g]
  BY <1>1, TargetRecord
<1>3. Len(t.items) \in Nat /\ DOMAIN t.items = 1..Len(t.items)
  BY <1>1, SeqDomain DEF IsTarget
<1>4. DOMAIN g = DOMAIN t.items /\ g[v] = i /\ \A w \in DOMAIN t.items : w # v => g[w] = t.items[w]
  OBVIOUS
<1>5. g = [k \in 1..Len(t.items) |-> g[k]]
  BY <1>3
<1> HIDE DEF g
<1>6. IsSeq(g)
  BY <1>3, <1>4, <1>5, SeqOfFunction
<1>7. \A w \in DOMAIN g : Touches(t, w, g[w])
  BY <1>1, <1>4, Untouched
<1>8. \A r : r = [types |-> t.types, launches |-> t.launches, items |-> g] => TargetOK(r) /\ Grows(t, r)
  BY <1>4, <1>6, <1>7, TouchedOK
<1> QED
  BY <1>2, <1>4, <1>8

(* From t to s item v has changed, but neither its place nor what it copies. *)
OneChanged(t, s, v) ==
    /\ DOMAIN s.items = DOMAIN t.items /\ \A w \in DOMAIN t.items : w # v => s.items[w] = t.items[w]
    /\ s.items[v].launch = t.items[v].launch /\ s.items[v].of = t.items[v].of
    /\ s.items[v].parent = t.items[v].parent

(* POST log *)
LEMMA NewLogOK ==
    ASSUME NEW t, TargetOK(t), NEW v \in DOMAIN t.items, NEW kind
    PROVE  /\ TargetOK(NewLog(t, v, kind)) /\ Grows(t, NewLog(t, v, kind))
           /\ NewLog(t, v, kind).launches = t.launches
           /\ OneChanged(t, NewLog(t, v, kind), v)
           /\ NewLog(t, v, kind).items[v].logs = Append(t.items[v].logs, kind)
           /\ NewLog(t, v, kind).items[v].done = t.items[v].done
<1>1. IsTarget(t)
  BY DEF TargetOK
<1>2. PICK i : i = [t.items[v] EXCEPT !.logs = Append(t.items[v].logs, kind)]
  OBVIOUS
<1>3. i = [launch |-> t.items[v].launch, of |-> t.items[v].of, parent |-> t.items[v].parent,
           logs |-> Append(t.items[v].logs, kind), done |-> t.items[v].done, issue |-> t.items[v].issue]
  BY <1>1, <1>2 DEF IsTarget
<1>4. i.issue = t.items[v].issue /\ i.logs = Append(t.items[v].logs, kind) /\ i.done = t.items[v].done
  BY <1>3
<1>5. Touches(t, v, i)
  <2>1. /\ i = [launch |-> i.launch, of |-> i.of, parent |-> i.parent, logs |-> i.logs,
                done |-> i.done, issue |-> i.issue]
        /\ i.launch = t.items[v].launch /\ i.of = t.items[v].of /\ i.parent = t.items[v].parent
    BY <1>3
  <2> QED
    BY <1>4, <2>1 DEF Touches, CopyOf
<1>6. NewLog(t, v, kind) = [t EXCEPT !.items = [t.items EXCEPT ![v] = i]]
  BY <1>2 DEF NewLog
<1>7. PICK s : s = NewLog(t, v, kind)
  OBVIOUS
<1>8. /\ TargetOK(s) /\ Grows(t, s) /\ s.launches = t.launches /\ s.items[v] = i
      /\ DOMAIN s.items = DOMAIN t.items /\ \A w \in DOMAIN t.items : w # v => s.items[w] = t.items[w]
  BY <1>5, <1>6, <1>7, OneTouchedOK
<1> QED
  BY <1>3, <1>4, <1>7, <1>8 DEF OneChanged

(* An id names one item of one launch. *)
LEMMA IdsUnique ==
    ASSUME NEW l \in DOMAIN Source, NEW m \in DOMAIN Source,
           NEW a \in DOMAIN Source[l].items, NEW b \in DOMAIN Source[m].items,
           Source[l].items[a].id = Source[m].items[b].id
    PROVE  l = m /\ a = b
<1>1. l = m
  BY TransferAssumption
<1>2. IsTree(Source[l].items)
  BY TransferAssumption
<1>3. a \in Nat /\ b \in Nat
  BY <1>1, <1>2, SeqDomain DEF IsTree
<1>4. ~(a < b) /\ ~(b < a)
  <2>1. Source[l].items[a].id \in Nat
    BY <1>2 DEF IsTree
  <2> QED
    BY <1>1, <1>2, <2>1 DEF IsTree
<1> QED
  BY <1>1, <1>3, <1>4

(* So what has an item's id is that item. *)
LEMMA IdNames ==
    ASSUME NEW l \in DOMAIN Source, NEW k \in DOMAIN Source[l].items, NEW x, x = Source[l].items[k].id
    PROVE  \A m \in DOMAIN Source : \A b \in DOMAIN Source[m].items :
                Source[m].items[b].id = x => m = l /\ b = k
<1> SUFFICES ASSUME NEW m \in DOMAIN Source, NEW b \in DOMAIN Source[m].items,
                    Source[m].items[b].id = Source[l].items[k].id
             PROVE  m = l /\ b = k
  OBVIOUS
<1>1. m = l
  BY IdsUnique
<1>2. b \in DOMAIN Source[l].items /\ Source[l].items[b].id = Source[l].items[k].id
  BY <1>1
<1>3. b = k
  BY <1>2, IdsUnique
<1> QED
  BY <1>1, <1>3

(* Finishing sets one field. *)
LEMMA DoneRecords ==
    /\ \A i, x : i = [launch |-> i.launch, of |-> i.of, parent |-> i.parent, logs |-> i.logs,
                      done |-> i.done, issue |-> i.issue] =>
                [i EXCEPT !.done = x] = [launch |-> i.launch, of |-> i.of, parent |-> i.parent,
                                         logs |-> i.logs, done |-> x, issue |-> i.issue]
    /\ \A l, x : l = [name |-> l.name, start |-> l.start, done |-> l.done] =>
                [l EXCEPT !.done = x] = [name |-> l.name, start |-> l.start, done |-> x]
OBVIOUS

(* PUT item finish *)
LEMMA ItemDoneOK ==
    ASSUME NEW t, TargetOK(t), NEW v \in DOMAIN t.items
    PROVE  /\ TargetOK(ItemDone(t, v)) /\ Grows(t, ItemDone(t, v))
           /\ ItemDone(t, v).launches = t.launches
           /\ OneChanged(t, ItemDone(t, v), v) /\ ItemDone(t, v).items[v].done
           /\ ItemDone(t, v).items[v].logs = t.items[v].logs
<1>1. IsTarget(t)
  BY DEF TargetOK
<1>2. PICK i : i = [t.items[v] EXCEPT !.done = TRUE]
  OBVIOUS
<1>3. i = [launch |-> t.items[v].launch, of |-> t.items[v].of, parent |-> t.items[v].parent,
           logs |-> t.items[v].logs, done |-> TRUE, issue |-> t.items[v].issue]
  <2>1. t.items[v] = [launch |-> t.items[v].launch, of |-> t.items[v].of, parent |-> t.items[v].parent,
                      logs |-> t.items[v].logs, done |-> t.items[v].done, issue |-> t.items[v].issue]
    BY <1>1 DEF IsTarget
  <2> QED
    BY <1>2, <2>1, DoneRecords, ZenonT(30)
<1>4. /\ i = [launch |-> i.launch, of |-> i.of, parent |-> i.parent, logs |-> i.logs,
              done |-> i.done, issue |-> i.issue]
      /\ i.launch = t.items[v].launch /\ i.of = t.items[v].of /\ i.parent = t.items[v].parent
      /\ i.logs = t.items[v].logs /\ i.issue = t.items[v].issue
  BY <1>3
<1>5. \A m \in DOMAIN Source : \A j \in DOMAIN Source[m].items :
        CopyOf(t, v, m, j) => (i.issue # Untyped => Fits(t.types, i.issue, Source[m].items[j].label))
  BY <1>4 DEF CopyOf
<1>6. Touches(t, v, i)
  BY <1>4, <1>5 DEF Touches
<1>7. ItemDone(t, v) = [t EXCEPT !.items = [t.items EXCEPT ![v] = i]]
  BY <1>2 DEF ItemDone
<1>8. PICK s : s = ItemDone(t, v)
  OBVIOUS
<1>9. /\ TargetOK(s) /\ Grows(t, s) /\ s.launches = t.launches /\ s.items[v] = i
      /\ DOMAIN s.items = DOMAIN t.items /\ \A w \in DOMAIN t.items : w # v => s.items[w] = t.items[w]
  BY <1>6, <1>7, <1>8, OneTouchedOK
<1>10. i.done
  BY <1>3
<1> QED
  BY <1>4, <1>8, <1>9, <1>10 DEF OneChanged

(* Two items that differ in their labels at most. *)
SameItem(a, b) ==
    /\ a.launch = b.launch /\ a.of = b.of /\ a.parent = b.parent
    /\ a.logs = b.logs /\ a.done = b.done

(* PUT defect: every pair of the chunk is a copy and a label that fits its item. *)
Carried(t, chunk) ==
    \A p \in chunk : /\ p[1] \in DOMAIN t.items
                     /\ \E l \in DOMAIN Source : \E k \in DOMAIN Source[l].items :
                            /\ t.items[p[1]].of = Source[l].items[k].id
                            /\ Fits(t.types, p[2], Source[l].items[k].label)

LEMMA NewIssuesOK ==
    ASSUME NEW t, TargetOK(t), NEW chunk, Carried(t, chunk)
    PROVE  /\ TargetOK(NewIssues(t, chunk)) /\ Grows(t, NewIssues(t, chunk))
           /\ NewIssues(t, chunk).launches = t.launches
           /\ DOMAIN NewIssues(t, chunk).items = DOMAIN t.items
           /\ \A w \in DOMAIN t.items : SameItem(NewIssues(t, chunk).items[w], t.items[w])
<1> DEFINE us == {p[1] : p \in chunk}
           lab(u) == [t.items[u] EXCEPT !.issue = Label(chunk, u)]
           g == [u \in DOMAIN t.items |-> IF u \in us THEN lab(u) ELSE t.items[u]]
<1>1. IsTarget(t)
  BY DEF TargetOK
<1>2. NewIssues(t, chunk) = [types |-> t.types, launches |-> t.launches, items |-> g]
  BY <1>1, TargetRecord DEF NewIssues
<1>3. Len(t.items) \in Nat /\ DOMAIN t.items = 1..Len(t.items)
  BY <1>1, SeqDomain DEF IsTarget
<1>4. IsSeq(g)
  BY <1>3, SeqOfFunction
<1>5. ASSUME NEW w \in DOMAIN g PROVE Touches(t, w, g[w]) /\ SameItem(g[w], t.items[w])
  <2>1. CASE w \notin us
    BY <1>1, <2>1, Untouched DEF SameItem
  <2>2. CASE w \in us
    <3>1. PICK i : i = g[w]
      OBVIOUS
    <3>2. i = [launch |-> t.items[w].launch, of |-> t.items[w].of, parent |-> t.items[w].parent,
               logs |-> t.items[w].logs, done |-> t.items[w].done, issue |-> Label(chunk, w)]
      BY <1>1, <2>2, <3>1 DEF IsTarget
    <3>3. /\ i = [launch |-> i.launch, of |-> i.of, parent |-> i.parent, logs |-> i.logs,
                  done |-> i.done, issue |-> i.issue]
          /\ i.launch = t.items[w].launch /\ i.of = t.items[w].of /\ i.parent = t.items[w].parent
          /\ i.logs = t.items[w].logs /\ i.issue = Label(chunk, w) /\ i.done = t.items[w].done
      BY <3>2
    <3>4. PICK p \in chunk : p[1] = w /\ Label(chunk, w) = p[2]
      <4>1. \E p \in chunk : p[1] = w
        BY <2>2
      <4> QED
        BY <4>1 DEF Label
    <3>5. PICK l \in DOMAIN Source : \E k \in DOMAIN Source[l].items :
            t.items[w].of = Source[l].items[k].id /\ Fits(t.types, p[2], Source[l].items[k].label)
      BY <3>4 DEF Carried
    <3>6. PICK k \in DOMAIN Source[l].items :
            t.items[w].of = Source[l].items[k].id /\ Fits(t.types, p[2], Source[l].items[k].label)
      BY <3>5
    <3>7. ASSUME NEW m \in DOMAIN Source, NEW j \in DOMAIN Source[m].items, CopyOf(t, w, m, j)
          PROVE  i.issue # Untyped => Fits(t.types, i.issue, Source[m].items[j].label)
      <4>1. t.items[w].of = Source[m].items[j].id
        BY <3>7 DEF CopyOf
      <4>2. m = l /\ j = k
        <5>1. \A m_ \in DOMAIN Source : \A b \in DOMAIN Source[m_].items :
                Source[m_].items[b].id = t.items[w].of => m_ = l /\ b = k
          BY <3>6, IdNames
        <5> QED
          BY <4>1, <5>1
      <4> QED
        BY <3>3, <3>4, <3>6, <4>2
    <3>8. Touches(t, w, i)
      BY <3>3, <3>7 DEF Touches
    <3> QED
      BY <3>1, <3>3, <3>8 DEF SameItem
  <2> QED
    BY <2>1, <2>2
<1>6. DOMAIN g = DOMAIN t.items
  OBVIOUS
<1> HIDE DEF g
<1>7. \A r : r = [types |-> t.types, launches |-> t.launches, items |-> g] => TargetOK(r) /\ Grows(t, r)
  BY <1>4, <1>5, <1>6, TouchedOK
<1> QED
  BY <1>2, <1>5, <1>6, <1>7

(* PUT launch finish *)
LEMMA LaunchDoneOK ==
    ASSUME NEW t, TargetOK(t), NEW u \in DOMAIN t.launches
    PROVE  /\ TargetOK(LaunchDone(t, u)) /\ Grows(t, LaunchDone(t, u))
           /\ DOMAIN LaunchDone(t, u).launches = DOMAIN t.launches /\ LaunchDone(t, u).items = t.items
           /\ \A v \in DOMAIN t.launches : v # u => LaunchDone(t, u).launches[v] = t.launches[v]
           /\ Once(t) => Once(LaunchDone(t, u))
<1> DEFINE s == LaunchDone(t, u)
           g == [t.launches EXCEPT ![u] = [t.launches[u] EXCEPT !.done = TRUE]]
<1>1. IsTarget(t)
  BY DEF TargetOK
<1>2. s = [types |-> t.types, launches |-> g, items |-> t.items]
  <2>1. s = [t EXCEPT !.launches = g]
    BY DEF LaunchDone
  <2> QED
    BY <1>1, <2>1, TargetRecord
<1>3. Len(t.launches) \in Nat /\ DOMAIN t.launches = 1..Len(t.launches)
  BY <1>1, SeqDomain DEF IsTarget
<1>4. /\ DOMAIN g = DOMAIN t.launches
      /\ \A v \in DOMAIN t.launches : v # u => g[v] = t.launches[v]
      /\ g[u] = [name |-> t.launches[u].name, start |-> t.launches[u].start, done |-> TRUE]
  <2>1. g[u] = [t.launches[u] EXCEPT !.done = TRUE]
    OBVIOUS
  <2>2. g[u] = [name |-> t.launches[u].name, start |-> t.launches[u].start, done |-> TRUE]
    BY <1>1, <2>1, DoneRecords, Zenon DEF IsTarget
  <2> QED
    BY <2>2
<1>5. g = [k \in 1..Len(t.launches) |-> g[k]]
  BY <1>3
<1> HIDE DEF g
<1>6. IsSeq(g)
  BY <1>3, <1>4, <1>5, SeqOfFunction
<1>7. s.types = t.types /\ s.launches = g /\ s.items = t.items
  BY <1>2
<1>8. s = [types |-> s.types, launches |-> s.launches, items |-> s.items]
  BY <1>2, <1>7
<1> HIDE DEF s
<1>9. g[u] = [name |-> g[u].name, start |-> g[u].start, done |-> g[u].done] /\ SameLaunch(g[u], t.launches[u])
  BY <1>4 DEF SameLaunch
<1>10. IsTarget(s)
  BY <1>1, <1>4, <1>6, <1>7, <1>8, <1>9 DEF IsTarget
<1>11. Grows(t, s)
  BY <1>4, <1>7, <1>9 DEF Grows, SameLaunch
<1>12. TargetOK(s)
  BY <1>7, <1>10, <1>11, CopyStays DEF TargetOK
<1>13. Once(t) => Once(s)
  <2>1. DOMAIN s.launches = DOMAIN t.launches /\ \A v \in DOMAIN t.launches : SameLaunch(s.launches[v], t.launches[v])
    BY <1>4, <1>7, <1>11 DEF Grows
  <2> QED
    BY <2>1 DEF Once, SameLaunch
<1> QED
  BY <1>4, <1>7, <1>11, <1>12, <1>13 DEF s

(* POST defect type: the newest of the target's types is found by its number. *)
LEMMA NewTypeOK ==
    ASSUME NEW t, TargetOK(t), NEW loc
    PROVE  LET s == NewType(t, loc)
           IN  /\ TargetOK(s) /\ Grows(t, s) /\ s.launches = t.launches /\ s.items = t.items
               /\ \E x \in s.types : SameType(x, loc) /\ x.nr = Cardinality(s.types)
<1> DEFINE x == [by |-> "dst", group |-> loc.group, name |-> loc.name, nr |-> 1 + Cardinality(t.types)]
           s == NewType(t, loc)
<1>1. IsTarget(t) /\ Numbered(t.types)
  BY DEF TargetOK
<1>2. s = [types |-> t.types \cup {x}, launches |-> t.launches, items |-> t.items]
  BY <1>1, TargetRecord DEF NewType
<1>3. /\ s.types = t.types \cup {x} /\ s.launches = t.launches /\ s.items = t.items
      /\ s = [types |-> s.types, launches |-> s.launches, items |-> s.items]
  BY <1>2
<1>4. x.nr = 1 + Cardinality(t.types) /\ SameType(x, loc)
  BY DEF SameType, Meaning
<1> HIDE DEF x, s
<1>5. Cardinality(t.types) \in Nat
  BY <1>1, FS_CardinalityType DEF Numbered
<1>6. x \notin t.types
  BY <1>1, <1>4, <1>5 DEF Numbered
<1>7. IsFiniteSet(s.types) /\ Cardinality(s.types) = Cardinality(t.types) + 1
  BY <1>1, <1>3, <1>6, FS_AddElement DEF Numbered
<1>8. Numbered(s.types)
  <2>1. \A y \in t.types : y.nr \in Nat /\ y.nr <= Cardinality(s.types)
    BY <1>1, <1>5, <1>7 DEF Numbered
  <2>2. x.nr \in Nat /\ x.nr <= Cardinality(s.types)
    BY <1>4, <1>5, <1>7
  <2> QED
    BY <1>3, <1>7, <2>1, <2>2 DEF Numbered
<1>9. Grows(t, s)
  BY <1>3 DEF Grows, SameLaunch
<1>10. IsTarget(s)
  BY <1>1, <1>3 DEF IsTarget
<1>11. TargetOK(s)
  BY <1>3, <1>8, <1>9, <1>10, CopyStays DEF TargetOK
<1> QED
  BY <1>3, <1>4, <1>5, <1>7, <1>9, <1>11 DEF s

-----------------------------------------------------------------------------
(* What stays true while the target grows *)

LEMMA GrownFacts ==
    ASSUME NEW t, NEW s, Grows(t, s)
    PROVE  /\ \A l : There(t, l) => There(s, l)
           /\ \A x, label : Fits(t.types, x, label) => Fits(s.types, x, label)
           /\ \A chunk : Carried(t, chunk) => Carried(s, chunk)
<1>1. \A l : There(t, l) => There(s, l)
  BY DEF Grows, There, SameLaunch
<1>2. \A x, label : Fits(t.types, x, label) => Fits(s.types, x, label)
  BY DEF Grows, Fits
<1>3. ASSUME NEW chunk, Carried(t, chunk) PROVE Carried(s, chunk)
  <2> SUFFICES ASSUME NEW p \in chunk
               PROVE  /\ p[1] \in DOMAIN s.items
                      /\ \E l \in DOMAIN Source : \E k \in DOMAIN Source[l].items :
                            /\ s.items[p[1]].of = Source[l].items[k].id
                            /\ Fits(s.types, p[2], Source[l].items[k].label)
    BY DEF Carried
  <2>1. p[1] \in DOMAIN t.items /\ p[1] \in DOMAIN s.items /\ s.items[p[1]].of = t.items[p[1]].of
    BY <1>3 DEF Carried, Grows
  <2>2. PICK l \in DOMAIN Source : \E k \in DOMAIN Source[l].items :
          t.items[p[1]].of = Source[l].items[k].id /\ Fits(t.types, p[2], Source[l].items[k].label)
    BY <1>3 DEF Carried
  <2> QED
    BY <1>2, <2>1, <2>2
<1> QED
  BY <1>1, <1>2, <1>3

LEMMA RemembersGrown ==
    ASSUME NEW t, NEW s, Grows(t, s), NEW f, NEW sel, Remembers(f, t, sel)
    PROVE  Remembers(f, s, sel)
<1> SUFFICES ASSUME NEW key \in DOMAIN f
             PROVE  /\ key = <<key[1], key[2]>> /\ key[1] \in DOMAIN sel
                    /\ f[key] \in DOMAIN s.items /\ s.items[f[key]].of = key[2]
                    /\ s.items[f[key]].launch \in DOMAIN s.launches
                    /\ SameLaunch(s.launches[s.items[f[key]].launch], sel[key[1]])
  BY DEF Remembers
<1>1. /\ key = <<key[1], key[2]>> /\ key[1] \in DOMAIN sel
      /\ f[key] \in DOMAIN t.items /\ t.items[f[key]].of = key[2]
      /\ t.items[f[key]].launch \in DOMAIN t.launches
      /\ SameLaunch(t.launches[t.items[f[key]].launch], sel[key[1]])
  BY DEF Remembers
<1>2. /\ f[key] \in DOMAIN s.items /\ s.items[f[key]].of = t.items[f[key]].of
      /\ s.items[f[key]].launch = t.items[f[key]].launch
  BY <1>1 DEF Grows
<1>3. /\ t.items[f[key]].launch \in DOMAIN s.launches
      /\ SameLaunch(s.launches[t.items[f[key]].launch], t.launches[t.items[f[key]].launch])
  BY <1>1 DEF Grows
<1> QED
  BY <1>1, <1>2, <1>3 DEF SameLaunch

(* What a request comes to. *)
LEMMA SentCases ==
    ASSUME NEW once, NEW twice, NEW r \in Sent(once, twice)
    PROVE  \/ r.ok /\ r.times = 1 /\ r.to = once
           \/ ~r.ok /\ r.times \in {0, 1} /\ r.to \in {target, once}
           \/ r.times = 2 /\ r.to = twice
BY DEF Sent

(* A request whose effect is harmless leaves the target as it must be, however often it     *)
(* takes effect.                                                                            *)
LEMMA RequestOK ==
    ASSUME TransferInv, NEW once, NEW twice, NEW r \in Sent(once, twice), Requested(r),
           TargetOK(once), Grows(target, once), TargetOK(twice), Grows(once, twice),
           Once(target) => Once(once)
    PROVE  /\ opts' = opts /\ doubled' \in BOOLEAN
           /\ TargetOK(target') /\ Grows(target, target') /\ (~doubled' => Once(target'))
           /\ r.ok => Grows(once, target') /\ target' = r.to
<1>1. Grows(target, twice) /\ Grows(target, target) /\ Grows(once, once)
  BY GrowsTwice, GrowsNot
<1>2. target' = r.to /\ opts' = opts /\ doubled' = (doubled \/ r.times = 2)
  BY DEF Requested
<1>3. TargetOK(target) /\ (~doubled => Once(target)) /\ doubled \in BOOLEAN
  BY DEF TransferInv, Typed
<1>4. CASE r.ok /\ r.times = 1 /\ r.to = once
  BY <1>1, <1>2, <1>3, <1>4
<1>5. CASE ~r.ok /\ r.times \in {0, 1} /\ r.to \in {target, once}
  BY <1>1, <1>2, <1>3, <1>5
<1>6. CASE r.times = 2 /\ r.to = twice
  BY <1>1, <1>2, <1>3, <1>6
<1> QED
  BY <1>4, <1>5, <1>6, SentCases

(* A run that a failed request ends leaves nothing in hand. *)
LEMMA DiedOK ==
    ASSUME TransferInv, pc # "done", opts' = opts, doubled' \in BOOLEAN,
           TargetOK(target'), Grows(target, target'), ~doubled' => Once(target'),
           pc' = "died", UNCHANGED <<at, n, luuid, mapping, uuidOf, pending, batch, round>>,
           IsFiniteSet(applied'), UNCHANGED <<covered, indexed, events>>
    PROVE  TransferInv'
<1>1. Selected' = Selected
  BY DEF Selected
<1>2. Typed'
  BY DEF TransferInv, Typed, Points
<1>3. Remembers(uuidOf, target, Selected)'
  <2>1. Remembers(uuidOf, target', Selected)
    BY RemembersGrown DEF TransferInv
  <2> QED
    BY <1>1, <2>1
<1>4. Passed' /\ InHand' /\ Replayable'
  BY DEF Passed, InHand, Replayable, Copying
<1>5. Translates'
  BY GrownFacts DEF TransferInv, Translates, Copying
<1>6. ~covered'
  BY DEF TransferInv
<1> QED
  BY <1>2, <1>3, <1>4, <1>5, <1>6 DEF TransferInv, CoverageIsReal

(* What is selected and carried depends on the options alone. *)
LEMMA SameOptions ==
    ASSUME opts' = opts
    PROVE  /\ Selected' = Selected /\ Needed' = Needed
           /\ at' = at => (Items(at))' = Items(at)
<1>1. Selected' = Selected
  BY DEF Selected
<1>2. Needed' = Needed
  BY DEF Needed, Items, SkipsDefects, Selected
<1>3. ASSUME at' = at PROVE (Items(at))' = Items(at)
  BY <1>3 DEF Items, Selected
<1> QED
  BY <1>1, <1>2, <1>3

(* The launches to replay stay copied. *)
LEMMA ReplayableKept ==
    ASSUME Replayable, opts' = opts, pc \in Copying \cup {"launch", "replay"},
           DOMAIN uuidOf \subseteq DOMAIN uuidOf', pending' = pending
    PROVE  Replayable'
<1> SUFFICES ASSUME NEW j \in DOMAIN pending
             PROVE  /\ pending[j] \in DOMAIN Selected' /\ ~(SkipsDefects(pending[j]))'
                    /\ Started((Items(pending[j]))', pending[j], uuidOf', Len((Items(pending[j]))'))
  BY DEF Replayable
<1>1. /\ pending[j] \in DOMAIN Selected /\ ~SkipsDefects(pending[j])
      /\ Started(Items(pending[j]), pending[j], uuidOf, Len(Items(pending[j])))
  BY DEF Replayable
<1>2. (Items(pending[j]))' = Items(pending[j])
  BY DEF Items, Selected
<1>3. (SkipsDefects(pending[j]))' = SkipsDefects(pending[j])
  BY DEF SkipsDefects, Selected
<1> QED
  BY <1>1, <1>2, <1>3, SameOptions DEF Started

(* What a step of the tool keeps while the launches are copied and replayed. *)
LEMMA StepKeeps ==
    ASSUME TransferInv, opts' = opts, pc \in Copying \cup {"launch", "replay"},
           Grows(target, target'), mapping' = mapping, covered' = covered
    PROVE  /\ Translates' /\ ~covered' /\ (covered => pc = "done")' /\ CoverageIsReal'
           /\ uuidOf' = uuidOf => (Remembers(uuidOf, target, Selected))'
           /\ uuidOf' = uuidOf /\ pending' = pending => Replayable'
<1>1. Selected' = Selected /\ Needed' = Needed
  BY SameOptions
<1>2. ~covered'
  BY DEF TransferInv, Copying
<1>3. Translates'
  <2>1. Unmapped = {} /\ Unmapped' = Unmapped
    BY <1>1 DEF TransferInv, Translates, Unmapped
  <2> QED
    BY <2>1, GrownFacts DEF TransferInv, Translates
<1>4. uuidOf' = uuidOf => (Remembers(uuidOf, target, Selected))'
  BY <1>1, RemembersGrown DEF TransferInv
<1>5. uuidOf' = uuidOf /\ pending' = pending => Replayable'
  BY ReplayableKept DEF TransferInv
<1> QED
  BY <1>2, <1>3, <1>4, <1>5 DEF CoverageIsReal

-----------------------------------------------------------------------------
(* The steps *)

LEMMA InitOK == Init => TransferInv
<1> SUFFICES ASSUME Init PROVE TransferInv
  OBVIOUS
<1>1. Typed
  <2>1. IsFiniteSet({}) /\ <<>> \in Seq(Nat)
    BY FS_EmptySet
  <2>2. doubled \in BOOLEAN
    BY Zenon DEF Init
  <2> QED
    BY <2>1, <2>2 DEF Init, Typed, Points
<1>2. target.types = TargetTypes /\ target.launches = <<>> /\ target.items = <<>>
      /\ target = [types |-> target.types, launches |-> target.launches, items |-> target.items]
  BY DEF Init
<1>3. IsSeq(<<>>) /\ DOMAIN <<>> = {}
  BY DEF IsSeq
<1>4. Numbered(TargetTypes)
  BY TransferAssumption, FS_CardinalityType DEF Numbered
<1>5. TargetOK(target) /\ Once(target)
  BY <1>2, <1>3, <1>4 DEF TargetOK, IsTarget, Once
<1>6. uuidOf = <<>> /\ mapping = {} /\ pc = "idle" /\ ~covered
  BY DEF Init
<1>7. Remembers(uuidOf, target, Selected)
  BY <1>3, <1>6 DEF Remembers
<1>8. Passed /\ InHand /\ Translates /\ Replayable /\ CoverageIsReal
  BY <1>6 DEF Passed, InHand, Translates, Replayable, CoverageIsReal, Copying
<1> QED
  BY <1>1, <1>5, <1>6, <1>7, <1>8 DEF TransferInv

LEMMA RunOK == TransferInv /\ Run => TransferInv'
<1> SUFFICES ASSUME TransferInv, Run PROVE TransferInv'
  OBVIOUS
<1>1. Typed'
  <2>1. IsFiniteSet({}) /\ <<>> \in Seq(Nat)
    BY FS_EmptySet
  <2> QED
    BY <2>1 DEF TransferInv, Run, Typed, Points, analyzer
<1>2. TargetOK(target)' /\ (~doubled => Once(target))'
  BY DEF TransferInv, Run
<1>3. DOMAIN uuidOf' = {} /\ pc' = "sync" /\ at' = 1 /\ pending' = <<>> /\ ~covered'
  BY DEF Run
<1>4. (Remembers(uuidOf, target, Selected))'
  BY <1>3 DEF Remembers
<1>5. Passed' /\ InHand' /\ Replayable' /\ CoverageIsReal'
  BY <1>3 DEF Passed, InHand, Replayable, CoverageIsReal, Copying
<1>6. Translates'
  <2>1. \A p \in mapping' : p[2].by = "rp" /\ p[2] = p[1]
    BY DEF Run
  <2> QED
    BY <1>3, <2>1 DEF Translates, Fits, Copying
<1> QED
  BY <1>1, <1>2, <1>3, <1>4, <1>5, <1>6 DEF TransferInv

LEMMA SyncTypeOK == TransferInv /\ SyncType => TransferInv'
<1> SUFFICES ASSUME TransferInv, SyncType PROVE TransferInv'
  OBVIOUS
<1>1. PICK loc \in Unmapped :
        IF loc \notin SourceTypes \/ \E t \in target.types : SameType(t, loc)
        THEN /\ \E t \in IF loc \in SourceTypes THEN {x \in target.types : SameType(x, loc)} ELSE {loc} :
                    mapping' = mapping \cup {<<loc, t>>}
             /\ UNCHANGED <<opts, pc, runs, faults, doubled, at, n, luuid, uuidOf, replay, target, analyzer>>
        ELSE \E r \in Sent(NewType(target, loc), NewType(NewType(target, loc), loc)) :
                /\ Requested(r)
                /\ \/ Died(r)
                   \/ /\ r.ok
                      /\ mapping' = mapping \cup {<<loc, CHOOSE t \in r.to.types :
                                        SameType(t, loc) /\ t.nr = Cardinality(r.to.types)>>}
                      /\ UNCHANGED <<pc, at, n, luuid, uuidOf, replay, analyzer>>
  BY DEF SyncType
<1>2. pc = "sync"
  BY DEF SyncType
<1>3. ASSUME opts' = opts, doubled' \in BOOLEAN, TargetOK(target'), Grows(target, target'),
             ~doubled' => Once(target'), UNCHANGED <<pc, at, n, luuid, uuidOf, replay, analyzer>>,
             NEW x, Fits(target'.types, x, loc), mapping' = mapping \cup {<<loc, x>>}
      PROVE  TransferInv'
  <2>1. Typed'
    BY <1>3 DEF TransferInv, Typed, replay, analyzer
  <2>2. (Remembers(uuidOf, target, Selected))'
    BY <1>3, SameOptions, RemembersGrown DEF TransferInv
  <2>3. Passed' /\ InHand' /\ Replayable'
    BY <1>2, <1>3 DEF TransferInv, Passed, InHand, Replayable, Copying, replay
  <2>4. Translates'
    <3>1. \A p \in mapping' : Fits(target'.types, p[2], p[1])
      BY <1>3, GrownFacts DEF TransferInv, Translates
    <3> QED
      BY <1>2, <1>3, <3>1 DEF Translates, Copying
  <2>5. ~covered'
    BY <1>2, <1>3 DEF TransferInv, replay
  <2> QED
    BY <1>3, <2>1, <2>2, <2>3, <2>4, <2>5 DEF TransferInv, CoverageIsReal
<1>4. CASE loc \notin SourceTypes \/ \E t \in target.types : SameType(t, loc)
  <2>1. UNCHANGED <<opts, pc, runs, faults, doubled, at, n, luuid, uuidOf, replay, target, analyzer>>
    BY <1>1, <1>4
  <2>2. PICK x \in IF loc \in SourceTypes THEN {y \in target.types : SameType(y, loc)} ELSE {loc} :
          mapping' = mapping \cup {<<loc, x>>}
    BY <1>1, <1>4
  <2>3. Fits(target'.types, x, loc)
    BY <2>1, <2>2 DEF Fits, SameType
  <2>4. TargetOK(target') /\ Grows(target, target') /\ (~doubled' => Once(target')) /\ doubled' \in BOOLEAN
    BY <2>1, GrowsNot DEF TransferInv, Typed
  <2> QED
    BY <1>3, <2>1, <2>2, <2>3, <2>4
<1>5. CASE ~(loc \notin SourceTypes \/ \E t \in target.types : SameType(t, loc))
  <2> DEFINE once == NewType(target, loc)
             twice == NewType(once, loc)
  <2>1. PICK r \in Sent(once, twice) :
          /\ Requested(r)
          /\ \/ Died(r)
             \/ /\ r.ok
                /\ mapping' = mapping \cup {<<loc, CHOOSE t \in r.to.types :
                                  SameType(t, loc) /\ t.nr = Cardinality(r.to.types)>>}
                /\ UNCHANGED <<pc, at, n, luuid, uuidOf, replay, analyzer>>
    BY <1>1, <1>5
  <2>2. /\ TargetOK(once) /\ Grows(target, once) /\ once.launches = target.launches
        /\ \E x \in once.types : SameType(x, loc) /\ x.nr = Cardinality(once.types)
    BY NewTypeOK DEF TransferInv
  <2> HIDE DEF once
  <2>3. /\ TargetOK(twice) /\ Grows(once, twice)
        /\ \E x \in twice.types : SameType(x, loc) /\ x.nr = Cardinality(twice.types)
    BY <2>2, NewTypeOK
  <2> HIDE DEF twice
  <2>4. Once(target) => Once(once)
    BY <2>2 DEF Once
  <2>5. /\ opts' = opts /\ doubled' \in BOOLEAN /\ TargetOK(target') /\ Grows(target, target')
        /\ (~doubled' => Once(target')) /\ (r.ok => target' = r.to)
    BY <2>1, <2>2, <2>3, <2>4, RequestOK
  <2>6. CASE Died(r)
    BY <1>2, <2>5, <2>6, DiedOK DEF Died, progress, replay, analyzer, TransferInv, Typed
  <2>7. CASE r.ok /\ ~Died(r)
    <3> DEFINE x == CHOOSE t \in r.to.types : SameType(t, loc) /\ t.nr = Cardinality(r.to.types)
    <3>1. r.to \in {once, twice}
      BY <2>7, SentCases
    <3>2. x \in r.to.types /\ SameType(x, loc)
      BY <2>2, <2>3, <3>1
    <3>3. mapping' = mapping \cup {<<loc, x>>} /\ UNCHANGED <<pc, at, n, luuid, uuidOf, replay, analyzer>>
      BY <2>1, <2>7
    <3> HIDE DEF x
    <3>4. Fits(target'.types, x, loc)
      BY <2>5, <2>7, <3>2 DEF Fits, SameType
    <3> QED
      BY <1>3, <2>5, <3>3, <3>4
  <2> QED
    BY <2>1, <2>6, <2>7 DEF Died
<1> QED
  BY <1>4, <1>5

LEMMA SyncDoneOK == TransferInv /\ SyncDone => TransferInv'
<1> SUFFICES ASSUME TransferInv, SyncDone PROVE TransferInv'
  OBVIOUS
<1>1. /\ pc = "sync" /\ Unmapped = {} /\ pc' = "launch" /\ at = 1 /\ DOMAIN uuidOf = {} /\ pending = <<>>
      /\ UNCHANGED <<opts, doubled, at, n, luuid, mapping, uuidOf, pending, batch, round, applied,
                     covered, target, indexed, mail, events>>
  BY DEF SyncDone, TransferInv, InHand, progress, replay, analyzer
<1>2. Selected' = Selected /\ Needed' = Needed
  BY <1>1, SameOptions
<1>3. Typed'
  BY <1>1 DEF TransferInv, Typed, Points
<1>4. Passed'
  <2>1. \A l \in DOMAIN Selected : ~(l < 1)
    BY SelectedAreSources, SeqDomain DEF TransferInv, Typed
  <2> QED
    BY <1>1, <1>2, <2>1 DEF Passed, Copying
<1>5. InHand'
  BY <1>1 DEF InHand, Copying
<1>6. Replayable'
  BY <1>1 DEF Replayable
<1>7. Translates'
  BY <1>1, <1>2 DEF TransferInv, Translates, Unmapped
<1>8. (Remembers(uuidOf, target, Selected))'
  BY <1>1, <1>2 DEF TransferInv
<1>9. ~covered'
  BY <1>1 DEF TransferInv
<1> QED
  BY <1>1, <1>3, <1>4, <1>5, <1>6, <1>7, <1>8, <1>9 DEF TransferInv, CoverageIsReal

LEMMA SkipOK == TransferInv /\ Skip => TransferInv'
<1> SUFFICES ASSUME TransferInv, Skip PROVE TransferInv'
  OBVIOUS
<1>1. /\ pc = "launch" /\ There(target, Selected[at]) /\ at' = at + 1
      /\ UNCHANGED <<opts, pc, doubled, n, luuid, mapping, uuidOf, pending, batch, round, applied,
                     covered, target, indexed, mail, events>>
  BY DEF Skip, LaunchExists, There, SameLaunch, replay, analyzer
<1>2. Selected' = Selected /\ IsSeq(Selected)
  BY <1>1, SameOptions, SelectedAreSources DEF TransferInv, Typed
<1>3. at \in Nat \ {0}
  BY DEF TransferInv, Typed
<1>4. DOMAIN Selected \subseteq Nat
  BY <1>2, SeqDomain
<1>5. Typed'
  BY <1>1, <1>3 DEF TransferInv, Typed
<1>6. Passed'
  <2>1. \A l \in DOMAIN Selected : l < at + 1 => There(target, Selected[l])
    <3>1. \A l \in DOMAIN Selected : l < at => There(target, Selected[l])
      BY <1>1 DEF TransferInv, Passed
    <3> QED
      BY <1>1, <1>3, <1>4, <3>1
  <2> QED
    BY <1>1, <1>2, <2>1 DEF Passed, Copying
<1>7. InHand'
  <2>1. \A key \in DOMAIN uuidOf : key[1] < at /\ key[1] \in Nat
    BY <1>1, <1>4 DEF TransferInv, InHand, Remembers
  <2>2. \A key \in DOMAIN uuidOf : key[1] < at + 1
    BY <1>3, <2>1
  <2> QED
    BY <1>1, <2>2 DEF InHand, Copying
<1>8. /\ Translates' /\ (covered => pc = "done")' /\ CoverageIsReal' /\ Replayable'
      /\ (Remembers(uuidOf, target, Selected))'
  BY <1>1, GrowsNot, StepKeeps
<1> QED
  BY <1>1, <1>5, <1>6, <1>7, <1>8 DEF TransferInv

LEMMA StartLaunchOK == TransferInv /\ StartLaunch => TransferInv'
<1> SUFFICES ASSUME TransferInv, StartLaunch PROVE TransferInv'
  OBVIOUS
<1> DEFINE once == NewLaunch(target, Selected[at])
           twice == NewLaunch(once, Selected[at])
<1>1. PICK r \in Sent(once, twice) :
        /\ Requested(r)
        /\ \/ Died(r)
           \/ /\ r.ok /\ pc' = "item" /\ n' = 1 /\ luuid' = Len(r.to.launches)
              /\ UNCHANGED <<at, mapping, uuidOf, replay, analyzer>>
  BY DEF StartLaunch
<1>2. pc = "launch" /\ at <= Len(Selected) /\ ~There(target, Selected[at])
  BY DEF StartLaunch, LaunchExists, There, SameLaunch
<1>3. /\ TargetOK(once) /\ Grows(target, once) /\ (Once(target) => Once(once))
      /\ Len(once.launches) \in DOMAIN once.launches
      /\ SameLaunch(once.launches[Len(once.launches)], Selected[at])
  BY <1>2, NewLaunchOK DEF TransferInv
<1> HIDE DEF once
<1>4. /\ TargetOK(twice) /\ Grows(once, twice)
      /\ Len(twice.launches) \in DOMAIN twice.launches
      /\ SameLaunch(twice.launches[Len(twice.launches)], Selected[at])
  BY <1>3, NewLaunchOK
<1> HIDE DEF twice
<1>5. /\ opts' = opts /\ doubled' \in BOOLEAN /\ TargetOK(target') /\ Grows(target, target')
      /\ (~doubled' => Once(target')) /\ (r.ok => target' = r.to)
  BY <1>1, <1>3, <1>4, RequestOK
<1>6. CASE Died(r)
  BY <1>2, <1>5, <1>6, DiedOK DEF Died, progress, replay, analyzer, TransferInv, Typed
<1>7. CASE r.ok /\ ~Died(r)
  <2>1. /\ pc' = "item" /\ n' = 1 /\ luuid' = Len(target'.launches) /\ target' \in {once, twice}
        /\ UNCHANGED <<at, mapping, uuidOf, pending, batch, round, applied, covered, indexed, mail, events>>
    BY <1>1, <1>5, <1>7, SentCases DEF replay, analyzer
  <2>2. /\ Selected' = Selected /\ IsSeq(Selected) /\ (Items(at))' = Items(at)
        /\ IsTree(Items(at)) /\ at \in DOMAIN Selected
    BY <1>2, <1>5, <2>1, SameOptions, SelectedAreSources, ItemsAreSources, SeqDomain
    DEF TransferInv, Typed
  <2>3. luuid' \in DOMAIN target'.launches /\ SameLaunch(target'.launches[luuid'], Selected[at])
    BY <1>3, <1>4, <2>1
  <2>4. Typed'
    BY <1>5, <2>1 DEF TransferInv, Typed, Points, Copying
  <2>5. DOMAIN Selected \subseteq Nat
    BY <2>2, SeqDomain
  <2>6. Passed'
    <3>1. \A l \in DOMAIN Selected : l < at => There(target', Selected[l])
      BY <1>2, <1>5, GrownFacts DEF TransferInv, Passed
    <3>2. There(target', Selected[at])
      BY <2>3 DEF There
    <3>3. \A l \in DOMAIN Selected : l <= at => There(target', Selected[l])
      BY <2>2, <2>5, <3>1, <3>2
    <3> QED
      BY <2>1, <2>2, <3>3 DEF Passed, Copying
  <2>7. InHand'
    <3>1. \A key \in DOMAIN uuidOf : key[1] < at /\ key[1] \in Nat
      BY <1>2, <2>5 DEF TransferInv, InHand, Remembers
    <3>2. \A key \in DOMAIN uuidOf : key[1] <= at /\ key[1] # at
      BY <2>2, <2>5, <3>1
    <3>3. \A k \in DOMAIN Items(at) : ~(k <= 0)
      BY <2>2, SeqDomain DEF IsTree
    <3>4. n' - 1 = 0
      BY <2>1
    <3> QED
      BY <2>1, <2>2, <2>3, <3>2, <3>3, <3>4 DEF InHand, Copying, Started
  <2>8. /\ Translates' /\ (covered => pc = "done")' /\ CoverageIsReal' /\ Replayable'
        /\ (Remembers(uuidOf, target, Selected))'
    BY <1>2, <1>5, <2>1, StepKeeps
  <2> QED
    BY <1>5, <2>4, <2>6, <2>7, <2>8 DEF TransferInv
<1> QED
  BY <1>1, <1>6, <1>7 DEF Died

(* Item k of the launch in hand, once started: what it copies and where. *)
LEMMA InHandItem ==
    ASSUME TransferInv, pc \in Copying, NEW k \in DOMAIN Items(at)
    PROVE  /\ at \in DOMAIN Selected /\ IsTree(Items(at))
           /\ \E l \in DOMAIN Source : /\ Selected[at] = Source[l]
                                       /\ \E j \in DOMAIN Source[l].items : Items(at)[k] = Source[l].items[j]
           /\ <<at, Items(at)[k].id>> \in DOMAIN uuidOf =>
                /\ Uuid(k) \in DOMAIN target.items /\ target.items[Uuid(k)].of = Items(at)[k].id
                /\ target.items[Uuid(k)].launch = luuid
<1>1. at \in DOMAIN Selected /\ opts \in OptionSets
  BY DEF TransferInv, InHand, Typed
<1>2. /\ IsTree(Items(at))
      /\ \E j \in DOMAIN Selected[at].items : Items(at)[k] = Selected[at].items[j]
  BY <1>1, ItemsAreSources
<1>3. \E l \in DOMAIN Source : Selected[at] = Source[l]
  BY <1>1, SelectedAreSources
<1>4. ASSUME <<at, Items(at)[k].id>> \in DOMAIN uuidOf
      PROVE  /\ Uuid(k) \in DOMAIN target.items /\ target.items[Uuid(k)].of = Items(at)[k].id
             /\ target.items[Uuid(k)].launch = luuid
  <2> DEFINE key == <<at, Items(at)[k].id>>
  <2>1. key \in DOMAIN uuidOf /\ key[1] = at /\ key[2] = Items(at)[k].id /\ Uuid(k) = uuidOf[key]
    BY <1>4 DEF Uuid
  <2> HIDE DEF key
  <2> QED
    BY <2>1 DEF TransferInv, Remembers, InHand
<1> QED
  BY <1>1, <1>2, <1>3, <1>4

(* The parent of the next item is started, in the same launch. *)
LEMMA ParentStarted ==
    ASSUME TransferInv, pc = "item", n \in DOMAIN Items(at), NEW i, i = Items(at)[n], i.parent # 0
    PROVE  /\ ParentUuid(i) # 0 /\ ParentUuid(i) \in DOMAIN target.items
           /\ target.items[ParentUuid(i)].of = i.parent
           /\ target.items[ParentUuid(i)].launch = luuid
           /\ <<at, i.parent>> \in DOMAIN uuidOf
<1>1. IsTree(Items(at)) /\ pc \in Copying
  BY InHandItem DEF Copying
<1>2. PICK p \in DOMAIN Items(at) : p < n /\ Items(at)[p].id = i.parent
  BY <1>1 DEF IsTree
<1>3. p \in Nat /\ n \in Nat
  BY <1>1, SeqDomain DEF IsTree
<1>4. <<at, Items(at)[p].id>> \in DOMAIN uuidOf
  BY <1>2, <1>3 DEF TransferInv, InHand, Started
<1>5. ParentUuid(i) = Uuid(p)
  BY <1>2, <1>4 DEF ParentUuid, Uuid
<1>6. /\ Uuid(p) \in DOMAIN target.items /\ target.items[Uuid(p)].of = i.parent
      /\ target.items[Uuid(p)].launch = luuid
  BY <1>1, <1>2, <1>4, InHandItem
<1>7. Uuid(p) # 0
  BY <1>6, SeqDomain DEF TransferInv, TargetOK, IsTarget
<1> QED
  BY <1>2, <1>4, <1>5, <1>6, <1>7

(* An item without a parent is started without one: ids are not zero. *)
LEMMA NoParent ==
    ASSUME TransferInv, NEW i, i.parent = 0
    PROVE  <<at, i.parent>> \notin DOMAIN uuidOf /\ ParentUuid(i) = 0
<1> SUFFICES ASSUME <<at, i.parent>> \in DOMAIN uuidOf PROVE FALSE
  BY DEF ParentUuid
<1>1. PICK v \in DOMAIN target.items : target.items[v].of = 0
  <2> DEFINE key == <<at, i.parent>>
  <2>1. key \in DOMAIN uuidOf /\ key[2] = 0
    OBVIOUS
  <2> HIDE DEF key
  <2> QED
    BY <2>1 DEF TransferInv, Remembers
<1>2. PICK l \in DOMAIN Source : \E k \in DOMAIN Source[l].items : target.items[v].of = Source[l].items[k].id
  BY DEF TransferInv, TargetOK, CopyOf
<1>3. PICK k \in DOMAIN Source[l].items : Source[l].items[k].id = 0
  BY <1>1, <1>2
<1>4. IsTree(Source[l].items)
  BY TransferAssumption
<1> QED
  BY <1>3, <1>4 DEF IsTree

LEMMA StartItemOK == TransferInv /\ StartItem => TransferInv'
<1> SUFFICES ASSUME TransferInv, StartItem PROVE TransferInv'
  OBVIOUS
<1> DEFINE i == Items(at)[n]
           once == NewItem(target, luuid, i, ParentUuid(i))
           twice == NewItem(once, luuid, i, ParentUuid(i))
<1>1. PICK r \in Sent(once, twice) :
        /\ Requested(r)
        /\ \/ Died(r)
           \/ /\ r.ok
              /\ pc' = CASE i.log = "none" -> "item"
                         [] i.log = "file" /\ opts.attach -> "upload"
                         [] OTHER -> "log"
              /\ n' = IF i.log = "none" THEN n + 1 ELSE n
              /\ uuidOf' = [k \in DOMAIN uuidOf \cup {<<at, i.id>>} |->
                                IF k = <<at, i.id>> THEN Len(r.to.items) ELSE uuidOf[k]]
              /\ UNCHANGED <<at, luuid, mapping, replay, analyzer>>
  BY DEF StartItem
<1>2. pc = "item" /\ pc \in Copying /\ n <= Len(Items(at)) /\ n \in Nat \ {0} /\ at \in Nat \ {0}
  BY DEF StartItem, Copying, TransferInv, Typed
<1>3. at \in DOMAIN Selected /\ opts \in OptionSets
  BY <1>2 DEF TransferInv, InHand, Typed
<1>4. IsTree(Items(at)) /\ Len(Items(at)) \in Nat /\ DOMAIN Items(at) = 1..Len(Items(at))
  BY <1>3, ItemsAreSources, SeqDomain DEF IsTree
<1>5. n \in DOMAIN Items(at)
  BY <1>2, <1>4
<1>6. PICK l \in DOMAIN Source : Selected[at] = Source[l] /\ \E j \in DOMAIN Source[l].items : i = Source[l].items[j]
  BY <1>2, <1>5, InHandItem
<1>7. PICK j \in DOMAIN Source[l].items : i = Source[l].items[j]
  BY <1>6
<1>8. luuid \in DOMAIN target.launches /\ SameLaunch(target.launches[luuid], Source[l])
  BY <1>2, <1>6 DEF TransferInv, InHand
<1>9. i.parent # 0 => /\ ParentUuid(i) # 0 /\ ParentUuid(i) \in DOMAIN target.items
                      /\ target.items[ParentUuid(i)].of = i.parent
                      /\ target.items[ParentUuid(i)].launch = luuid
  BY <1>2, <1>5, ParentStarted
<1>10. PICK parent : parent = ParentUuid(i)
  OBVIOUS
<1>20. i.parent = 0 => parent = 0
  BY <1>10, NoParent
<1>11. once = NewItem(target, luuid, i, parent) /\ twice = NewItem(once, luuid, i, parent)
  BY <1>10
<1> HIDE DEF i, once, twice
<1>12. /\ TargetOK(once) /\ Grows(target, once) /\ once.launches = target.launches
       /\ Len(once.items) \in DOMAIN once.items
       /\ once.items[Len(once.items)].of = i.id /\ once.items[Len(once.items)].launch = luuid
  <2>1. TargetOK(target)
    BY DEF TransferInv
  <2>2. i.parent # 0 => /\ parent # 0 /\ parent \in DOMAIN target.items
                        /\ target.items[parent].of = i.parent /\ target.items[parent].launch = luuid
    BY <1>9, <1>10
  <2> QED
    BY <1>6, <1>8, <1>11, <1>20, <2>1, <2>2, NewItemOK
<1>13. i.parent # 0 => /\ parent # 0 /\ parent \in DOMAIN once.items
                       /\ once.items[parent].of = i.parent /\ once.items[parent].launch = luuid
  BY <1>9, <1>10, <1>12 DEF Grows
<1>14. /\ TargetOK(twice) /\ Grows(once, twice) /\ twice.launches = once.launches
       /\ Len(twice.items) \in DOMAIN twice.items
       /\ twice.items[Len(twice.items)].of = i.id /\ twice.items[Len(twice.items)].launch = luuid
  <2>1. luuid \in DOMAIN once.launches /\ SameLaunch(once.launches[luuid], Source[l])
    BY <1>8, <1>12
  <2> QED
    BY <1>6, <1>11, <1>12, <1>13, <1>20, <2>1, NewItemOK
<1>15. /\ opts' = opts /\ doubled' \in BOOLEAN /\ TargetOK(target') /\ Grows(target, target')
       /\ (~doubled' => Once(target')) /\ (r.ok => target' = r.to)
  <2>1. Once(target) => Once(once)
    BY <1>12 DEF Once
  <2> QED
    BY <1>1, <1>12, <1>14, <2>1, RequestOK
<1>16. CASE Died(r)
  BY <1>2, <1>15, <1>16, DiedOK DEF Died, progress, replay, analyzer, TransferInv, Typed
<1>17. CASE r.ok /\ ~Died(r)
  <2> DEFINE new == <<at, i.id>>
             u == Len(target'.items)
  <2>1. /\ pc' = (CASE i.log = "none" -> "item"
                    [] i.log = "file" /\ opts.attach -> "upload"
                    [] OTHER -> "log")
        /\ n' = (IF i.log = "none" THEN n + 1 ELSE n)
        /\ uuidOf' = [k \in DOMAIN uuidOf \cup {new} |-> IF k = new THEN u ELSE uuidOf[k]]
        /\ UNCHANGED <<at, luuid, mapping, pending, batch, round, applied, covered, indexed, mail, events>>
        /\ target' \in {once, twice}
    BY <1>1, <1>15, <1>17, SentCases DEF replay, analyzer
  <2>2. /\ Selected' = Selected /\ (Items(at))' = Items(at)
    BY <1>15, <2>1, SameOptions
  <2>3. /\ u \in DOMAIN target'.items /\ target'.items[u].of = i.id /\ target'.items[u].launch = luuid
        /\ target'.launches = target.launches
    BY <1>12, <1>14, <2>1
  <2>4. /\ DOMAIN uuidOf' = DOMAIN uuidOf \cup {new} /\ uuidOf'[new] = u
        /\ \A key \in DOMAIN uuidOf : key # new => uuidOf'[key] = uuidOf[key]
        /\ new = <<new[1], new[2]>> /\ new[1] = at /\ new[2] = i.id
    BY <2>1
  <2> HIDE DEF new, u
  <2>5. \/ i.log = "none" /\ pc' = "item" /\ n' = n + 1
        \/ i.log # "none" /\ pc' \in {"upload", "log"} /\ n' = n
    BY <2>1
  <2>6. Typed'
    BY <1>2, <1>15, <2>1, <2>5 DEF TransferInv, Typed, Points, Copying
  <2>7. Remembers(uuidOf, target', Selected)
    BY <1>15, RemembersGrown DEF TransferInv
  <2>8. (Remembers(uuidOf, target, Selected))'
    <3> SUFFICES ASSUME NEW key \in DOMAIN uuidOf'
                 PROVE  /\ key = <<key[1], key[2]>> /\ key[1] \in DOMAIN Selected
                        /\ uuidOf'[key] \in DOMAIN target'.items /\ target'.items[uuidOf'[key]].of = key[2]
                        /\ target'.items[uuidOf'[key]].launch \in DOMAIN target'.launches
                        /\ SameLaunch(target'.launches[target'.items[uuidOf'[key]].launch], Selected[key[1]])
      BY <2>2 DEF Remembers
    <3>1. CASE key = new
      BY <1>3, <1>6, <1>8, <2>3, <2>4, <3>1
    <3>2. CASE key # new
      BY <2>4, <2>7, <3>2 DEF Remembers
    <3> QED
      BY <3>1, <3>2
  <2>9. Passed'
    <3>1. \A l_ \in DOMAIN Selected : l_ <= at => There(target', Selected[l_])
      BY <1>2, <1>15, GrownFacts DEF TransferInv, Passed
    <3> QED
      BY <2>1, <2>2, <2>5, <3>1 DEF Passed, Copying
  <2>10. Started(Items(at), at, uuidOf', n)
    <3>1. Started(Items(at), at, uuidOf, n - 1)
      BY <1>2 DEF TransferInv, InHand
    <3> SUFFICES ASSUME NEW k \in DOMAIN Items(at), k <= n PROVE <<at, Items(at)[k].id>> \in DOMAIN uuidOf'
      BY DEF Started
    <3>2. CASE k = n
      BY <2>4, <3>2 DEF i, new
    <3>3. CASE k # n
      <4>1. k <= n - 1
        BY <1>2, <1>4, <3>3
      <4> QED
        BY <2>4, <3>1, <4>1 DEF Started
    <3> QED
      BY <3>2, <3>3
  <2>13. \A key \in DOMAIN uuidOf' : /\ key[1] <= at
                                     /\ key[1] = at => target'.items[uuidOf'[key]].launch = luuid
    <3> SUFFICES ASSUME NEW key \in DOMAIN uuidOf'
                 PROVE  key[1] <= at /\ (key[1] = at => target'.items[uuidOf'[key]].launch = luuid)
      OBVIOUS
    <3>1. CASE key = new
      BY <1>2, <2>3, <2>4, <3>1
    <3>2. CASE key # new
      <4>1. /\ key \in DOMAIN uuidOf /\ uuidOf'[key] = uuidOf[key] /\ key[1] <= at
            /\ key[1] = at => target.items[uuidOf[key]].launch = luuid
        BY <1>2, <2>4, <3>2 DEF TransferInv, InHand
      <4>2. uuidOf[key] \in DOMAIN target.items
        BY <4>1 DEF TransferInv, Remembers
      <4> QED
        BY <1>15, <4>1, <4>2 DEF Grows
    <3> QED
      BY <3>1, <3>2
  <2>14. InHand'
    <3>1. luuid' \in DOMAIN target'.launches /\ SameLaunch(target'.launches[luuid'], Selected[at])
      BY <1>6, <1>8, <2>1, <2>3
    <3>2. CASE i.log = "none"
      <4>1. pc' = "item" /\ n' - 1 = n
        BY <1>2, <2>5, <3>2
      <4> QED
        BY <1>3, <2>1, <2>2, <2>10, <2>13, <3>1, <3>2, <4>1 DEF InHand, Copying
    <3>3. CASE i.log # "none"
      BY <1>3, <1>5, <2>1, <2>2, <2>5, <2>10, <2>13, <3>1, <3>3 DEF InHand, Copying
    <3> QED
      BY <3>2, <3>3
  <2>15. Translates' /\ (covered => pc = "done")' /\ CoverageIsReal'
    BY <1>2, <1>15, <2>1, StepKeeps
  <2>16. Replayable'
    BY <1>2, <1>15, <2>1, <2>4, ReplayableKept DEF TransferInv
  <2> QED
    BY <1>15, <2>6, <2>8, <2>9, <2>14, <2>15, <2>16 DEF TransferInv
<1> QED
  BY <1>1, <1>16, <1>17 DEF Died

(* What is in hand is kept while nothing but the target changes. *)
LEMMA HandKept ==
    ASSUME TransferInv, pc \in Copying, opts' = opts, Grows(target, target'),
           UNCHANGED <<at, luuid, uuidOf>>
    PROVE  /\ \A key \in DOMAIN uuidOf' :
                /\ key[1] <= at
                /\ key[1] = at => target'.items[uuidOf'[key]].launch = luuid
           /\ at \in DOMAIN Selected
           /\ luuid \in DOMAIN target'.launches /\ SameLaunch(target'.launches[luuid], Selected[at])
           /\ \A l \in DOMAIN Selected : l <= at => There(target', Selected[l])
<1>1. ASSUME NEW key \in DOMAIN uuidOf'
      PROVE  key[1] <= at /\ (key[1] = at => target'.items[uuidOf'[key]].launch = luuid)
  <2>1. key[1] <= at /\ (key[1] = at => target.items[uuidOf[key]].launch = luuid)
    BY DEF TransferInv, InHand
  <2>2. uuidOf[key] \in DOMAIN target.items
    BY DEF TransferInv, Remembers
  <2> QED
    BY <2>1, <2>2 DEF Grows
<1>2. at \in DOMAIN Selected /\ luuid \in DOMAIN target.launches /\ SameLaunch(target.launches[luuid], Selected[at])
  BY DEF TransferInv, InHand
<1>3. luuid \in DOMAIN target'.launches /\ SameLaunch(target'.launches[luuid], Selected[at])
  BY <1>2 DEF Grows, SameLaunch
<1>4. \A l \in DOMAIN Selected : l <= at => There(target', Selected[l])
  BY GrownFacts DEF TransferInv, Passed
<1> QED
  BY <1>1, <1>2, <1>3, <1>4

(* An upload that failed: the same item, its text still to be posted. *)
LEMMA CopyingStep ==
    ASSUME TransferInv, pc = "upload", pc' = "log", opts' = opts, doubled' \in BOOLEAN, TargetOK(target'),
           Grows(target, target'), ~doubled' => Once(target'),
           UNCHANGED <<at, n, luuid, mapping, uuidOf, pending, batch, round, applied, covered, indexed, events>>
    PROVE  TransferInv'
<1>1. pc \in Copying
  BY DEF Copying
<1>2. Selected' = Selected /\ (Items(at))' = Items(at)
  BY SameOptions
<1>3. n \in DOMAIN Items(at) /\ Started(Items(at), at, uuidOf, n)
  BY DEF TransferInv, InHand
<1>4. Passed' /\ InHand'
  BY <1>1, <1>2, <1>3, HandKept DEF Passed, InHand, Copying
<1>5. Typed'
  BY DEF TransferInv, Typed, Points, Copying
<1>6. /\ Translates' /\ (covered => pc = "done")' /\ CoverageIsReal' /\ Replayable'
      /\ (Remembers(uuidOf, target, Selected))'
  BY <1>1, StepKeeps
<1> QED
  BY <1>4, <1>5, <1>6 DEF TransferInv

(* Item n is logged: on to the next item. *)
LEMMA LoggedStep ==
    ASSUME TransferInv, pc \in {"upload", "log"}, pc' = "item", n' = n + 1, opts' = opts,
           doubled' \in BOOLEAN, TargetOK(target'), Grows(target, target'), ~doubled' => Once(target'),
           UNCHANGED <<at, luuid, mapping, uuidOf, pending, batch, round, applied, covered, indexed, events>>
    PROVE  TransferInv'
<1>1. pc \in Copying
  BY DEF Copying
<1>2. Selected' = Selected /\ (Items(at))' = Items(at)
  BY SameOptions
<1>3. n \in DOMAIN Items(at) /\ Started(Items(at), at, uuidOf, n) /\ n \in Nat \ {0}
  BY DEF TransferInv, InHand, Typed
<1>7. n' - 1 = n /\ n' \in Nat \ {0}
  BY <1>3
<1>8. Passed' /\ InHand'
  BY <1>1, <1>2, <1>3, <1>7, HandKept DEF Passed, InHand, Copying
<1>9. Typed'
  BY <1>7 DEF TransferInv, Typed, Points, Copying
<1>10. /\ Translates' /\ (covered => pc = "done")' /\ CoverageIsReal' /\ Replayable'
       /\ (Remembers(uuidOf, target, Selected))'
  BY <1>1, StepKeeps
<1> QED
  BY <1>8, <1>9, <1>10 DEF TransferInv

LEMMA UploadOK == TransferInv /\ Upload => TransferInv'
<1> SUFFICES ASSUME TransferInv, Upload PROVE TransferInv'
  OBVIOUS
<1> DEFINE once == NewLog(target, Uuid(n), "file")
           twice == NewLog(once, Uuid(n), "file")
<1>1. PICK r \in Sent(once, twice) :
        /\ Requested(r)
        /\ IF r.ok THEN pc' = "item" /\ n' = n + 1 ELSE pc' = "log" /\ n' = n
  BY DEF Upload
<1>2. pc = "upload" /\ UNCHANGED <<at, luuid, mapping, uuidOf, replay, analyzer>>
  BY DEF Upload
<1>3. /\ n \in DOMAIN Items(at) /\ Uuid(n) \in DOMAIN target.items
      /\ Uuid(n) = uuidOf[<<at, Items(at)[n].id>>]
  <2>1. n \in DOMAIN Items(at) /\ Started(Items(at), at, uuidOf, n) /\ n \in Nat
    BY <1>2 DEF TransferInv, InHand, Typed
  <2>2. <<at, Items(at)[n].id>> \in DOMAIN uuidOf
    BY <2>1 DEF Started
  <2> QED
    BY <1>2, <2>1, <2>2, InHandItem DEF Copying, Uuid
<1>4. /\ TargetOK(once) /\ Grows(target, once) /\ once.launches = target.launches
  BY <1>3, NewLogOK DEF TransferInv
<1> HIDE DEF once
<1>5. TargetOK(twice) /\ Grows(once, twice) /\ Uuid(n) \in DOMAIN once.items
  <2>1. Uuid(n) \in DOMAIN once.items
    BY <1>3, <1>4 DEF Grows
  <2> QED
    BY <1>4, <2>1, NewLogOK
<1> HIDE DEF twice
<1>6. /\ opts' = opts /\ doubled' \in BOOLEAN /\ TargetOK(target') /\ Grows(target, target')
      /\ (~doubled' => Once(target')) /\ (r.ok => Grows(once, target'))
  <2>1. Once(target) => Once(once)
    BY <1>4 DEF Once
  <2> QED
    BY <1>1, <1>4, <1>5, <2>1, RequestOK
<1>7. CASE r.ok
  BY <1>1, <1>2, <1>3, <1>6, <1>7, LoggedStep DEF replay, analyzer
<1>8. CASE ~r.ok
  <2>1. /\ pc' = "log" /\ UNCHANGED <<at, n, luuid, mapping, uuidOf, pending, batch, round, applied, covered,
                                      indexed, mail, events>>
    BY <1>1, <1>2, <1>8 DEF replay, analyzer
  <2> QED
    BY <1>2, <1>6, <2>1, CopyingStep DEF Copying
<1> QED
  BY <1>7, <1>8


LEMMA PostLogOK == TransferInv /\ PostLog => TransferInv'
<1> SUFFICES ASSUME TransferInv, PostLog PROVE TransferInv'
  OBVIOUS
<1> DEFINE once == NewLog(target, Uuid(n), "text")
           twice == NewLog(once, Uuid(n), "text")
<1>1. PICK r \in Sent(once, twice) :
        /\ Requested(r)
        /\ \/ Died(r)
           \/ r.ok /\ pc' = "item" /\ n' = n + 1 /\ UNCHANGED <<at, luuid, mapping, uuidOf, replay, analyzer>>
  BY DEF PostLog
<1>2. pc = "log"
  BY DEF PostLog
<1>3. /\ n \in DOMAIN Items(at) /\ Uuid(n) \in DOMAIN target.items
      /\ Uuid(n) = uuidOf[<<at, Items(at)[n].id>>]
  <2>1. n \in DOMAIN Items(at) /\ Started(Items(at), at, uuidOf, n) /\ n \in Nat
    BY <1>2 DEF TransferInv, InHand, Typed
  <2>2. <<at, Items(at)[n].id>> \in DOMAIN uuidOf
    BY <2>1 DEF Started
  <2> QED
    BY <1>2, <2>1, <2>2, InHandItem DEF Copying, Uuid
<1>4. /\ TargetOK(once) /\ Grows(target, once) /\ once.launches = target.launches
  BY <1>3, NewLogOK DEF TransferInv
<1> HIDE DEF once
<1>5. TargetOK(twice) /\ Grows(once, twice) /\ Uuid(n) \in DOMAIN once.items
  <2>1. Uuid(n) \in DOMAIN once.items
    BY <1>3, <1>4 DEF Grows
  <2> QED
    BY <1>4, <2>1, NewLogOK
<1> HIDE DEF twice
<1>6. /\ opts' = opts /\ doubled' \in BOOLEAN /\ TargetOK(target') /\ Grows(target, target')
      /\ (~doubled' => Once(target')) /\ (r.ok => Grows(once, target'))
  <2>1. Once(target) => Once(once)
    BY <1>4 DEF Once
  <2> QED
    BY <1>1, <1>4, <1>5, <2>1, RequestOK
<1>7. CASE r.ok /\ ~Died(r)
  BY <1>1, <1>2, <1>3, <1>6, <1>7, LoggedStep DEF replay, analyzer
<1>8. CASE Died(r)
  BY <1>2, <1>6, <1>8, DiedOK DEF Died, progress, replay, analyzer, TransferInv, Typed
<1> QED
  BY <1>1, <1>7, <1>8 DEF Died

(* While items are finished all of the launch is started. *)
LEMMA AllStarted ==
    ASSUME TransferInv, pc = "finish" \/ (pc = "item" /\ n = Len(Items(at)) + 1)
    PROVE  /\ Len(Items(at)) \in Nat /\ DOMAIN Items(at) = 1..Len(Items(at)) /\ n <= Len(Items(at)) + 1
           /\ Started(Items(at), at, uuidOf, Len(Items(at)))
<1>1. IsSeq(Items(at))
  <2>1. at \in DOMAIN Selected /\ opts \in OptionSets
    BY DEF TransferInv, InHand, Copying, Typed
  <2> QED
    BY <2>1, ItemsAreSources DEF IsTree
<1>2. Len(Items(at)) \in Nat /\ DOMAIN Items(at) = 1..Len(Items(at))
  BY <1>1, SeqDomain
<1>3. CASE pc = "finish"
  BY <1>2, <1>3 DEF TransferInv, InHand
<1>4. CASE pc = "item" /\ n = Len(Items(at)) + 1
  <2>1. n - 1 = Len(Items(at)) /\ n <= Len(Items(at)) + 1
    BY <1>2, <1>4
  <2>2. Started(Items(at), at, uuidOf, n - 1)
    BY <1>4 DEF TransferInv, InHand
  <2> QED
    BY <1>2, <2>1, <2>2
<1> QED
  BY <1>3, <1>4

LEMMA FinishItemOK == TransferInv /\ FinishItem => TransferInv'
<1> SUFFICES ASSUME TransferInv, FinishItem PROVE TransferInv'
  OBVIOUS
<1> DEFINE v == Uuid(n - 1)
           once == ItemDone(target, v)
           twice == ItemDone(once, v)
<1>1. PICK r \in Sent(once, twice) :
        /\ Requested(r)
        /\ \/ Died(r)
           \/ r.ok /\ pc' = "finish" /\ n' = n - 1 /\ UNCHANGED <<at, luuid, mapping, uuidOf, replay, analyzer>>
  BY DEF FinishItem
<1>2. (pc = "finish" \/ (pc = "item" /\ n = Len(Items(at)) + 1)) /\ n > 1 /\ pc \in Copying
  BY DEF FinishItem, Copying
<1>3. /\ Len(Items(at)) \in Nat /\ DOMAIN Items(at) = 1..Len(Items(at)) /\ n <= Len(Items(at)) + 1
      /\ Started(Items(at), at, uuidOf, Len(Items(at)))
  BY <1>2, AllStarted
<1>4. n \in Nat \ {0} /\ n - 1 \in DOMAIN Items(at) /\ n - 1 <= Len(Items(at)) /\ n - 1 \in Nat \ {0}
  <2>1. n \in Nat \ {0}
    BY DEF TransferInv, Typed
  <2> QED
    BY <1>2, <1>3, <2>1
<1>5. PICK i : i = Items(at)[n - 1]
  OBVIOUS
<1>6. <<at, i.id>> \in DOMAIN uuidOf
  BY <1>3, <1>4, <1>5 DEF Started
<1>7. v = uuidOf[<<at, i.id>>]
  BY <1>5 DEF Uuid
<1>8. v \in DOMAIN target.items
  BY <1>2, <1>4, <1>5, <1>6, InHandItem
<1> HIDE DEF v
<1>12. TargetOK(once) /\ Grows(target, once) /\ once.launches = target.launches
  BY <1>8, ItemDoneOK DEF TransferInv
<1> HIDE DEF once
<1>13. TargetOK(twice) /\ Grows(once, twice)
  <2>1. v \in DOMAIN once.items
    BY <1>8, <1>12 DEF Grows
  <2> QED
    BY <1>12, <2>1, ItemDoneOK
<1> HIDE DEF twice
<1>14. /\ opts' = opts /\ doubled' \in BOOLEAN /\ TargetOK(target') /\ Grows(target, target')
       /\ (~doubled' => Once(target'))
  <2>1. Once(target) => Once(once)
    BY <1>12 DEF Once
  <2> QED
    BY <1>1, <1>12, <1>13, <2>1, RequestOK
<1>15. CASE Died(r)
  BY <1>2, <1>14, <1>15, DiedOK DEF Died, progress, replay, analyzer, TransferInv, Typed
<1>16. CASE r.ok /\ ~Died(r)
  <2>1. /\ pc' = "finish" /\ n' = n - 1
        /\ UNCHANGED <<at, luuid, mapping, uuidOf, pending, batch, round, applied, covered, indexed, mail, events>>
    BY <1>1, <1>16 DEF replay, analyzer
  <2>2. Selected' = Selected /\ (Items(at))' = Items(at)
    BY <1>14, <2>1, SameOptions
  <2>3. n' \in Nat \ {0} /\ n' <= Len(Items(at)) + 1
    BY <1>3, <1>4, <2>1
  <2>5. Passed' /\ InHand'
    BY <1>2, <1>3, <1>14, <2>1, <2>2, <2>3, HandKept DEF Passed, InHand, Copying
  <2>6. Typed'
    BY <1>14, <2>1, <2>3 DEF TransferInv, Typed, Points, Copying
  <2>7. /\ Translates' /\ (covered => pc = "done")' /\ CoverageIsReal' /\ Replayable'
        /\ (Remembers(uuidOf, target, Selected))'
    BY <1>2, <1>14, <2>1, StepKeeps
  <2> QED
    BY <1>14, <2>5, <2>6, <2>7 DEF TransferInv
<1> QED
  BY <1>1, <1>15, <1>16 DEF Died

LEMMA FinishLaunchOK == TransferInv /\ FinishLaunch => TransferInv'
<1> SUFFICES ASSUME TransferInv, FinishLaunch PROVE TransferInv'
  OBVIOUS
<1> DEFINE once == LaunchDone(target, luuid)
           twice == LaunchDone(once, luuid)
<1>1. PICK r \in Sent(once, twice) :
        /\ Requested(r)
        /\ \/ Died(r)
           \/ /\ r.ok /\ pc' = "launch" /\ at' = at + 1
              /\ pending' = IF Carries(at) THEN Append(pending, at) ELSE pending
              /\ UNCHANGED <<n, luuid, mapping, uuidOf, batch, round, applied, covered, analyzer>>
  BY DEF FinishLaunch
<1>2. pc \in {"item", "finish"} /\ pc \in Copying /\ n = 1 /\ (pc = "item" => Len(Items(at)) = 0)
  BY DEF FinishLaunch, Copying
<1>3. luuid \in DOMAIN target.launches /\ at \in DOMAIN Selected /\ opts \in OptionSets
  BY <1>2 DEF TransferInv, InHand, Typed
<1>4. /\ TargetOK(once) /\ Grows(target, once) /\ (Once(target) => Once(once))
      /\ luuid \in DOMAIN once.launches
  BY <1>3, LaunchDoneOK DEF TransferInv
<1> HIDE DEF once
<1>5. TargetOK(twice) /\ Grows(once, twice)
  BY <1>4, LaunchDoneOK
<1> HIDE DEF twice
<1>6. /\ opts' = opts /\ doubled' \in BOOLEAN /\ TargetOK(target') /\ Grows(target, target')
      /\ (~doubled' => Once(target'))
  BY <1>1, <1>4, <1>5, RequestOK
<1>7. CASE Died(r)
  BY <1>2, <1>6, <1>7, DiedOK DEF Died, progress, replay, analyzer, TransferInv, Typed
<1>8. CASE r.ok /\ ~Died(r)
  <2>1. /\ pc' = "launch" /\ at' = at + 1
        /\ pending' = IF Carries(at) THEN Append(pending, at) ELSE pending
        /\ UNCHANGED <<n, luuid, mapping, uuidOf, batch, round, applied, covered, indexed, mail, events>>
    BY <1>1, <1>8 DEF analyzer
  <2>2. Selected' = Selected /\ DOMAIN Selected \subseteq Nat
    BY <1>3, <1>6, SameOptions, SelectedAreSources, SeqDomain
  <2>3. at \in Nat \ {0} /\ pending \in Seq(Nat) /\ pending' \in Seq(Nat)
    <3>1. at \in Nat \ {0} /\ pending \in Seq(Nat)
      BY DEF TransferInv, Typed
    <3> QED
      BY <2>1, <3>1
  <2>4. Typed'
    BY <1>6, <2>1, <2>3 DEF TransferInv, Typed, Points
  <2>5. Passed'
    <3>1. \A l \in DOMAIN Selected : l <= at => There(target', Selected[l])
      BY <1>2, <1>6, GrownFacts DEF TransferInv, Passed
    <3>2. \A l \in DOMAIN Selected : l < at + 1 => There(target', Selected[l])
      BY <2>2, <2>3, <3>1
    <3> QED
      BY <2>1, <2>2, <3>2 DEF Passed, Copying
  <2>6. InHand'
    <3>1. \A key \in DOMAIN uuidOf : key[1] <= at /\ key[1] \in Nat
      BY <1>2, <2>2 DEF TransferInv, InHand, Remembers
    <3>2. \A key \in DOMAIN uuidOf : key[1] < at + 1
      BY <2>3, <3>1
    <3> QED
      BY <2>1, <3>2 DEF InHand, Copying
  <2>7. Started(Items(at), at, uuidOf, Len(Items(at)))
    <3>1. CASE pc = "finish"
      BY <3>1, AllStarted
    <3>2. CASE pc = "item"
      <4>1. DOMAIN Items(at) = {}
        <5>1. IsSeq(Items(at)) /\ Len(Items(at)) = 0
          BY <1>2, <1>3, <3>2, ItemsAreSources DEF IsTree
        <5> QED
          BY <5>1, SeqDomain
      <4> QED
        BY <4>1 DEF Started
    <3> QED
      BY <1>2, <3>1, <3>2
  <2>8. Replayable'
    <3> SUFFICES ASSUME NEW j \in DOMAIN pending'
                 PROVE  /\ pending'[j] \in DOMAIN Selected' /\ ~(SkipsDefects(pending[j]))'
                        /\ (Started(Items(pending[j]), pending[j], uuidOf, Len(Items(pending[j]))))'
      BY DEF Replayable
    <3>1. /\ pending'[j] \in DOMAIN Selected /\ ~SkipsDefects(pending'[j])
          /\ Started(Items(pending'[j]), pending'[j], uuidOf, Len(Items(pending'[j])))
      <4>1. CASE j \in DOMAIN pending /\ pending'[j] = pending[j]
        BY <1>2, <4>1 DEF TransferInv, Replayable
      <4>2. CASE Carries(at) /\ pending'[j] = at
        BY <1>3, <2>7, <4>2 DEF Carries
      <4>3. (j \in DOMAIN pending /\ pending'[j] = pending[j]) \/ (Carries(at) /\ pending'[j] = at)
        BY <2>1, <2>3
      <4> QED
        BY <4>1, <4>2, <4>3
    <3>2. (Items(pending[j]))' = Items(pending'[j])
      BY <1>6 DEF Items, Selected
    <3>3. (SkipsDefects(pending[j]))' = SkipsDefects(pending'[j])
      BY <1>6 DEF SkipsDefects, Selected
    <3> QED
      BY <2>1, <2>2, <3>1, <3>2, <3>3
  <2>9. /\ Translates' /\ (covered => pc = "done")' /\ CoverageIsReal'
        /\ (Remembers(uuidOf, target, Selected))'
    BY <1>2, <1>6, <2>1, StepKeeps
  <2> QED
    BY <1>6, <2>4, <2>5, <2>6, <2>8, <2>9 DEF TransferInv
<1> QED
  BY <1>1, <1>7, <1>8 DEF Died

LEMMA LaunchedOK == TransferInv /\ Launched => TransferInv'
<1> SUFFICES ASSUME TransferInv, Launched PROVE TransferInv'
  OBVIOUS
<1>1. /\ pc = "launch" /\ at > Len(Selected) /\ pc' \in {"done", "replay"} /\ at' = 1 /\ batch' = 0
      /\ UNCHANGED <<opts, doubled, n, luuid, mapping, uuidOf, pending, round, applied, covered,
                     target, indexed, mail, events>>
  BY DEF Launched, analyzer
<1>2. Selected' = Selected /\ Len(Selected) \in Nat /\ DOMAIN Selected = 1..Len(Selected)
  BY <1>1, SameOptions, SelectedAreSources, SeqDomain DEF TransferInv, Typed
<1>3. Typed'
  BY <1>1 DEF TransferInv, Typed, Points
<1>4. Passed'
  <2>1. at \in Nat
    BY DEF TransferInv, Typed
  <2>2. \A l \in DOMAIN Selected : l < at
    BY <1>1, <1>2, <2>1
  <2>3. \A l \in DOMAIN Selected : There(target, Selected[l])
    BY <1>1, <2>2 DEF TransferInv, Passed
  <2> QED
    BY <1>1, <1>2, <2>3 DEF Passed, Copying
<1>5. InHand'
  BY <1>1 DEF InHand, Copying
<1>6. /\ Translates' /\ (covered => pc = "done")' /\ CoverageIsReal' /\ Replayable'
      /\ (Remembers(uuidOf, target, Selected))'
  BY <1>1, GrowsNot, StepKeeps
<1> QED
  BY <1>1, <1>3, <1>4, <1>5, <1>6 DEF TransferInv

(* What a chunk of replay_defects carries: copies of this run and labels that fit them. *)
LEMMA ChunkOK ==
    ASSUME TransferInv, pc = "replay", NEW j \in DOMAIN pending, NEW b \in Nat
    PROVE  Carried(target, Chunk(pending[j], b)) /\ IsFiniteSet(Chunk(pending[j], b))
<1> DEFINE l == pending[j]
           its == Items(l)
           S == {k \in DOMAIN its : its[k].label # NoIssue /\ Mapped(its[k].label).group # "ti"}
           labelled == Picked(its, S)
<1>1. l \in DOMAIN Selected /\ ~SkipsDefects(l) /\ Started(its, l, uuidOf, Len(its))
  BY DEF TransferInv, Replayable
<1>2. Updates(l) = [k \in DOMAIN labelled |-> <<uuidOf[<<l, labelled[k].id>>], Mapped(labelled[k].label)>>]
  BY DEF Updates
<1> HIDE DEF l
<1>3. opts \in OptionSets
  BY DEF TransferInv, Typed
<1>4. /\ IsTree(its) /\ IsSeq(its)
      /\ \A k \in DOMAIN its : \E h \in DOMAIN Source : \E i \in DOMAIN Source[h].items : its[k] = Source[h].items[i]
  <2>1. IsTree(its) /\ \A k \in DOMAIN its : \E i \in DOMAIN Selected[l].items : its[k] = Selected[l].items[i]
    BY <1>1, <1>3, ItemsAreSources
  <2>2. \E h \in DOMAIN Source : Selected[l] = Source[h]
    BY <1>1, <1>3, SelectedAreSources
  <2> QED
    BY <2>1, <2>2 DEF IsTree
<1>5. Len(its) \in Nat /\ DOMAIN its = 1..Len(its)
  BY <1>4, SeqDomain
<1>6. \A k \in DOMAIN its : its[k].label # NoIssue => its[k].label \in Needed
  BY <1>1 DEF Needed, Range
<1> HIDE DEF its
<1>7. /\ IsSeq(labelled)
      /\ \A k \in DOMAIN labelled : \E i \in DOMAIN its : labelled[k] = its[i] /\ its[i].label # NoIssue
  <2>1. S \in SUBSET DOMAIN its /\ \A i \in S : its[i].label # NoIssue
    OBVIOUS
  <2> HIDE DEF S
  <2> QED
    BY <1>4, <2>1, PickedEntries
<1> HIDE DEF labelled
<1>8. ASSUME NEW k \in DOMAIN labelled, NEW p, p = Updates(l)[k]
      PROVE  /\ p[1] \in DOMAIN target.items
             /\ \E h \in DOMAIN Source : \E m \in DOMAIN Source[h].items :
                    /\ target.items[p[1]].of = Source[h].items[m].id
                    /\ Fits(target.types, p[2], Source[h].items[m].label)
  <2>1. PICK i \in DOMAIN its : labelled[k] = its[i] /\ its[i].label # NoIssue
    BY <1>7
  <2>2. p = <<uuidOf[<<l, its[i].id>>], Mapped(its[i].label)>>
    BY <1>2, <1>8, <2>1
  <2>3. p[1] = uuidOf[<<l, its[i].id>>] /\ p[2] = Mapped(its[i].label)
    BY <2>2
  <2>4. <<l, its[i].id>> \in DOMAIN uuidOf
    BY <1>1, <1>5 DEF Started
  <2>5. p[1] \in DOMAIN target.items /\ target.items[p[1]].of = its[i].id
    <3> DEFINE key == <<l, its[i].id>>
    <3>1. key \in DOMAIN uuidOf /\ p[1] = uuidOf[key] /\ key[2] = its[i].id
      BY <2>3, <2>4
    <3> HIDE DEF key
    <3> QED
      BY <3>1 DEF TransferInv, Remembers
  <2>6. PICK h \in DOMAIN Source : \E m \in DOMAIN Source[h].items : its[i] = Source[h].items[m]
    BY <1>4
  <2>7. Fits(target.types, p[2], its[i].label)
    <3>1. its[i].label \in Needed /\ Unmapped = {}
      BY <1>6, <2>1 DEF TransferInv, Translates
    <3>2. \E q \in mapping : q[1] = its[i].label
      BY <3>1 DEF Unmapped
    <3>3. PICK q \in mapping : q[1] = its[i].label /\ Mapped(its[i].label) = q[2]
      BY <3>2 DEF Mapped
    <3> QED
      BY <2>3, <3>3 DEF TransferInv, Translates
  <2> QED
    BY <2>5, <2>6, <2>7
<1>9. DOMAIN Updates(l) = DOMAIN labelled
  BY <1>2
<1>10. Carried(target, Chunk(l, b))
  BY <1>8, <1>9 DEF Carried, Chunk
<1>11. IsFiniteSet(Chunk(l, b))
  <2> DEFINE D == (DOMAIN Updates(l)) \cap (b * Batch + 1)..((b + 1) * Batch)
             f == [k \in D |-> Updates(l)[k]]
  <2>1. IsFiniteSet(DOMAIN labelled)
    BY <1>7, SeqDomain, FS_Interval
  <2>2. IsFiniteSet(D)
    BY <1>9, <2>1, FS_Subset
  <2>3. f \in Surjection(D, Chunk(l, b))
    BY DEF Chunk, Surjection
  <2> QED
    BY <2>2, <2>3, FS_Surjection
<1> QED
  BY <1>10, <1>11 DEF l

LEMMA ReplayOK == TransferInv /\ Replay => TransferInv'
<1> SUFFICES ASSUME TransferInv, Replay PROVE TransferInv'
  OBVIOUS
<1> DEFINE chunk == Chunk(pending[at], batch)
           once == NewIssues(target, chunk)
           twice == NewIssues(once, chunk)
<1>1. PICK r \in Sent(once, twice) :
        /\ Requested(r)
        /\ IF r.ok THEN /\ batch' = batch + 1 /\ pc' = pc
                        /\ applied' = applied \cup (IF round = 1 THEN chunk ELSE {})
           ELSE pc' = "died" /\ UNCHANGED <<batch, applied>>
  BY DEF Replay
<1>2. /\ pc = "replay" /\ at <= Len(pending)
      /\ UNCHANGED <<at, n, luuid, mapping, uuidOf, pending, round, covered, indexed, events>>
  BY DEF Replay
<1>3. at \in DOMAIN pending /\ batch \in Nat /\ IsFiniteSet(applied)
  BY <1>2 DEF TransferInv, Typed
<1>4. Carried(target, chunk) /\ IsFiniteSet(chunk)
  BY <1>2, <1>3, ChunkOK
<1> HIDE DEF chunk
<1>5. TargetOK(once) /\ Grows(target, once) /\ once.launches = target.launches
  BY <1>4, NewIssuesOK DEF TransferInv
<1> HIDE DEF once
<1>6. TargetOK(twice) /\ Grows(once, twice)
  BY <1>4, <1>5, GrownFacts, NewIssuesOK
<1> HIDE DEF twice
<1>7. /\ opts' = opts /\ doubled' \in BOOLEAN /\ TargetOK(target') /\ Grows(target, target')
      /\ (~doubled' => Once(target'))
  <2>1. Once(target) => Once(once)
    BY <1>5 DEF Once
  <2> QED
    BY <1>1, <1>5, <1>6, <2>1, RequestOK
<1>8. CASE ~r.ok
  BY <1>1, <1>2, <1>3, <1>7, <1>8, DiedOK
<1>9. CASE r.ok
  <2>1. batch' = batch + 1 /\ pc' = pc /\ applied' = applied \cup (IF round = 1 THEN chunk ELSE {})
    BY <1>1, <1>9
  <2>2. IsFiniteSet(applied')
    BY <1>3, <1>4, <2>1, FS_Union
  <2>3. Selected' = Selected
    BY <1>7, SameOptions
  <2>4. Typed'
    BY <1>2, <1>3, <1>7, <2>1, <2>2 DEF TransferInv, Typed
  <2>5. Passed'
    BY <1>2, <1>7, <2>1, <2>3, GrownFacts DEF TransferInv, Passed, Copying
  <2>6. InHand'
    BY <1>2, <2>1 DEF InHand, Copying
  <2>7. /\ Translates' /\ (covered => pc = "done")' /\ CoverageIsReal' /\ Replayable'
        /\ (Remembers(uuidOf, target, Selected))'
    BY <1>2, <1>7, <2>1, StepKeeps
  <2> QED
    BY <1>7, <2>4, <2>5, <2>6, <2>7 DEF TransferInv
<1> QED
  BY <1>8, <1>9

(* A step that leaves the target and what the run has in hand alone, at the replay or after. *)
LEMMA AfterLaunches ==
    ASSUME TransferInv, pc = "replay", pc' \in {"replay", "done"}, at' \in Nat \ {0}, batch' \in Nat,
           UNCHANGED <<opts, doubled, n, luuid, mapping, uuidOf, pending, applied, target, indexed, events>>,
           covered' => pc' = "done" /\ \A p \in applied : p[1] \in Range(events)
    PROVE  TransferInv'
<1>1. Selected' = Selected /\ Needed' = Needed
  BY SameOptions
<1>2. Typed'
  BY DEF TransferInv, Typed, Points
<1>3. Passed' /\ InHand'
  BY <1>1 DEF TransferInv, Passed, InHand, Copying
<1>4. Translates'
  BY <1>1 DEF TransferInv, Translates, Unmapped
<1>5. Replayable'
  BY ReplayableKept DEF TransferInv
<1>6. (Remembers(uuidOf, target, Selected))'
  BY <1>1 DEF TransferInv
<1>7. (covered => pc = "done")' /\ CoverageIsReal'
  BY DEF CoverageIsReal
<1> QED
  BY <1>2, <1>3, <1>4, <1>5, <1>6, <1>7 DEF TransferInv

LEMMA ReplayNextOK == TransferInv /\ ReplayNext => TransferInv'
<1> SUFFICES ASSUME TransferInv, ReplayNext PROVE TransferInv'
  OBVIOUS
<1>1. at' \in Nat \ {0} /\ batch' \in Nat
  BY DEF ReplayNext, TransferInv, Typed
<1>2. ~covered'
  BY DEF ReplayNext, TransferInv
<1> QED
  BY <1>1, <1>2, AfterLaunches DEF ReplayNext, analyzer

LEMMA VerifyOK == TransferInv /\ Verify => TransferInv'
<1> SUFFICES ASSUME TransferInv, Verify PROVE TransferInv'
  OBVIOUS
<1> DEFINE ids == {p[1] : p \in applied}
           full == LabelEvents(ids) >= Cardinality(ids)
<1>1. \/ pc' = "done" /\ UNCHANGED <<at, batch, round, covered>>
      \/ /\ covered' = full
         /\ IF full \/ round = 2 THEN pc' = "done" /\ UNCHANGED <<at, batch, round>>
            ELSE pc' = pc /\ at' = 1 /\ batch' = 0 /\ round' = 2
  BY DEF Verify
<1>2. /\ pc = "replay"
      /\ UNCHANGED <<opts, doubled, n, luuid, mapping, uuidOf, pending, applied, target, indexed, mail, events>>
  BY DEF Verify, analyzer
<1>3. ASSUME full PROVE \A p \in applied : p[1] \in Range(events)
  <2> DEFINE found == {u \in ids : u \in Range(events)}
             f == [p \in applied |-> p[1]]
  <2>1. IsFiniteSet(ids)
    <3>1. IsFiniteSet(applied) /\ f \in Surjection(applied, ids)
      BY DEF TransferInv, Typed, Surjection
    <3> QED
      BY <3>1, FS_Surjection
  <2>2. found \in SUBSET ids /\ Cardinality(found) >= Cardinality(ids)
    BY <1>3 DEF LabelEvents
  <2>3. \A p \in applied : p[1] \in ids
    OBVIOUS
  <2>4. ids = found => \A u \in ids : u \in Range(events)
    OBVIOUS
  <2> HIDE DEF ids, found
  <2>5. found = ids
    <3>1. /\ IsFiniteSet(found) /\ Cardinality(found) <= Cardinality(ids)
          /\ Cardinality(ids) = Cardinality(found) => ids = found
      BY <2>1, <2>2, FS_Subset
    <3>2. Cardinality(found) \in Nat /\ Cardinality(ids) \in Nat
      BY <2>1, <3>1, FS_CardinalityType
    <3> QED
      BY <2>2, <3>1, <3>2
  <2> QED
    BY <2>3, <2>4, <2>5
<1> HIDE DEF full
<1>4. at \in Nat \ {0} /\ batch \in Nat /\ ~covered
  BY <1>2 DEF TransferInv, Typed
<1>5. at' \in Nat \ {0} /\ batch' \in Nat /\ pc' \in {"replay", "done"}
  BY <1>1, <1>2, <1>4
<1>6. covered' => pc' = "done" /\ \A p \in applied : p[1] \in Range(events)
  BY <1>1, <1>3, <1>4
<1> QED
  BY <1>2, <1>5, <1>6, AfterLaunches

(* The analyzer's own steps, and none at all: its log only grows. *)
LEMMA AnalyzerOK ==
    ASSUME TransferInv, UNCHANGED <<opts, pc, doubled, progress, replay, target>>,
           indexed' \subseteq Nat, events' \in Seq(Nat), Range(events) \subseteq Range(events')
    PROVE  TransferInv'
<1> USE DEF progress, replay
<1>1. Selected' = Selected /\ Needed' = Needed /\ (Items(at))' = Items(at)
  BY SameOptions
<1>2. Typed'
  BY DEF TransferInv, Typed
<1>3. Passed' /\ InHand'
  BY <1>1 DEF TransferInv, Passed, InHand
<1>4. Translates'
  BY <1>1 DEF TransferInv, Translates, Unmapped
<1>5. Replayable'
  <2>1. CASE pc \in Copying \cup {"launch", "replay"}
    BY <2>1, ReplayableKept DEF TransferInv
  <2>2. CASE pc \notin Copying \cup {"launch", "replay"}
    BY <2>2 DEF Replayable
  <2> QED
    BY <2>1, <2>2
<1>6. (Remembers(uuidOf, target, Selected))'
  BY <1>1 DEF TransferInv
<1>7. (covered => pc = "done")' /\ CoverageIsReal'
  BY DEF TransferInv, CoverageIsReal
<1> QED
  BY <1>2, <1>3, <1>4, <1>5, <1>6, <1>7 DEF TransferInv

LEMMA IndexOK == TransferInv /\ Index => TransferInv'
<1> SUFFICES ASSUME TransferInv, Index PROVE TransferInv'
  OBVIOUS
<1>1. indexed' \subseteq Nat
  <2>1. DOMAIN target.items \subseteq Nat /\ indexed \subseteq Nat
    BY SeqDomain DEF TransferInv, TargetOK, IsTarget, Typed
  <2> QED
    BY <2>1 DEF Index
<1>2. events' = events /\ events \in Seq(Nat)
  BY DEF Index, TransferInv, Typed
<1> QED
  BY <1>1, <1>2, AnalyzerOK DEF Index

LEMMA DefectUpdateOK == TransferInv /\ DefectUpdate => TransferInv'
<1> SUFFICES ASSUME TransferInv, DefectUpdate PROVE TransferInv'
  OBVIOUS
<1>1. indexed \subseteq Nat /\ events \in Seq(Nat) /\ indexed' = indexed
  BY DEF DefectUpdate, TransferInv, Typed
<1>2. events' \in Seq(Nat) /\ Range(events) \subseteq Range(events')
  <2>1. CASE Head(mail) \in indexed
    <3>1. PICK u \in Nat : events' = Append(events, u)
      BY <1>1, <2>1 DEF DefectUpdate
    <3>2. events' \in Seq(Nat) /\ \A k \in DOMAIN events : k \in DOMAIN events' /\ events'[k] = events[k]
      BY <1>1, <3>1
    <3> QED
      BY <3>2 DEF Range
  <2>2. CASE Head(mail) \notin indexed
    BY <1>1, <2>2 DEF DefectUpdate
  <2> QED
    BY <2>1, <2>2
<1> QED
  BY <1>1, <1>2, AnalyzerOK DEF DefectUpdate

(* What is on the target, what the run remembers of it and what is still to be done agree    *)
(* in every state, whichever requests were refused, lost or repeated and wherever the tool    *)
(* was killed (migrate.py main 738-816).                                                      *)
THEOREM TransferInvariant == Spec => []TransferInv
<1>1. Init => TransferInv
  BY InitOK
<1>2. TransferInv /\ [Next]_vars => TransferInv'
  <2> SUFFICES ASSUME TransferInv, [Next]_vars PROVE TransferInv'
    OBVIOUS
  <2>1. CASE UNCHANGED vars
    <3>1. UNCHANGED <<opts, pc, doubled, progress, replay, target, indexed, events>>
      BY <2>1 DEF vars, progress, replay
    <3>2. indexed \subseteq Nat /\ events \in Seq(Nat)
      BY DEF TransferInv, Typed
    <3> QED
      BY <3>1, <3>2, AnalyzerOK
  <2>2. CASE Next
    BY <2>2, RunOK, SyncTypeOK, SyncDoneOK, SkipOK, StartLaunchOK, StartItemOK, UploadOK, PostLogOK,
       FinishItemOK, FinishLaunchOK, LaunchedOK, ReplayOK, ReplayNextOK, VerifyOK, IndexOK, DefectUpdateOK
    DEF Next
  <2> QED
    BY <2>1, <2>2
<1> QED
  BY <1>1, <1>2, PTL DEF Spec

-----------------------------------------------------------------------------
(* What is finished stays whole *)

(* Every item that is not to be dropped is carried, and nothing else than items of the launch. *)
LEMMA CarriedItems ==
    ASSUME opts \in OptionSets, NEW l \in DOMAIN Selected
    PROVE  /\ Range(Items(l)) \subseteq Range(Selected[l].items)
           /\ \A i \in Range(Selected[l].items) : (opts.skipPassed /\ i.passed) \/ i \in Range(Items(l))
<1> DEFINE src == Selected[l].items
           all == ItemsOfLaunch(src)
<1>1. IsTree(src) /\ IsSeq(src)
  BY SelectedAreSources, TransferAssumption DEF IsTree
<1>2. all = Picked(src, DOMAIN src)
  BY <1>1, AllAreFound DEF ItemsOfLaunch
<1>3. Items(l) = IF opts.skipPassed THEN DropPassed(all) ELSE all
  BY DEF Items
<1>4. Range(Items(l)) \subseteq Range(src)
  BY ItemsAreSources DEF Range
<1> HIDE DEF src
<1>5. IsSeq(all) /\ \A k \in DOMAIN src : \E h \in DOMAIN all : all[h] = src[k]
  BY <1>1, <1>2, PickedRange
<1> HIDE DEF all
<1>6. ASSUME NEW k \in DOMAIN src, ~(opts.skipPassed /\ src[k].passed)
      PROVE  \E h \in DOMAIN Items(l) : Items(l)[h] = src[k]
  <2>1. PICK h \in DOMAIN all : all[h] = src[k]
    BY <1>5
  <2>2. CASE ~opts.skipPassed
    <3>1. Items(l) = all
      BY <1>3, <2>2
    <3> QED
      BY <2>1, <3>1
  <2>3. CASE opts.skipPassed
    <3>1. Items(l) = Picked(all, Survivors(all))
      BY <1>3, <2>3 DEF DropPassed
    <3>2. h \in Survivors(all)
      BY <1>6, <2>1, <2>3 DEF Survivors, Reach
    <3> QED
      BY <1>5, <2>1, <3>1, <3>2, ParentsSurvive, PickedRange
  <2> QED
    BY <2>2, <2>3
<1> QED
  BY <1>4, <1>6 DEF Range, src

(* TreeKept of any target. *)
FinishedIn(t, c, id) ==
    {u \in DOMAIN t.items : t.items[u].launch = c /\ t.items[u].of = id /\ t.items[u].done}

CopyIn(t, u, c, i, twice) ==
    /\ FinishedIn(t, c, i.id) = {u}
    /\ IF i.parent = 0 THEN t.items[u].parent = 0 ELSE FinishedIn(t, c, i.parent) = {t.items[u].parent}
    /\ i.log = "none" <=> t.items[u].logs = <<>>
    /\ Range(t.items[u].logs) \subseteq {"text", i.log}
    /\ ~twice => IsInjective(t.items[u].logs)

StrayIn(t, u, c, twice) ==
    /\ twice /\ ~t.items[u].done /\ t.items[u].logs = <<>>
    /\ \A w \in DOMAIN t.items : t.items[w].launch = c => t.items[w].parent # u
    /\ \E twin \in FinishedIn(t, c, t.items[u].of) : t.items[twin].parent = t.items[u].parent

Whole(t, c, twice) ==
    \E l \in DOMAIN Selected :
        /\ t.launches[c].name = Selected[l].name /\ t.launches[c].start = Selected[l].start
        /\ \A i \in Range(Selected[l].items) :
              (opts.skipPassed /\ i.passed) \/ \E u \in DOMAIN t.items : CopyIn(t, u, c, i, twice)
        /\ \A u \in DOMAIN t.items : t.items[u].launch = c =>
              StrayIn(t, u, c, twice) \/ \E i \in Range(Selected[l].items) : CopyIn(t, u, c, i, twice)

AllWhole(t, twice) == \A c \in DOMAIN t.launches : t.launches[c].done => Whole(t, c, twice)

LEMMA WholeIsKept == AllWhole(target, doubled) <=> TreeKept
<1>1. \A c, id : FinishedIn(target, c, id) = Finished(c, id)
  BY DEF FinishedIn, Finished
<1>2. \A u, c, i : CopyIn(target, u, c, i, doubled) <=> IsTheCopy(u, c, i)
  BY <1>1, Zenon DEF CopyIn, IsTheCopy
<1>3. \A u, c : StrayIn(target, u, c, doubled) <=> IsStray(u, c)
  BY <1>1, Zenon DEF StrayIn, IsStray
<1> QED
  BY <1>2, <1>3, Zenon DEF AllWhole, Whole, TreeKept

(* From t to s only launch u, and the labels of items, have changed; nothing is gone. *)
Apart(t, s, u) ==
    /\ \A c \in DOMAIN s.launches : c # u /\ s.launches[c].done =>
          /\ c \in DOMAIN t.launches /\ t.launches[c].done
          /\ SameLaunch(s.launches[c], t.launches[c])
    /\ \A v \in DOMAIN s.items : s.items[v].launch # u =>
          v \in DOMAIN t.items /\ SameItem(s.items[v], t.items[v])
    /\ \A v \in DOMAIN t.items : v \in DOMAIN s.items /\ s.items[v].launch = t.items[v].launch

LEMMA ApartNot ==
    ASSUME NEW t, NEW u PROVE Apart(t, t, u)
BY DEF Apart, SameLaunch, SameItem

LEMMA ApartTwice ==
    ASSUME NEW t, NEW s, NEW r, NEW u, Apart(t, s, u), Apart(s, r, u)
    PROVE  Apart(t, r, u)
<1>1. ASSUME NEW c \in DOMAIN r.launches, c # u, r.launches[c].done
      PROVE  c \in DOMAIN t.launches /\ t.launches[c].done /\ SameLaunch(r.launches[c], t.launches[c])
  BY <1>1 DEF Apart, SameLaunch
<1>2. ASSUME NEW v \in DOMAIN r.items, r.items[v].launch # u
      PROVE  v \in DOMAIN t.items /\ SameItem(r.items[v], t.items[v])
  <2>1. v \in DOMAIN s.items /\ SameItem(r.items[v], s.items[v])
    BY <1>2 DEF Apart
  <2>2. v \in DOMAIN t.items /\ SameItem(s.items[v], t.items[v])
    BY <1>2, <2>1 DEF Apart, SameItem
  <2> QED
    BY <2>1, <2>2 DEF SameItem
<1>3. ASSUME NEW v \in DOMAIN t.items PROVE v \in DOMAIN r.items /\ r.items[v].launch = t.items[v].launch
  BY DEF Apart
<1> QED
  BY <1>1, <1>2, <1>3 DEF Apart

(* A request that touches launch u at most, once or twice. *)
LEMMA SentApart ==
    ASSUME NEW once, NEW twice, NEW r \in Sent(once, twice), NEW u,
           Apart(target, once, u), Apart(once, twice, u)
    PROVE  Apart(target, r.to, u)
BY SentCases, ApartNot, ApartTwice

(* What is finished elsewhere stays whole. *)
LEMMA WholeStays ==
    ASSUME NEW t, NEW s, NEW u, Apart(t, s, u), NEW c \in DOMAIN s.launches, c # u, s.launches[c].done,
           NEW d1 \in BOOLEAN, NEW d2 \in BOOLEAN, d1 => d2, Whole(t, c, d1)
    PROVE  Whole(s, c, d2)
<1>1. \A v : /\ v \in DOMAIN s.items /\ s.items[v].launch = c => v \in DOMAIN t.items /\ SameItem(s.items[v], t.items[v])
             /\ v \in DOMAIN t.items /\ t.items[v].launch = c => v \in DOMAIN s.items /\ SameItem(s.items[v], t.items[v])
  BY DEF Apart
<1>2. \A id : FinishedIn(s, c, id) = FinishedIn(t, c, id)
  BY <1>1 DEF FinishedIn, SameItem
<1>3. ASSUME NEW v, NEW i, CopyIn(t, v, c, i, d1) PROVE v \in DOMAIN s.items /\ CopyIn(s, v, c, i, d2)
  <2>1. v \in DOMAIN t.items /\ t.items[v].launch = c
    BY <1>3 DEF CopyIn, FinishedIn
  <2>2. v \in DOMAIN s.items /\ s.items[v].parent = t.items[v].parent /\ s.items[v].logs = t.items[v].logs
    BY <1>1, <2>1 DEF SameItem
  <2> QED
    BY <1>2, <1>3, <2>2 DEF CopyIn
<1>4. ASSUME NEW v \in DOMAIN t.items, t.items[v].launch = c, StrayIn(t, v, c, d1) PROVE StrayIn(s, v, c, d2)
  <2>1. /\ s.items[v].parent = t.items[v].parent /\ s.items[v].logs = t.items[v].logs
        /\ s.items[v].done = t.items[v].done /\ s.items[v].of = t.items[v].of
    BY <1>1, <1>4 DEF SameItem
  <2>2. PICK twin \in FinishedIn(t, c, t.items[v].of) : t.items[twin].parent = t.items[v].parent
    BY <1>4 DEF StrayIn
  <2>3. s.items[twin].parent = t.items[twin].parent
    BY <1>1, <2>2 DEF FinishedIn, SameItem
  <2>4. \A w \in DOMAIN s.items : s.items[w].launch = c => s.items[w].parent # v
    BY <1>1, <1>4 DEF StrayIn, SameItem
  <2> QED
    BY <1>2, <1>4, <2>1, <2>2, <2>3, <2>4 DEF StrayIn
<1>5. SameLaunch(s.launches[c], t.launches[c])
  BY DEF Apart
<1>6. PICK l \in DOMAIN Selected :
        /\ t.launches[c].name = Selected[l].name /\ t.launches[c].start = Selected[l].start
        /\ \A i \in Range(Selected[l].items) :
              (opts.skipPassed /\ i.passed) \/ \E v \in DOMAIN t.items : CopyIn(t, v, c, i, d1)
        /\ \A v \in DOMAIN t.items : t.items[v].launch = c =>
              StrayIn(t, v, c, d1) \/ \E i \in Range(Selected[l].items) : CopyIn(t, v, c, i, d1)
  BY DEF Whole
<1>7. s.launches[c].name = Selected[l].name /\ s.launches[c].start = Selected[l].start
  BY <1>5, <1>6 DEF SameLaunch
<1>8. \A i \in Range(Selected[l].items) :
        (opts.skipPassed /\ i.passed) \/ \E v \in DOMAIN s.items : CopyIn(s, v, c, i, d2)
  BY <1>3, <1>6
<1>9. ASSUME NEW v \in DOMAIN s.items, s.items[v].launch = c
      PROVE  StrayIn(s, v, c, d2) \/ \E i \in Range(Selected[l].items) : CopyIn(s, v, c, i, d2)
  <2>1. v \in DOMAIN t.items /\ t.items[v].launch = c
    BY <1>1, <1>9 DEF SameItem
  <2> QED
    BY <1>3, <1>4, <1>6, <2>1
<1> QED
  BY <1>7, <1>8, <1>9 DEF Whole

LEMMA AllStayWhole ==
    ASSUME TransferInv, AllWhole(target, doubled), NEW s, NEW u, Apart(target, s, u), NEW d2 \in BOOLEAN,
           doubled => d2, u \in DOMAIN s.launches => ~s.launches[u].done
    PROVE  AllWhole(s, d2)
<1> SUFFICES ASSUME NEW c \in DOMAIN s.launches, s.launches[c].done PROVE Whole(s, c, d2)
  BY DEF AllWhole
<1>1. c # u /\ Whole(target, c, doubled)
  BY DEF Apart, AllWhole
<1> QED
  BY <1>1, WholeStays DEF TransferInv, Typed

(* The items of launch u are the ones f remembers of launch a, or strays. *)
OnlyRemembered(t, u, a, f, twice) ==
    \A v \in DOMAIN t.items : t.items[v].launch = u =>
        /\ <<a, t.items[v].of>> \in DOMAIN f
        /\ \/ v = f[<<a, t.items[v].of>>]
           \/ /\ twice /\ ~t.items[v].done /\ t.items[v].logs = <<>>
              /\ t.items[v].parent = t.items[f[<<a, t.items[v].of>>]].parent
              /\ \A w \in DOMAIN t.items : t.items[w].launch = u => t.items[w].parent # v

(* Of launch a the first m items are remembered, each under what is remembered of its parent. *)
InPlace(t, its, a, f, m) ==
    /\ \A key \in DOMAIN f : key[1] = a => \E k \in DOMAIN its : k <= m /\ key[2] = its[k].id
    /\ \A k \in DOMAIN its : k <= m =>
          t.items[f[<<a, its[k].id>>]].parent = IF its[k].parent = 0 THEN 0 ELSE f[<<a, its[k].parent>>]

(* A log is there, in one of its forms or both, none twice but for a repeated request; the   *)
(* logs an unfinished item may have.                                                          *)
WellLogged(log, logs, twice) ==
    /\ log = "none" <=> logs = <<>>
    /\ Range(logs) \subseteq {"text", log} /\ IsSeq(logs)
    /\ ~twice => IsInjective(logs)
Tried(log, logs, twice) ==
    /\ log # "none" /\ IsSeq(logs) /\ Range(logs) \subseteq {"file"} \cap {log}
    /\ ~twice => IsInjective(logs)

(* Its first h items are logged. *)
LoggedTo(t, its, a, f, h, twice) ==
    \A k \in DOMAIN its : k <= h => WellLogged(its[k].log, t.items[f[<<a, its[k].id>>]].logs, twice)

Tidy(t, its, a, u, f, twice, m, h) ==
    /\ ~t.launches[u].done
    /\ OnlyRemembered(t, u, a, f, twice) /\ InPlace(t, its, a, f, m) /\ LoggedTo(t, its, a, f, h, twice)

LogsOf(k) == target.items[Uuid(k)].logs

(* The launch in hand. *)
Hand ==
    /\ pc = "item" => Tidy(target, Items(at), at, luuid, uuidOf, doubled, n - 1, n - 1)
    /\ pc = "upload" => /\ Tidy(target, Items(at), at, luuid, uuidOf, doubled, n, n - 1)
                        /\ Items(at)[n].log = "file" /\ LogsOf(n) = <<>>
    /\ pc = "log" => /\ Tidy(target, Items(at), at, luuid, uuidOf, doubled, n, n - 1)
                     /\ Tried(Items(at)[n].log, LogsOf(n), doubled)
    /\ pc = "finish" => /\ Tidy(target, Items(at), at, luuid, uuidOf, doubled, Len(Items(at)), Len(Items(at)))
                        /\ \A k \in DOMAIN Items(at) : k >= n => target.items[Uuid(k)].done

CopyInv == Hand /\ AllWhole(target, doubled)

(* One more log. *)
LEMMA OneMore ==
    ASSUME NEW logs, IsSeq(logs), NEW kind
    PROVE  /\ IsSeq(Append(logs, kind)) /\ Append(logs, kind) # <<>>
           /\ Range(Append(logs, kind)) = Range(logs) \cup {kind}
           /\ kind \notin Range(logs) /\ IsInjective(logs) => IsInjective(Append(logs, kind))
<1>1. /\ IsSeq(Append(logs, kind)) /\ Len(Append(logs, kind)) = Len(logs) + 1
      /\ DOMAIN Append(logs, kind) = 1..(Len(logs) + 1)
      /\ \A k \in 1..Len(logs) : Append(logs, kind)[k] = logs[k]
      /\ Append(logs, kind)[Len(logs) + 1] = kind
  BY Appended
<1>2. Len(logs) \in Nat /\ DOMAIN logs = 1..Len(logs)
  BY SeqDomain
<1> DEFINE s == Append(logs, kind)
<1> HIDE DEF s
<1>3. s # <<>>
  BY <1>1, <1>2, EmptyOrNot DEF s
<1>4. Range(s) = Range(logs) \cup {kind}
  <2>1. 1..(Len(logs) + 1) = (1..Len(logs)) \cup {Len(logs) + 1}
    BY <1>2
  <2> QED
    BY <1>1, <1>2, <2>1 DEF Range, s
<1>5. ASSUME kind \notin Range(logs), IsInjective(logs) PROVE IsInjective(s)
  <2> SUFFICES ASSUME NEW a \in DOMAIN s, NEW b \in DOMAIN s, s[a] = s[b] PROVE a = b
    BY DEF IsInjective
  <2>1. \A k \in DOMAIN logs : s[k] = logs[k] /\ logs[k] # kind
    BY <1>1, <1>2, <1>5 DEF Range, s
  <2>2. DOMAIN s = (DOMAIN logs) \cup {Len(logs) + 1} /\ s[Len(logs) + 1] = kind
    BY <1>1, <1>2 DEF s
  <2>3. CASE a \in DOMAIN logs /\ b \in DOMAIN logs
    BY <1>5, <2>1, <2>3 DEF IsInjective
  <2> QED
    BY <2>1, <2>2, <2>3
<1> QED
  BY <1>1, <1>3, <1>4, <1>5 DEF s

LEMMA NoLogs == IsSeq(<<>>) /\ Range(<<>>) = {} /\ IsInjective(<<>>)
BY DEF IsSeq, Range, IsInjective

(* Items of one launch have different ids, and are remembered as different items. *)
LEMMA ApartInHand ==
    ASSUME TransferInv, pc \in Copying, NEW k \in DOMAIN Items(at), NEW h \in DOMAIN Items(at), k # h
    PROVE  /\ Items(at)[k].id # Items(at)[h].id
           /\ <<at, Items(at)[k].id>> \in DOMAIN uuidOf /\ <<at, Items(at)[h].id>> \in DOMAIN uuidOf =>
                Uuid(k) # Uuid(h)
<1>1. IsTree(Items(at))
  BY InHandItem
<1>2. k \in Nat /\ h \in Nat
  BY <1>1, SeqDomain DEF IsTree
<1>3. Items(at)[k].id \in Nat /\ Items(at)[h].id \in Nat
  BY <1>1 DEF IsTree
<1>4. k < h \/ h < k
  BY <1>2
<1>5. Items(at)[k].id # Items(at)[h].id
  BY <1>1, <1>3, <1>4 DEF IsTree
<1> QED
  BY <1>5, InHandItem

(* A remembered item is changed where it is: all else stays tidy. *)
LEMMA StaysTidy ==
    ASSUME TransferInv, pc \in Copying, NEW k \in DOMAIN Items(at), <<at, Items(at)[k].id>> \in DOMAIN uuidOf,
           NEW t, OneChanged(target, t, Uuid(k)), t.launches = target.launches,
           NEW m \in Nat, NEW h \in Nat, h <= m, h < k \/ t.items[Uuid(k)].logs = target.items[Uuid(k)].logs,
           Started(Items(at), at, uuidOf, m), NEW d2 \in BOOLEAN, doubled => d2,
           Tidy(target, Items(at), at, luuid, uuidOf, doubled, m, h)
    PROVE  Tidy(t, Items(at), at, luuid, uuidOf, d2, m, h)
<1> DEFINE its == Items(at)
           v == Uuid(k)
<1>0. doubled \in BOOLEAN /\ DOMAIN its \subseteq Nat
  <2>1. IsSeq(its)
    BY InHandItem DEF IsTree
  <2> QED
    BY <2>1, SeqDomain DEF TransferInv, Typed
<1>1. v \in DOMAIN target.items /\ target.items[v].of = its[k].id /\ v = uuidOf[<<at, its[k].id>>]
  BY InHandItem DEF Uuid
<1>2. /\ DOMAIN t.items = DOMAIN target.items
      /\ \A w \in DOMAIN target.items : /\ t.items[w].launch = target.items[w].launch
                                        /\ t.items[w].of = target.items[w].of
                                        /\ t.items[w].parent = target.items[w].parent
                                        /\ w # v => t.items[w] = target.items[w]
  BY DEF OneChanged
<1> HIDE DEF v
<1>3. OnlyRemembered(t, luuid, at, uuidOf, d2)
  <2> SUFFICES ASSUME NEW w \in DOMAIN target.items, target.items[w].launch = luuid
               PROVE  /\ <<at, t.items[w].of>> \in DOMAIN uuidOf
                      /\ \/ w = uuidOf[<<at, t.items[w].of>>]
                         \/ /\ d2 /\ ~t.items[w].done /\ t.items[w].logs = <<>>
                            /\ t.items[w].parent = t.items[uuidOf[<<at, t.items[w].of>>]].parent
                            /\ \A x \in DOMAIN t.items : t.items[x].launch = luuid => t.items[x].parent # w
    BY <1>2 DEF OnlyRemembered
  <2> DEFINE key == <<at, target.items[w].of>>
  <2>1. /\ key \in DOMAIN uuidOf
        /\ \/ w = uuidOf[key]
           \/ /\ doubled /\ ~target.items[w].done /\ target.items[w].logs = <<>>
              /\ target.items[w].parent = target.items[uuidOf[key]].parent
              /\ \A x \in DOMAIN target.items : target.items[x].launch = luuid => target.items[x].parent # w
    BY DEF Tidy, OnlyRemembered
  <2>2. uuidOf[key] \in DOMAIN target.items
    BY <2>1 DEF TransferInv, Remembers
  <2>3. key = <<at, t.items[w].of>>
    BY <1>2
  <2>4. CASE w = uuidOf[key]
    BY <2>1, <2>3, <2>4
  <2>5. CASE w # uuidOf[key]
    <3>1. w # v
      BY <1>1, <2>5
    <3>2. t.items[w] = target.items[w] /\ t.items[uuidOf[key]].parent = target.items[uuidOf[key]].parent
      BY <1>2, <2>2, <3>1
    <3> HIDE DEF key
    <3> QED
      BY <1>2, <2>1, <2>3, <2>5, <3>2
  <2> QED
    BY <2>4, <2>5
<1>4. \A j \in DOMAIN its : j <= m => uuidOf[<<at, its[j].id>>] \in DOMAIN target.items
  BY InHandItem DEF Started, Uuid
<1>5. InPlace(t, its, at, uuidOf, m)
  BY <1>2, <1>4 DEF Tidy, InPlace
<1>6. LoggedTo(t, its, at, uuidOf, h, d2)
  <2> SUFFICES ASSUME NEW j \in DOMAIN its, j <= h
               PROVE  WellLogged(its[j].log, t.items[uuidOf[<<at, its[j].id>>]].logs, d2)
    BY DEF LoggedTo
  <2>1. WellLogged(its[j].log, target.items[uuidOf[<<at, its[j].id>>]].logs, doubled)
    BY DEF Tidy, LoggedTo
  <2>2. j <= m
    BY <1>0
  <2>3. t.items[uuidOf[<<at, its[j].id>>]].logs = target.items[uuidOf[<<at, its[j].id>>]].logs
    <3>1. CASE j = k
      <4>1. ~(h < k)
        BY <1>0, <3>1
      <4> QED
        BY <1>1, <3>1, <4>1 DEF v
    <3>2. CASE j # k
      <4>1. uuidOf[<<at, its[j].id>>] # v
        BY <2>2, <3>2, ApartInHand DEF Started, Uuid, v
      <4> QED
        BY <1>2, <1>4, <2>2, <4>1
    <3> QED
      BY <3>1, <3>2
  <2> QED
    BY <1>0, <2>1, <2>3 DEF WellLogged
<1>7. ~t.launches[luuid].done
  BY DEF Tidy
<1> QED
  BY <1>3, <1>5, <1>6, <1>7 DEF Tidy

(* A request on one item of launch u leaves the others apart. *)
LEMMA OneApart ==
    ASSUME NEW t, NEW s, NEW v \in DOMAIN t.items, OneChanged(t, s, v), s.launches = t.launches
    PROVE  Apart(t, s, t.items[v].launch)
BY DEF Apart, OneChanged, SameLaunch, SameItem

LEMMA ChangedTwice ==
    ASSUME NEW t, NEW s, NEW r, NEW v \in DOMAIN t.items, OneChanged(t, s, v), OneChanged(s, r, v)
    PROVE  OneChanged(t, r, v)
BY DEF OneChanged

LEMMA ChangedNot ==
    ASSUME NEW t, NEW v PROVE OneChanged(t, t, v)
BY DEF OneChanged

LEMMA WholeNext ==
    ASSUME opts' = opts, AllWhole(target', doubled') PROVE AllWhole(target, doubled)'
<1>1. Selected' = Selected
  BY DEF Selected
<1> QED
  BY <1>1 DEF AllWhole, Whole

(* A request on item k of the launch in hand. *)
LEMMA ItemRequest ==
    ASSUME TransferInv, CopyInv, pc \in Copying, NEW k \in DOMAIN Items(at), <<at, Items(at)[k].id>> \in DOMAIN uuidOf,
           NEW once, NEW twice, NEW r \in Sent(once, twice), Requested(r),
           OneChanged(target, once, Uuid(k)), OneChanged(once, twice, Uuid(k)),
           once.launches = target.launches, twice.launches = once.launches
    PROVE  /\ opts' = opts /\ doubled' \in BOOLEAN /\ (doubled => doubled') /\ (r.times = 2 => doubled')
           /\ target' = r.to /\ OneChanged(target, target', Uuid(k)) /\ target'.launches = target.launches
           /\ AllWhole(target, doubled)'
<1>1. /\ Uuid(k) \in DOMAIN target.items /\ target.items[Uuid(k)].launch = luuid
  BY InHandItem
<1>2. Uuid(k) \in DOMAIN once.items /\ once.items[Uuid(k)].launch = luuid
  BY <1>1 DEF OneChanged
<1>3. /\ opts' = opts /\ target' = r.to /\ doubled' = (doubled \/ r.times = 2) /\ doubled \in BOOLEAN
  BY DEF Requested, TransferInv, Typed
<1>4. OneChanged(target, target', Uuid(k)) /\ target'.launches = target.launches
  BY <1>1, <1>3, SentCases, ChangedTwice, ChangedNot
<1>5. Apart(target, target', luuid)
  BY <1>1, <1>4, OneApart
<1>6. ~target'.launches[luuid].done
  BY <1>4 DEF CopyInv, Hand, Tidy, Copying
<1>7. doubled' \in BOOLEAN /\ (doubled => doubled')
  BY <1>3
<1>8. AllWhole(target', doubled')
  <2>1. AllWhole(target, doubled)
    BY DEF CopyInv
  <2> QED
    BY <1>5, <1>6, <1>7, <2>1, AllStayWhole
<1> QED
  BY <1>3, <1>4, <1>7, <1>8, WholeNext

(* Item n is logged as well. *)
LEMMA TidyMore ==
    ASSUME NEW t, NEW its, IsSeq(its), NEW a, NEW u, NEW f, NEW d2, NEW m, NEW h \in Nat, Tidy(t, its, a, u, f, d2, m, h - 1),
           WellLogged(its[h].log, t.items[f[<<a, its[h].id>>]].logs, d2)
    PROVE  Tidy(t, its, a, u, f, d2, m, h)
<1>1. \A k \in DOMAIN its : k <= h => k = h \/ k <= h - 1
  BY SeqDomain
<1> QED
  BY <1>1 DEF Tidy, LoggedTo

LEMMA UploadWhole == TransferInv /\ CopyInv /\ Upload => CopyInv'
<1> SUFFICES ASSUME TransferInv, CopyInv, Upload PROVE CopyInv'
  OBVIOUS
<1> DEFINE once == NewLog(target, Uuid(n), "file")
           twice == NewLog(once, Uuid(n), "file")
           logs == target'.items[Uuid(n)].logs
<1>1. PICK r \in Sent(once, twice) :
        /\ Requested(r)
        /\ IF r.ok THEN pc' = "item" /\ n' = n + 1 ELSE pc' = "log" /\ n' = n
  BY DEF Upload
<1>2. pc = "upload" /\ pc \in Copying /\ UNCHANGED <<at, luuid, uuidOf>>
  BY DEF Upload, Copying
<1>3. /\ n \in DOMAIN Items(at) /\ n \in Nat \ {0} /\ Started(Items(at), at, uuidOf, n)
      /\ <<at, Items(at)[n].id>> \in DOMAIN uuidOf /\ IsSeq(Items(at))
  <2>1. n \in DOMAIN Items(at) /\ n \in Nat \ {0} /\ Started(Items(at), at, uuidOf, n)
    BY <1>2 DEF TransferInv, InHand, Typed
  <2>2. IsSeq(Items(at))
    BY <1>2, <2>1, InHandItem DEF IsTree
  <2> QED
    BY <2>1, <2>2 DEF Started
<1>4. Uuid(n) \in DOMAIN target.items /\ Uuid(n) = uuidOf[<<at, Items(at)[n].id>>]
  BY <1>2, <1>3, InHandItem DEF Uuid
<1>5. /\ TargetOK(once) /\ once.launches = target.launches /\ OneChanged(target, once, Uuid(n))
      /\ once.items[Uuid(n)].logs = Append(target.items[Uuid(n)].logs, "file")
  <2>1. TargetOK(target)
    BY DEF TransferInv
  <2>2. PICK v : v = Uuid(n)
    OBVIOUS
  <2>3. v \in DOMAIN target.items
    BY <1>4, <2>2
  <2>4. /\ TargetOK(NewLog(target, v, "file")) /\ NewLog(target, v, "file").launches = target.launches
        /\ OneChanged(target, NewLog(target, v, "file"), v)
        /\ NewLog(target, v, "file").items[v].logs = Append(target.items[v].logs, "file")
    BY <2>1, <2>3, NewLogOK
  <2> QED
    BY <2>2, <2>4
<1>6. /\ twice.launches = once.launches /\ OneChanged(once, twice, Uuid(n))
      /\ twice.items[Uuid(n)].logs = Append(once.items[Uuid(n)].logs, "file")
  <2>1. Uuid(n) \in DOMAIN once.items
    BY <1>4, <1>5 DEF OneChanged
  <2> QED
    BY <1>5, <2>1, NewLogOK
<1> HIDE DEF once, twice
<1>7. /\ opts' = opts /\ doubled' \in BOOLEAN /\ (doubled => doubled') /\ (r.times = 2 => doubled')
      /\ target' = r.to /\ OneChanged(target, target', Uuid(n)) /\ target'.launches = target.launches
      /\ AllWhole(target, doubled)'
  BY <1>1, <1>2, <1>3, <1>5, <1>6, ItemRequest
<1>8. /\ Tidy(target, Items(at), at, luuid, uuidOf, doubled, n, n - 1)
      /\ Items(at)[n].log = "file" /\ target.items[Uuid(n)].logs = <<>>
  BY <1>2 DEF CopyInv, Hand, LogsOf
<1>9. Tidy(target', Items(at), at, luuid, uuidOf, doubled', n, n - 1)
  <2>1. n - 1 \in Nat /\ n \in Nat /\ n - 1 <= n /\ n - 1 < n
    BY <1>3
  <2> QED
    BY <1>2, <1>3, <1>7, <1>8, <2>1, StaysTidy
<1>10. /\ Tried("file", logs, doubled')
       /\ r.ok => WellLogged("file", logs, doubled')
  <2> DEFINE old == target.items[Uuid(n)].logs
             one == Append(old, "file")
             two == Append(one, "file")
  <2>0. IsSeq(old) /\ Range(old) = {} /\ IsInjective(old)
    BY <1>8, NoLogs
  <2>1. IsSeq(one) /\ one # <<>> /\ Range(one) = {"file"} /\ IsInjective(one)
    <3> HIDE DEF old
    <3>1. "file" \notin Range(old)
      BY <2>0
    <3> QED
      BY <2>0, <3>1, OneMore
  <2>2. IsSeq(two) /\ two # <<>> /\ Range(two) = {"file"}
    <3> HIDE DEF one
    <3> QED
      BY <2>1, OneMore
  <2>3. once.items[Uuid(n)].logs = one /\ twice.items[Uuid(n)].logs = two
    BY <1>5, <1>6
  <2> HIDE DEF one, two
  <2>4. \/ logs = <<>> /\ ~r.ok
        \/ logs = one
        \/ logs = two /\ doubled'
    BY <1>7, <1>8, <2>3, SentCases
  <2> QED
    BY <2>1, <2>2, <2>4, NoLogs DEF Tried, WellLogged
<1>11. (Items(at))' = Items(at)
  BY <1>2, <1>7, SameOptions
<1>12. Hand'
  <2>1. CASE r.ok
    <3>1. Tidy(target', Items(at), at, luuid, uuidOf, doubled', n, n)
      BY <1>3, <1>4, <1>8, <1>9, <1>10, <2>1, TidyMore
    <3>2. pc' = "item" /\ n' - 1 = n
      BY <1>1, <1>3, <2>1
    <3> QED
      BY <1>2, <1>11, <3>1, <3>2 DEF Hand
  <2>2. CASE ~r.ok
    <3>1. pc' = "log" /\ n' = n
      BY <1>1, <2>2
    <3>2. LogsOf(n)' = logs
      BY <1>2, <1>11, <3>1 DEF LogsOf, Uuid
    <3> QED
      BY <1>2, <1>8, <1>9, <1>10, <1>11, <3>1, <3>2 DEF Hand
  <2> QED
    BY <2>1, <2>2
<1> QED
  BY <1>7, <1>12 DEF CopyInv

LEMMA PostLogWhole == TransferInv /\ CopyInv /\ PostLog => CopyInv'
<1> SUFFICES ASSUME TransferInv, CopyInv, PostLog PROVE CopyInv'
  OBVIOUS
<1> DEFINE once == NewLog(target, Uuid(n), "text")
           twice == NewLog(once, Uuid(n), "text")
           logs == target'.items[Uuid(n)].logs
           log == Items(at)[n].log
<1>1. PICK r \in Sent(once, twice) :
        /\ Requested(r)
        /\ \/ Died(r)
           \/ r.ok /\ pc' = "item" /\ n' = n + 1 /\ UNCHANGED <<at, luuid, mapping, uuidOf, replay, analyzer>>
  BY DEF PostLog
<1>2. pc = "log" /\ pc \in Copying
  BY DEF PostLog, Copying
<1>3. /\ n \in DOMAIN Items(at) /\ n \in Nat \ {0} /\ Started(Items(at), at, uuidOf, n)
      /\ <<at, Items(at)[n].id>> \in DOMAIN uuidOf /\ IsSeq(Items(at))
  <2>1. n \in DOMAIN Items(at) /\ n \in Nat \ {0} /\ Started(Items(at), at, uuidOf, n)
    BY <1>2 DEF TransferInv, InHand, Typed
  <2>2. IsSeq(Items(at))
    BY <1>2, <2>1, InHandItem DEF IsTree
  <2> QED
    BY <2>1, <2>2 DEF Started
<1>4. Uuid(n) \in DOMAIN target.items /\ Uuid(n) = uuidOf[<<at, Items(at)[n].id>>]
  BY <1>2, <1>3, InHandItem DEF Uuid
<1>5. /\ TargetOK(once) /\ once.launches = target.launches /\ OneChanged(target, once, Uuid(n))
      /\ once.items[Uuid(n)].logs = Append(target.items[Uuid(n)].logs, "text")
  <2>1. TargetOK(target)
    BY DEF TransferInv
  <2>2. PICK v : v = Uuid(n)
    OBVIOUS
  <2>3. v \in DOMAIN target.items
    BY <1>4, <2>2
  <2>4. /\ TargetOK(NewLog(target, v, "text")) /\ NewLog(target, v, "text").launches = target.launches
        /\ OneChanged(target, NewLog(target, v, "text"), v)
        /\ NewLog(target, v, "text").items[v].logs = Append(target.items[v].logs, "text")
    BY <2>1, <2>3, NewLogOK
  <2> QED
    BY <2>2, <2>4
<1>6. /\ twice.launches = once.launches /\ OneChanged(once, twice, Uuid(n))
      /\ twice.items[Uuid(n)].logs = Append(once.items[Uuid(n)].logs, "text")
  <2>1. Uuid(n) \in DOMAIN once.items
    BY <1>4, <1>5 DEF OneChanged
  <2> QED
    BY <1>5, <2>1, NewLogOK
<1> HIDE DEF once, twice
<1>7. /\ opts' = opts /\ doubled' \in BOOLEAN /\ (doubled => doubled') /\ (r.times = 2 => doubled')
      /\ target' = r.to /\ OneChanged(target, target', Uuid(n)) /\ target'.launches = target.launches
      /\ AllWhole(target, doubled)'
  BY <1>1, <1>2, <1>3, <1>5, <1>6, ItemRequest
<1>8. CASE Died(r)
  BY <1>7, <1>8 DEF Died, CopyInv, Hand
<1>9. CASE r.ok /\ ~Died(r)
  <2>1. pc' = "item" /\ n' - 1 = n /\ UNCHANGED <<at, luuid, uuidOf>>
    BY <1>1, <1>3, <1>9
  <2>2. (Items(at))' = Items(at)
    BY <1>7, <2>1, SameOptions
  <2>3. /\ Tidy(target, Items(at), at, luuid, uuidOf, doubled, n, n - 1)
        /\ Tried(log, target.items[Uuid(n)].logs, doubled)
    BY <1>2 DEF CopyInv, Hand, LogsOf
  <2>4. Tidy(target', Items(at), at, luuid, uuidOf, doubled', n, n - 1)
    <3>1. n - 1 \in Nat /\ n \in Nat /\ n - 1 <= n /\ n - 1 < n
      BY <1>3
    <3> QED
      BY <1>2, <1>3, <1>7, <2>3, <3>1, StaysTidy
  <2>5. WellLogged(log, logs, doubled')
    <3> DEFINE old == target.items[Uuid(n)].logs
               one == Append(old, "text")
               two == Append(one, "text")
    <3>1. /\ IsSeq(one) /\ one # <<>> /\ Range(one) \subseteq {"text", log}
          /\ ~doubled => IsInjective(one)
      BY <2>3, OneMore DEF Tried
    <3>2. IsSeq(two) /\ two # <<>> /\ Range(two) \subseteq {"text", log}
      BY <3>1, OneMore
    <3>3. log # "none"
      BY <2>3 DEF Tried
    <3>4. once.items[Uuid(n)].logs = one /\ twice.items[Uuid(n)].logs = two
      BY <1>5, <1>6
    <3> HIDE DEF one, two, log
    <3>5. logs = one \/ (logs = two /\ doubled')
      BY <1>7, <1>9, <3>4, SentCases
    <3> HIDE DEF logs
    <3> QED
      BY <1>7, <3>1, <3>2, <3>3, <3>5 DEF WellLogged
  <2>6. Tidy(target', Items(at), at, luuid, uuidOf, doubled', n, n)
    BY <1>3, <1>4, <2>4, <2>5, TidyMore
  <2>7. Hand'
    BY <2>1, <2>2, <2>6 DEF Hand
  <2> QED
    BY <1>7, <2>7 DEF CopyInv
<1> QED
  BY <1>1, <1>8, <1>9 DEF Died

LEMMA FinishItemWhole == TransferInv /\ CopyInv /\ FinishItem => CopyInv'
<1> SUFFICES ASSUME TransferInv, CopyInv, FinishItem PROVE CopyInv'
  OBVIOUS
<1> DEFINE v == Uuid(n - 1)
           once == ItemDone(target, v)
           twice == ItemDone(once, v)
           m == Len(Items(at))
<1>1. PICK r \in Sent(once, twice) :
        /\ Requested(r)
        /\ \/ Died(r)
           \/ r.ok /\ pc' = "finish" /\ n' = n - 1 /\ UNCHANGED <<at, luuid, mapping, uuidOf, replay, analyzer>>
  BY DEF FinishItem
<1>2. (pc = "finish" \/ (pc = "item" /\ n = m + 1)) /\ n > 1 /\ pc \in Copying
  BY DEF FinishItem, Copying
<1>3. m \in Nat /\ DOMAIN Items(at) = 1..m /\ n <= m + 1 /\ Started(Items(at), at, uuidOf, m)
  BY <1>2, AllStarted
<1>4. n \in Nat \ {0} /\ n - 1 \in DOMAIN Items(at) /\ n - 1 <= m /\ n - 1 \in Nat \ {0}
  <2>1. n \in Nat \ {0}
    BY DEF TransferInv, Typed
  <2> QED
    BY <1>2, <1>3, <2>1
<1>5. <<at, Items(at)[n - 1].id>> \in DOMAIN uuidOf
  BY <1>3, <1>4 DEF Started
<1>6. v \in DOMAIN target.items
  BY <1>2, <1>4, <1>5, InHandItem
<1>7. /\ TargetOK(once) /\ once.launches = target.launches /\ OneChanged(target, once, v)
      /\ once.items[v].logs = target.items[v].logs /\ once.items[v].done
  BY <1>6, ItemDoneOK DEF TransferInv
<1>8. /\ twice.launches = once.launches /\ OneChanged(once, twice, v)
      /\ twice.items[v].logs = once.items[v].logs /\ twice.items[v].done
  <2>1. v \in DOMAIN once.items
    BY <1>6, <1>7 DEF OneChanged
  <2> QED
    BY <1>7, <2>1, ItemDoneOK
<1> HIDE DEF once, twice
<1>9. /\ opts' = opts /\ doubled' \in BOOLEAN /\ (doubled => doubled') /\ (r.times = 2 => doubled')
      /\ target' = r.to /\ OneChanged(target, target', v) /\ target'.launches = target.launches
      /\ AllWhole(target, doubled)'
  BY <1>1, <1>2, <1>4, <1>5, <1>7, <1>8, ItemRequest
<1>10. CASE Died(r)
  BY <1>9, <1>10 DEF Died, CopyInv, Hand
<1>11. CASE r.ok /\ ~Died(r)
  <2>1. pc' = "finish" /\ n' = n - 1 /\ UNCHANGED <<at, luuid, uuidOf>>
    BY <1>1, <1>11
  <2>2. (Items(at))' = Items(at) /\ \A k : Uuid(k)' = Uuid(k)
    <3>1. (Items(at))' = Items(at)
      BY <1>9, <2>1, SameOptions
    <3> QED
      BY <2>1, <3>1 DEF Uuid
  <2>3. /\ Tidy(target, Items(at), at, luuid, uuidOf, doubled, m, m)
        /\ \A k \in DOMAIN Items(at) : k >= n => target.items[Uuid(k)].done
    <3>1. CASE pc = "finish"
      BY <3>1 DEF CopyInv, Hand
    <3>2. CASE pc = "item" /\ n = m + 1
      <4>1. n - 1 = m
        BY <1>3, <3>2
      <4>2. \A k \in DOMAIN Items(at) : ~(k >= n)
        BY <1>3, <3>2
      <4> QED
        BY <3>2, <4>1, <4>2 DEF CopyInv, Hand
    <3> QED
      BY <1>2, <3>1, <3>2
  <2>4. target'.items[v].logs = target.items[v].logs /\ target'.items[v].done
    BY <1>7, <1>8, <1>9, <1>11, SentCases
  <2>5. Tidy(target', Items(at), at, luuid, uuidOf, doubled', m, m)
    <3> HIDE DEF m
    <3> QED
      BY <1>2, <1>3, <1>4, <1>5, <1>9, <2>3, <2>4, StaysTidy
  <2>6. ASSUME NEW k \in DOMAIN Items(at), k >= n - 1 PROVE target'.items[Uuid(k)].done
    <3>1. CASE k = n - 1
      BY <2>4, <3>1
    <3>2. CASE k # n - 1
      <4>1. k >= n
        BY <1>3, <1>4, <2>6, <3>2
      <4>2. Uuid(k) # v /\ Uuid(k) \in DOMAIN target.items
        <5>1. <<at, Items(at)[k].id>> \in DOMAIN uuidOf
          BY <1>3 DEF Started
        <5> QED
          BY <1>2, <1>4, <1>5, <3>2, <5>1, ApartInHand, InHandItem
      <4>3. target'.items[Uuid(k)] = target.items[Uuid(k)]
        BY <1>9, <4>2 DEF OneChanged
      <4> QED
        BY <2>3, <4>1, <4>3
    <3> QED
      BY <3>1, <3>2
  <2>7. Hand'
    BY <2>1, <2>2, <2>5, <2>6 DEF Hand
  <2> QED
    BY <1>9, <2>7 DEF CopyInv
<1> QED
  BY <1>1, <1>10, <1>11 DEF Died

(* A launch that is started, logged and finished item by item is whole. *)
LEMMA TidyIsWhole ==
    ASSUME TransferInv, pc \in Copying, Tidy(target, Items(at), at, luuid, uuidOf, doubled, Len(Items(at)), Len(Items(at))),
           Started(Items(at), at, uuidOf, Len(Items(at))), \A k \in DOMAIN Items(at) : target.items[Uuid(k)].done,
           NEW t, t.items = target.items, SameLaunch(t.launches[luuid], target.launches[luuid]),
           NEW d2 \in BOOLEAN, doubled => d2
    PROVE  Whole(t, luuid, d2)
<1> DEFINE its == Items(at)
           m == Len(its)
<1>1. /\ at \in DOMAIN Selected /\ opts \in OptionSets /\ SameLaunch(target.launches[luuid], Selected[at])
      /\ doubled \in BOOLEAN
  BY DEF TransferInv, Typed, InHand
<1>2. IsTree(its) /\ m \in Nat /\ DOMAIN its = 1..m
  BY <1>1, ItemsAreSources, SeqDomain DEF IsTree
<1>3. ASSUME NEW k \in DOMAIN its
      PROVE  /\ <<at, its[k].id>> \in DOMAIN uuidOf /\ Uuid(k) = uuidOf[<<at, its[k].id>>]
             /\ Uuid(k) \in DOMAIN target.items /\ target.items[Uuid(k)].of = its[k].id
             /\ target.items[Uuid(k)].launch = luuid /\ target.items[Uuid(k)].done
             /\ k <= m
  <2>1. k <= m
    BY <1>2
  <2>2. <<at, its[k].id>> \in DOMAIN uuidOf
    BY <2>1 DEF Started
  <2>3. Uuid(k) = uuidOf[<<at, its[k].id>>]
    BY DEF Uuid
  <2> QED
    BY <2>1, <2>2, <2>3, InHandItem
<1>4. ASSUME NEW k \in DOMAIN its PROVE FinishedIn(t, luuid, its[k].id) = {Uuid(k)}
  <2>1. ASSUME NEW w \in FinishedIn(t, luuid, its[k].id) PROVE w = Uuid(k)
    <3>1. /\ w \in DOMAIN target.items /\ target.items[w].launch = luuid /\ target.items[w].of = its[k].id
          /\ target.items[w].done
      BY <2>1 DEF FinishedIn
    <3> QED
      BY <1>3, <3>1 DEF Tidy, OnlyRemembered
  <2>2. Uuid(k) \in FinishedIn(t, luuid, its[k].id)
    BY <1>3 DEF FinishedIn
  <2> QED
    BY <2>1, <2>2
<1>5. ASSUME NEW k \in DOMAIN its PROVE CopyIn(t, Uuid(k), luuid, its[k], d2)
  <2>1. target.items[Uuid(k)].parent = IF its[k].parent = 0 THEN 0 ELSE uuidOf[<<at, its[k].parent>>]
    BY <1>3 DEF Tidy, InPlace
  <2>2. ASSUME its[k].parent # 0 PROVE FinishedIn(t, luuid, its[k].parent) = {target.items[Uuid(k)].parent}
    <3>1. PICK p \in DOMAIN its : its[p].id = its[k].parent
      BY <1>2, <2>2 DEF IsTree
    <3>2. target.items[Uuid(k)].parent = Uuid(p)
      BY <1>3, <2>1, <2>2, <3>1
    <3> QED
      BY <1>4, <3>1, <3>2
  <2>3. WellLogged(its[k].log, target.items[Uuid(k)].logs, doubled)
    BY <1>3 DEF Tidy, LoggedTo
  <2>4. IF its[k].parent = 0 THEN t.items[Uuid(k)].parent = 0
        ELSE FinishedIn(t, luuid, its[k].parent) = {t.items[Uuid(k)].parent}
    BY <2>1, <2>2
  <2>5. /\ its[k].log = "none" <=> t.items[Uuid(k)].logs = <<>>
        /\ Range(t.items[Uuid(k)].logs) \subseteq {"text", its[k].log}
        /\ ~d2 => IsInjective(t.items[Uuid(k)].logs)
    BY <1>1, <2>3 DEF WellLogged
  <2> QED
    BY <1>4, <2>4, <2>5 DEF CopyIn
<1>6. \A i \in Range(its) : \E u \in DOMAIN t.items : CopyIn(t, u, luuid, i, d2)
  <2> SUFFICES ASSUME NEW k \in DOMAIN its PROVE \E u \in DOMAIN t.items : CopyIn(t, u, luuid, its[k], d2)
    BY DEF Range
  <2> QED
    BY <1>3, <1>5
<1>7. ASSUME NEW u \in DOMAIN t.items, t.items[u].launch = luuid
      PROVE  StrayIn(t, u, luuid, d2) \/ \E i \in Range(its) : CopyIn(t, u, luuid, i, d2)
  <2> DEFINE key == <<at, target.items[u].of>>
  <2>1. /\ key \in DOMAIN uuidOf
        /\ \/ u = uuidOf[key]
           \/ /\ doubled /\ ~target.items[u].done /\ target.items[u].logs = <<>>
              /\ target.items[u].parent = target.items[uuidOf[key]].parent
              /\ \A w \in DOMAIN target.items : target.items[w].launch = luuid => target.items[w].parent # u
    BY <1>7 DEF Tidy, OnlyRemembered
  <2>2. key[1] = at /\ key[2] = target.items[u].of
    OBVIOUS
  <2>3. PICK k \in DOMAIN its : its[k].id = target.items[u].of
    <3> HIDE DEF key
    <3> QED
      BY <2>1, <2>2 DEF Tidy, InPlace
  <2>4. uuidOf[key] = Uuid(k)
    BY <1>3, <2>3
  <2> HIDE DEF key
  <2>5. CASE u = Uuid(k)
    BY <1>5, <2>5 DEF Range
  <2>6. CASE u # Uuid(k)
    <3>1. Uuid(k) \in FinishedIn(t, luuid, t.items[u].of)
      BY <1>4, <2>3
    <3>2. /\ d2 /\ ~t.items[u].done /\ t.items[u].logs = <<>>
          /\ t.items[Uuid(k)].parent = t.items[u].parent
          /\ \A w \in DOMAIN t.items : t.items[w].launch = luuid => t.items[w].parent # u
      BY <2>1, <2>4, <2>6
    <3> QED
      BY <3>1, <3>2 DEF StrayIn
  <2> QED
    BY <2>5, <2>6
<1>8. t.launches[luuid].name = Selected[at].name /\ t.launches[luuid].start = Selected[at].start
  BY <1>1 DEF SameLaunch
<1>9. \A i \in Range(Selected[at].items) :
        (opts.skipPassed /\ i.passed) \/ \E u \in DOMAIN t.items : CopyIn(t, u, luuid, i, d2)
  BY <1>1, <1>6, CarriedItems
<1>10. \A u \in DOMAIN t.items : t.items[u].launch = luuid =>
          StrayIn(t, u, luuid, d2) \/ \E i \in Range(Selected[at].items) : CopyIn(t, u, luuid, i, d2)
  BY <1>1, <1>7, CarriedItems
<1> QED
  BY <1>1, <1>8, <1>9, <1>10 DEF Whole

LEMMA FinishLaunchWhole == TransferInv /\ CopyInv /\ FinishLaunch => CopyInv'
<1> SUFFICES ASSUME TransferInv, CopyInv, FinishLaunch PROVE CopyInv'
  OBVIOUS
<1> DEFINE once == LaunchDone(target, luuid)
           twice == LaunchDone(once, luuid)
           m == Len(Items(at))
<1>1. PICK r \in Sent(once, twice) :
        /\ Requested(r)
        /\ \/ Died(r)
           \/ /\ r.ok /\ pc' = "launch" /\ at' = at + 1
              /\ pending' = IF Carries(at) THEN Append(pending, at) ELSE pending
              /\ UNCHANGED <<n, luuid, mapping, uuidOf, batch, round, applied, covered, analyzer>>
  BY DEF FinishLaunch
<1>2. pc \in {"item", "finish"} /\ pc \in Copying /\ n = 1 /\ (pc = "item" => m = 0)
  BY DEF FinishLaunch, Copying
<1>3. luuid \in DOMAIN target.launches /\ at \in DOMAIN Selected /\ opts \in OptionSets /\ TargetOK(target)
  BY <1>2 DEF TransferInv, InHand, Typed
<1>4. /\ TargetOK(once) /\ Grows(target, once) /\ DOMAIN once.launches = DOMAIN target.launches
      /\ once.items = target.items
      /\ \A c \in DOMAIN target.launches : c # luuid => once.launches[c] = target.launches[c]
  BY <1>3, LaunchDoneOK
<1> HIDE DEF once
<1>5. /\ Grows(once, twice) /\ DOMAIN twice.launches = DOMAIN once.launches /\ twice.items = once.items
      /\ \A c \in DOMAIN once.launches : c # luuid => twice.launches[c] = once.launches[c]
  BY <1>3, <1>4, LaunchDoneOK
<1> HIDE DEF twice
<1>6. /\ opts' = opts /\ target' = r.to /\ doubled' \in BOOLEAN /\ (doubled => doubled')
  BY <1>1 DEF Requested, TransferInv, Typed
<1>7. /\ target'.items = target.items /\ DOMAIN target'.launches = DOMAIN target.launches
      /\ \A c \in DOMAIN target.launches : c # luuid => target'.launches[c] = target.launches[c]
      /\ SameLaunch(target'.launches[luuid], target.launches[luuid])
  <2>1. SameLaunch(once.launches[luuid], target.launches[luuid]) /\ SameLaunch(twice.launches[luuid], once.launches[luuid])
    BY <1>3, <1>4, <1>5 DEF Grows
  <2>2. SameLaunch(twice.launches[luuid], target.launches[luuid]) /\ SameLaunch(target.launches[luuid], target.launches[luuid])
    BY <2>1 DEF SameLaunch
  <2> QED
    BY <1>4, <1>5, <1>6, <2>1, <2>2, SentCases
<1>8. Apart(target, target', luuid)
  BY <1>7 DEF Apart, SameLaunch, SameItem
<1>9. Whole(target', luuid, doubled')
  <2>1. CASE pc = "finish"
    <3>1. m \in Nat /\ DOMAIN Items(at) = 1..m /\ Started(Items(at), at, uuidOf, m)
      BY <2>1, AllStarted
    <3>2. /\ Tidy(target, Items(at), at, luuid, uuidOf, doubled, m, m)
          /\ \A k \in DOMAIN Items(at) : target.items[Uuid(k)].done
      BY <1>2, <2>1, <3>1 DEF CopyInv, Hand
    <3> QED
      BY <1>2, <1>6, <1>7, <3>1, <3>2, TidyIsWhole
  <2>2. CASE pc = "item"
    <3>1. m = 0 /\ n - 1 = 0
      BY <1>2, <2>2
    <3>2. DOMAIN Items(at) = {}
      <4>1. IsSeq(Items(at))
        BY <1>3, ItemsAreSources DEF IsTree
      <4> QED
        BY <3>1, <4>1, SeqDomain
    <3>3. Tidy(target, Items(at), at, luuid, uuidOf, doubled, m, m) /\ Started(Items(at), at, uuidOf, m)
      BY <2>2, <3>1, <3>2 DEF CopyInv, Hand, Started
    <3> QED
      BY <1>2, <1>6, <1>7, <3>2, <3>3, TidyIsWhole
  <2> QED
    BY <1>2, <2>1, <2>2
<1>10. AllWhole(target', doubled')
  <2> SUFFICES ASSUME NEW c \in DOMAIN target'.launches, target'.launches[c].done PROVE Whole(target', c, doubled')
    BY DEF AllWhole
  <2>1. CASE c = luuid
    BY <1>9, <2>1
  <2>2. CASE c # luuid
    <3>1. Whole(target, c, doubled) /\ doubled \in BOOLEAN
      BY <1>7, <2>2 DEF CopyInv, AllWhole, TransferInv, Typed
    <3> QED
      BY <1>6, <1>8, <2>2, <3>1, WholeStays
  <2> QED
    BY <2>1, <2>2
<1>11. pc' \notin Copying
  BY <1>1 DEF Died, Copying
<1>12. Hand'
  BY <1>11 DEF Hand, Copying
<1> QED
  BY <1>6, <1>10, <1>12, WholeNext DEF CopyInv

LEMMA StartLaunchWhole == TransferInv /\ TransferInv' /\ CopyInv /\ StartLaunch => CopyInv'
<1> SUFFICES ASSUME TransferInv, TransferInv', CopyInv, StartLaunch PROVE CopyInv'
  OBVIOUS
<1> DEFINE once == NewLaunch(target, Selected[at])
           twice == NewLaunch(once, Selected[at])
           u == Len(target'.launches)
<1>1. PICK r \in Sent(once, twice) :
        /\ Requested(r)
        /\ \/ Died(r)
           \/ /\ r.ok /\ pc' = "item" /\ n' = 1 /\ luuid' = Len(r.to.launches)
              /\ UNCHANGED <<at, mapping, uuidOf, replay, analyzer>>
  BY DEF StartLaunch
<1>2. pc = "launch" /\ TargetOK(target) /\ doubled \in BOOLEAN
  BY DEF StartLaunch, TransferInv, Typed
<1>3. /\ TargetOK(once) /\ once.items = target.items
      /\ Len(once.launches) \notin DOMAIN target.launches
      /\ DOMAIN once.launches = DOMAIN target.launches \cup {Len(once.launches)}
      /\ ~once.launches[Len(once.launches)].done
      /\ \A v \in DOMAIN target.launches : once.launches[v] = target.launches[v]
  BY <1>2, NewLaunchOK
<1> HIDE DEF once
<1>4. /\ twice.items = once.items
      /\ Len(twice.launches) \notin DOMAIN once.launches
      /\ DOMAIN twice.launches = DOMAIN once.launches \cup {Len(twice.launches)}
      /\ ~twice.launches[Len(twice.launches)].done
      /\ \A v \in DOMAIN once.launches : twice.launches[v] = once.launches[v]
  BY <1>3, NewLaunchOK
<1> HIDE DEF twice
<1>5. /\ opts' = opts /\ target' = r.to /\ doubled' \in BOOLEAN /\ (doubled => doubled')
  BY <1>1, <1>2 DEF Requested
<1>6. Apart(target, once, 0) /\ Apart(once, twice, 0)
  BY <1>3, <1>4 DEF Apart, SameLaunch, SameItem
<1>7. Apart(target, target', 0)
  BY <1>5, <1>6, SentApart
<1>8. 0 \notin DOMAIN target'.launches
  <2>1. IsSeq(target'.launches)
    BY DEF TransferInv, TargetOK, IsTarget
  <2> QED
    BY <2>1, SeqDomain
<1>9. AllWhole(target', doubled')
  BY <1>5, <1>7, <1>8, AllStayWhole DEF CopyInv
<1>10. CASE Died(r)
  BY <1>5, <1>9, <1>10, WholeNext DEF Died, CopyInv, Hand
<1>11. CASE r.ok /\ ~Died(r)
  <2>1. /\ pc' = "item" /\ n' - 1 = 0 /\ luuid' = u /\ target' \in {once, twice} /\ UNCHANGED <<at, uuidOf>>
    BY <1>1, <1>5, <1>11, SentCases
  <2>2. (Items(at))' = Items(at) /\ IsSeq(Items(at))
    <3>1. at \in DOMAIN Selected
      <4>1. IsSeq(Selected) /\ at \in Nat \ {0} /\ at <= Len(Selected)
        BY SelectedAreSources DEF StartLaunch, TransferInv, Typed
      <4> QED
        BY <4>1, SeqDomain
    <3> QED
      BY <1>5, <2>1, <3>1, SameOptions, ItemsAreSources DEF IsTree, TransferInv, Typed
  <2>3. /\ u \notin DOMAIN target.launches /\ ~target'.launches[u].done /\ target'.items = target.items
    BY <1>3, <1>4, <2>1
  <2>4. \A v \in DOMAIN target.items : target.items[v].launch \in DOMAIN target.launches
    BY <1>2 DEF TargetOK, CopyOf
  <2>5. \A key \in DOMAIN uuidOf : key[1] # at
    <3>1. \A key \in DOMAIN uuidOf : key[1] < at /\ key[1] \in DOMAIN Selected
      BY <1>2 DEF TransferInv, InHand, Remembers
    <3>2. DOMAIN Selected \subseteq Nat /\ at \in Nat
      BY SelectedAreSources, SeqDomain DEF TransferInv, Typed
    <3> QED
      BY <3>1, <3>2
  <2> HIDE DEF u
  <2>6. OnlyRemembered(target', u, at, uuidOf, doubled')
    BY <2>3, <2>4 DEF OnlyRemembered
  <2>7. \A k \in DOMAIN Items(at) : ~(k <= 0)
    BY <2>2, SeqDomain
  <2>8. InPlace(target', Items(at), at, uuidOf, 0) /\ LoggedTo(target', Items(at), at, uuidOf, 0, doubled')
    BY <2>5, <2>7 DEF InPlace, LoggedTo
  <2>9. Tidy(target', Items(at), at, u, uuidOf, doubled', 0, 0)
    BY <2>3, <2>6, <2>8 DEF Tidy
  <2>10. Hand'
    BY <2>1, <2>2, <2>9 DEF Hand
  <2> QED
    BY <1>5, <1>9, <2>10, WholeNext DEF CopyInv
<1> QED
  BY <1>1, <1>10, <1>11 DEF Died

(* Item n is started: in s its copy is v, and w, when the request was repeated, is a stray. *)
LEMMA StartedTidy ==
    ASSUME TransferInv, pc = "item", NEW i, i = Items(at)[n], n \in DOMAIN Items(at),
           Tidy(target, Items(at), at, luuid, uuidOf, doubled, n - 1, n - 1),
           NEW s, s.launches = target.launches, NEW v \in DOMAIN s.items, v \notin DOMAIN target.items, v # 0,
           \A w \in DOMAIN target.items : w \in DOMAIN s.items /\ s.items[w] = target.items[w],
           \A w \in (DOMAIN s.items) \ DOMAIN target.items :
                /\ s.items[w].launch = luuid /\ s.items[w].of = i.id /\ s.items[w].parent = ParentUuid(i)
                /\ ~s.items[w].done /\ s.items[w].logs = <<>> /\ w # 0,
           NEW d2 \in BOOLEAN, doubled => d2,
           \A w \in (DOMAIN s.items) \ DOMAIN target.items : w = v \/ d2,
           NEW f, DOMAIN f = DOMAIN uuidOf \cup {<<at, i.id>>}, f[<<at, i.id>>] = v,
           \A key \in DOMAIN uuidOf : key # <<at, i.id>> => f[key] = uuidOf[key]
    PROVE  /\ Tidy(s, Items(at), at, luuid, f, d2, n, n - 1)
           /\ i.log = "none" => Tidy(s, Items(at), at, luuid, f, d2, n, n)
           /\ s.items[v].logs = <<>>
<1> DEFINE its == Items(at)
           new == <<at, i.id>>
<1>1. pc \in Copying /\ IsTree(its) /\ n \in Nat \ {0} /\ DOMAIN its \subseteq Nat /\ IsSeq(its)
  <2>1. pc \in Copying
    BY DEF Copying
  <2>2. IsTree(its)
    BY <2>1, InHandItem
  <2> QED
    BY <2>1, <2>2, SeqDomain DEF IsTree, TransferInv, Typed
<1>2. doubled \in BOOLEAN /\ Started(its, at, uuidOf, n - 1) /\ Remembers(uuidOf, target, Selected)
  BY DEF TransferInv, Typed, InHand
(* Ids: what is started before is another item. *)
<1>3. ASSUME NEW k \in DOMAIN its, k <= n - 1
      PROVE  /\ k <= n /\ its[k].id # i.id /\ <<at, its[k].id>> \in DOMAIN uuidOf
             /\ f[<<at, its[k].id>>] = uuidOf[<<at, its[k].id>>] /\ f[<<at, its[k].id>>] \in DOMAIN target.items
  <2>1. k # n /\ k <= n
    BY <1>1, <1>3
  <2>2. its[k].id # i.id
    BY <1>1, <2>1, ApartInHand
  <2>3. <<at, its[k].id>> \in DOMAIN uuidOf
    BY <1>2, <1>3 DEF Started
  <2>4. <<at, its[k].id>> # new
    BY <2>2
  <2>5. uuidOf[<<at, its[k].id>>] \in DOMAIN target.items
    BY <1>2, <2>3 DEF Remembers
  <2> QED
    BY <2>1, <2>2, <2>3, <2>4, <2>5
<1>4. new \notin DOMAIN uuidOf
  <2> SUFFICES ASSUME new \in DOMAIN uuidOf PROVE FALSE
    OBVIOUS
  <2>1. new[1] = at /\ new[2] = i.id
    OBVIOUS
  <2> HIDE DEF new
  <2>2. PICK k \in DOMAIN its : k <= n - 1 /\ i.id = its[k].id
    BY <2>1 DEF Tidy, InPlace
  <2> QED
    BY <1>3, <2>2
<1>5. \A key \in DOMAIN uuidOf : key \in DOMAIN f /\ f[key] = uuidOf[key]
  BY <1>4
<1>6. i.parent = 0 => ParentUuid(i) = 0
  BY NoParent
<1>7. i.parent # 0 => /\ ParentUuid(i) = uuidOf[<<at, i.parent>>] /\ <<at, i.parent>> \in DOMAIN uuidOf
                      /\ ParentUuid(i) \in DOMAIN target.items /\ target.items[ParentUuid(i)].of = i.parent
  <2>1. i.parent # 0 => /\ ParentUuid(i) \in DOMAIN target.items /\ <<at, i.parent>> \in DOMAIN uuidOf
                        /\ target.items[ParentUuid(i)].of = i.parent
    BY ParentStarted
  <2> QED
    BY <2>1 DEF ParentUuid
(* The items that were there. *)
<1>8. \A w \in DOMAIN target.items : target.items[w].parent = 0 \/ target.items[w].parent \in DOMAIN target.items
  BY DEF TransferInv, TargetOK, CopyOf
<1>9. 0 \notin DOMAIN target.items
  BY SeqDomain DEF TransferInv, TargetOK, IsTarget
<1>10. InPlace(s, its, at, f, n)
  <2>1. ASSUME NEW key \in DOMAIN f, key[1] = at PROVE \E k \in DOMAIN its : k <= n /\ key[2] = its[k].id
    <3>1. CASE key \in DOMAIN uuidOf
      <4>1. PICK k \in DOMAIN its : k <= n - 1 /\ key[2] = its[k].id
        BY <2>1, <3>1 DEF Tidy, InPlace
      <4> QED
        BY <1>3, <4>1
    <3>2. CASE key = new
      <4>1. key[2] = its[n].id /\ n <= n
        BY <1>1, <3>2
      <4> QED
        BY <4>1
    <3> QED
      BY <3>1, <3>2
  <2>2. ASSUME NEW k \in DOMAIN its, k <= n
        PROVE  s.items[f[<<at, its[k].id>>]].parent = IF its[k].parent = 0 THEN 0 ELSE f[<<at, its[k].parent>>]
    <3>1. CASE k = n
      <4>1. f[<<at, its[k].id>>] = v /\ s.items[v].parent = ParentUuid(i)
        BY <3>1
      <4>2. i.parent # 0 => f[<<at, i.parent>>] = uuidOf[<<at, i.parent>>]
        BY <1>5, <1>7
      <4> QED
        BY <1>6, <1>7, <3>1, <4>1, <4>2
    <3>2. CASE k # n
      <4>1. k <= n - 1
        BY <1>1, <2>2, <3>2
      <4>2. s.items[f[<<at, its[k].id>>]] = target.items[uuidOf[<<at, its[k].id>>]]
        BY <1>3, <4>1
      <4>3. target.items[uuidOf[<<at, its[k].id>>]].parent =
              IF its[k].parent = 0 THEN 0 ELSE uuidOf[<<at, its[k].parent>>]
        BY <4>1 DEF Tidy, InPlace
      <4>4. its[k].parent # 0 => f[<<at, its[k].parent>>] = uuidOf[<<at, its[k].parent>>]
        <5> SUFFICES ASSUME its[k].parent # 0 PROVE f[<<at, its[k].parent>>] = uuidOf[<<at, its[k].parent>>]
          OBVIOUS
        <5>1. PICK p \in DOMAIN its : p < k /\ its[p].id = its[k].parent
          BY <1>1 DEF IsTree
        <5>2. p <= n - 1
          BY <1>1, <4>1, <5>1
        <5> QED
          BY <1>3, <5>1, <5>2
      <4> QED
        BY <4>2, <4>3, <4>4
    <3> QED
      BY <3>1, <3>2
  <2> QED
    BY <2>1, <2>2 DEF InPlace
<1>11. OnlyRemembered(s, luuid, at, f, d2)
  <2> SUFFICES ASSUME NEW w \in DOMAIN s.items, s.items[w].launch = luuid
               PROVE  /\ <<at, s.items[w].of>> \in DOMAIN f
                      /\ \/ w = f[<<at, s.items[w].of>>]
                         \/ /\ d2 /\ ~s.items[w].done /\ s.items[w].logs = <<>>
                            /\ s.items[w].parent = s.items[f[<<at, s.items[w].of>>]].parent
                            /\ \A x \in DOMAIN s.items : s.items[x].launch = luuid => s.items[x].parent # w
    BY DEF OnlyRemembered
  <2>1. CASE w \in DOMAIN target.items
    <3> DEFINE key == <<at, target.items[w].of>>
    <3>1. s.items[w] = target.items[w] /\ key = <<at, s.items[w].of>>
      BY <2>1
    <3>2. /\ key \in DOMAIN uuidOf
          /\ \/ w = uuidOf[key]
             \/ /\ doubled /\ ~target.items[w].done /\ target.items[w].logs = <<>>
                /\ target.items[w].parent = target.items[uuidOf[key]].parent
                /\ \A x \in DOMAIN target.items : target.items[x].launch = luuid => target.items[x].parent # w
      BY <2>1, <3>1 DEF Tidy, OnlyRemembered
    <3>3. f[key] = uuidOf[key] /\ key \in DOMAIN f /\ uuidOf[key] \in DOMAIN target.items
      BY <1>2, <1>5, <3>2 DEF Remembers
    <3>4. ASSUME w # uuidOf[key], NEW x \in DOMAIN s.items, s.items[x].launch = luuid PROVE s.items[x].parent # w
      <4>1. CASE x \in DOMAIN target.items
        BY <3>2, <3>4, <4>1
      <4>2. CASE x \notin DOMAIN target.items
        <5>1. s.items[x].parent = ParentUuid(i)
          BY <4>2
        <5>2. CASE i.parent = 0
          BY <1>6, <1>9, <2>1, <5>1, <5>2
        <5>3. CASE i.parent # 0
          <6> SUFFICES ASSUME ParentUuid(i) = w PROVE FALSE
            BY <5>1
          <6>1. target.items[w].of = i.parent
            BY <1>7, <5>3
          <6>2. key = <<at, i.parent>>
            BY <6>1
          <6> QED
            BY <1>7, <3>4, <5>3, <6>2
        <5> QED
          BY <5>2, <5>3
      <4> QED
        BY <4>1, <4>2
    <3> HIDE DEF key
    <3> QED
      BY <3>1, <3>2, <3>3, <3>4
  <2>2. CASE w \notin DOMAIN target.items
    <3>1. <<at, s.items[w].of>> = new /\ f[new] = v /\ new \in DOMAIN f
      BY <2>2
    <3>2. CASE w = v
      BY <3>1, <3>2
    <3>3. CASE w # v
      <4>1. /\ d2 /\ ~s.items[w].done /\ s.items[w].logs = <<>>
            /\ s.items[w].parent = s.items[v].parent /\ w # 0
        BY <2>2, <3>3
      <4>2. ASSUME NEW x \in DOMAIN s.items PROVE s.items[x].parent # w
        <5>1. s.items[x].parent = 0 \/ s.items[x].parent \in DOMAIN target.items
          <6>1. CASE x \in DOMAIN target.items
            BY <1>8, <6>1
          <6>2. CASE x \notin DOMAIN target.items
            BY <1>6, <1>7, <6>2
          <6> QED
            BY <6>1, <6>2
        <5> QED
          BY <2>2, <4>1, <5>1
      <4> HIDE DEF new
      <4> QED
        BY <3>1, <4>1, <4>2
    <3> QED
      BY <3>2, <3>3
  <2> QED
    BY <2>1, <2>2
<1>12. LoggedTo(s, its, at, f, n - 1, d2)
  <2> SUFFICES ASSUME NEW k \in DOMAIN its, k <= n - 1
               PROVE  WellLogged(its[k].log, s.items[f[<<at, its[k].id>>]].logs, d2)
    BY DEF LoggedTo
  <2>1. WellLogged(its[k].log, target.items[uuidOf[<<at, its[k].id>>]].logs, doubled)
    BY DEF Tidy, LoggedTo
  <2>2. s.items[f[<<at, its[k].id>>]] = target.items[uuidOf[<<at, its[k].id>>]]
    BY <1>3
  <2> QED
    BY <1>2, <2>1, <2>2 DEF WellLogged
<1>13. ~s.launches[luuid].done
  BY DEF Tidy
<1>14. Tidy(s, its, at, luuid, f, d2, n, n - 1)
  BY <1>10, <1>11, <1>12, <1>13 DEF Tidy
<1>15. s.items[v].logs = <<>>
  OBVIOUS
<1>16. ASSUME i.log = "none" PROVE Tidy(s, its, at, luuid, f, d2, n, n)
  <2>1. WellLogged(its[n].log, s.items[f[<<at, its[n].id>>]].logs, d2)
    BY <1>15, <1>16, NoLogs DEF WellLogged
  <2> QED
    BY <1>1, <1>14, <2>1, TidyMore
<1> QED
  BY <1>14, <1>15, <1>16

(* From t to s item i of launch u, whose parent is there, has been started, once or twice.     *)
ItemStarted(t, s, u, i, parent) ==
    /\ s.launches = t.launches /\ Apart(t, s, u)
    /\ Len(s.items) \in DOMAIN s.items /\ Len(s.items) \notin DOMAIN t.items /\ Len(s.items) # 0
    /\ \A w \in DOMAIN t.items : w \in DOMAIN s.items /\ s.items[w] = t.items[w]
    /\ \A w \in (DOMAIN s.items) \ DOMAIN t.items :
         /\ s.items[w].launch = u /\ s.items[w].of = i.id /\ s.items[w].parent = parent
         /\ ~s.items[w].done /\ s.items[w].logs = <<>> /\ w # 0

LEMMA StartedItems ==
    ASSUME NEW t, IsTarget(t), NEW u, NEW i, NEW parent, NEW once, once = NewItem(t, u, i, parent),
           NEW s, s = once \/ s = NewItem(once, u, i, parent)
    PROVE  /\ ItemStarted(t, s, u, i, parent)
           /\ s = once => \A w \in (DOMAIN s.items) \ DOMAIN t.items : w = Len(s.items)
<1> DEFINE m == Len(t.items)
<1>1. /\ IsTarget(once) /\ once.launches = t.launches
      /\ m \in Nat /\ DOMAIN t.items = 1..m
      /\ Len(once.items) = m + 1 /\ DOMAIN once.items = 1..(m + 1)
      /\ \A w \in DOMAIN t.items : once.items[w] = t.items[w]
      /\ once.items[m + 1].launch = u /\ once.items[m + 1].of = i.id /\ once.items[m + 1].parent = parent
      /\ ~once.items[m + 1].done /\ once.items[m + 1].logs = <<>>
  BY NewItemIs
<1>2. CASE s = once
  <2>1. \A w \in (DOMAIN s.items) \ DOMAIN t.items : w = m + 1
    BY <1>1, <1>2
  <2>2. Apart(t, s, u)
    BY <1>1, <1>2, <2>1 DEF Apart, SameLaunch, SameItem
  <2> QED
    BY <1>1, <1>2, <2>1, <2>2 DEF ItemStarted
<1>3. CASE s = NewItem(once, u, i, parent) /\ s # once
  <2>1. /\ s.launches = once.launches
        /\ Len(s.items) = m + 2 /\ DOMAIN s.items = 1..(m + 2)
        /\ \A w \in DOMAIN once.items : s.items[w] = once.items[w]
        /\ s.items[m + 2].launch = u /\ s.items[m + 2].of = i.id /\ s.items[m + 2].parent = parent
        /\ ~s.items[m + 2].done /\ s.items[m + 2].logs = <<>>
    <3>1. Len(once.items) + 1 = m + 2
      BY <1>1
    <3>2. IsTarget(once) /\ s = NewItem(once, u, i, parent)
      BY <1>1, <1>3
    <3>3. /\ s.launches = once.launches
          /\ Len(s.items) = Len(once.items) + 1 /\ DOMAIN s.items = 1..(Len(once.items) + 1)
          /\ \A w \in DOMAIN once.items : s.items[w] = once.items[w]
          /\ LET x == s.items[Len(once.items) + 1] IN
             /\ x.launch = u /\ x.of = i.id /\ x.parent = parent /\ ~x.done /\ x.logs = <<>>
      BY <3>2, NewItemIs
    <3> HIDE DEF m
    <3> QED
      BY <3>1, <3>3
  <2>2. \A w \in (DOMAIN s.items) \ DOMAIN t.items : w = m + 1 \/ w = m + 2
    BY <1>1, <2>1
  <2>3. \A w \in DOMAIN t.items : w \in DOMAIN s.items /\ s.items[w] = t.items[w]
    BY <1>1, <2>1
  <2>4. s.items[m + 1] = once.items[m + 1]
    BY <1>1, <2>1
  <2>5. Apart(t, s, u)
    BY <1>1, <2>1, <2>2, <2>3, <2>4 DEF Apart, SameLaunch, SameItem
  <2>6. ASSUME NEW w \in (DOMAIN s.items) \ DOMAIN t.items
        PROVE  /\ s.items[w].launch = u /\ s.items[w].of = i.id /\ s.items[w].parent = parent
               /\ ~s.items[w].done /\ s.items[w].logs = <<>> /\ w # 0
    <3>1. CASE w = m + 1
      BY <1>1, <2>4, <3>1
    <3>2. CASE w = m + 2
      BY <1>1, <2>1, <3>2
    <3> QED
      BY <2>2, <3>1, <3>2
  <2>7. Len(s.items) \in DOMAIN s.items /\ Len(s.items) \notin DOMAIN t.items /\ Len(s.items) # 0
    BY <1>1, <2>1
  <2>8. s.launches = t.launches
    BY <1>1, <2>1
  <2> QED
    BY <1>3, <2>3, <2>5, <2>6, <2>7, <2>8 DEF ItemStarted
<1> QED
  BY <1>2, <1>3

LEMMA StartItemWhole == TransferInv /\ CopyInv /\ StartItem => CopyInv'
<1> SUFFICES ASSUME TransferInv, CopyInv, StartItem PROVE CopyInv'
  OBVIOUS
<1> DEFINE i == Items(at)[n]
           once == NewItem(target, luuid, i, ParentUuid(i))
           twice == NewItem(once, luuid, i, ParentUuid(i))
<1>1. PICK r \in Sent(once, twice) :
        /\ Requested(r)
        /\ \/ Died(r)
           \/ /\ r.ok
              /\ pc' = CASE i.log = "none" -> "item"
                         [] i.log = "file" /\ opts.attach -> "upload"
                         [] OTHER -> "log"
              /\ n' = IF i.log = "none" THEN n + 1 ELSE n
              /\ uuidOf' = [k \in DOMAIN uuidOf \cup {<<at, i.id>>} |->
                                IF k = <<at, i.id>> THEN Len(r.to.items) ELSE uuidOf[k]]
              /\ UNCHANGED <<at, luuid, mapping, replay, analyzer>>
  BY DEF StartItem
<1>2. /\ pc = "item" /\ pc \in Copying /\ n \in Nat \ {0} /\ doubled \in BOOLEAN /\ IsTarget(target)
  BY DEF StartItem, Copying, TransferInv, Typed, TargetOK
<1>3. n \in DOMAIN Items(at)
  <2>1. at \in DOMAIN Selected /\ opts \in OptionSets
    BY <1>2 DEF TransferInv, InHand, Typed
  <2>2. Len(Items(at)) \in Nat /\ DOMAIN Items(at) = 1..Len(Items(at))
    BY <2>1, ItemsAreSources, SeqDomain DEF IsTree
  <2> QED
    BY <1>2, <2>2 DEF StartItem
<1>4. Tidy(target, Items(at), at, luuid, uuidOf, doubled, n - 1, n - 1) /\ AllWhole(target, doubled)
  BY <1>2 DEF CopyInv, Hand
<1>5. PICK it : it = i
  OBVIOUS
<1>6. PICK parent : parent = ParentUuid(it)
  OBVIOUS
<1>17. PICK one : one = NewItem(target, luuid, it, parent)
  OBVIOUS
<1>18. PICK two : two = NewItem(one, luuid, it, parent)
  OBVIOUS
<1>7. once = one /\ twice = two
  BY <1>5, <1>6, <1>17, <1>18
<1>8. /\ pc' = "died" \/ /\ r.ok
                         /\ pc' = CASE it.log = "none" -> "item"
                                    [] it.log = "file" /\ opts.attach -> "upload"
                                    [] OTHER -> "log"
                         /\ n' = IF it.log = "none" THEN n + 1 ELSE n
                         /\ uuidOf' = [k \in DOMAIN uuidOf \cup {<<at, it.id>>} |->
                                            IF k = <<at, it.id>> THEN Len(r.to.items) ELSE uuidOf[k]]
                         /\ UNCHANGED <<at, luuid>>
  BY <1>1, <1>5 DEF Died
<1> HIDE DEF i, once, twice
<1>9. /\ ItemStarted(target, one, luuid, it, parent) /\ ItemStarted(target, two, luuid, it, parent)
      /\ \A w \in (DOMAIN one.items) \ DOMAIN target.items : w = Len(one.items)
  BY <1>2, <1>17, <1>18, StartedItems
<1>10. /\ opts' = opts /\ doubled' \in BOOLEAN /\ (doubled => doubled') /\ (r.times = 2 => doubled')
       /\ target' = r.to
  BY <1>1, <1>2 DEF Requested
<1>11. target' \in {target, one, two}
  BY <1>7, <1>10, SentCases
<1>12. target'.launches = target.launches /\ Apart(target, target', luuid)
  <2>1. CASE target' = target
    BY <2>1, ApartNot
  <2>2. CASE target' = one \/ target' = two
    BY <1>9, <2>2 DEF ItemStarted
  <2> QED
    BY <1>11, <2>1, <2>2
<1>13. AllWhole(target, doubled)'
  <2>1. ~target'.launches[luuid].done
    BY <1>4, <1>12 DEF Tidy
  <2>2. AllWhole(target', doubled')
    BY <1>4, <1>10, <1>12, <2>1, AllStayWhole
  <2> QED
    BY <1>10, <2>2, WholeNext
<1>14. CASE pc' = "died"
  BY <1>13, <1>14 DEF CopyInv, Hand
<1>15. CASE pc' # "died"
  <2> DEFINE new == <<at, it.id>>
             v == Len(target'.items)
  <2>1. /\ r.ok /\ UNCHANGED <<at, luuid>>
        /\ pc' = (CASE it.log = "none" -> "item"
                    [] it.log = "file" /\ opts.attach -> "upload"
                    [] OTHER -> "log")
        /\ n' = (IF it.log = "none" THEN n + 1 ELSE n)
        /\ uuidOf' = [k \in DOMAIN uuidOf \cup {new} |-> IF k = new THEN v ELSE uuidOf[k]]
    BY <1>8, <1>10, <1>15
  <2>2. target' = one \/ (target' = two /\ doubled')
    BY <1>7, <1>10, <2>1, SentCases
  <2>3. DOMAIN uuidOf' = DOMAIN uuidOf \cup {new} /\ uuidOf'[new] = v
    BY <2>1
  <2>4. \A key \in DOMAIN uuidOf : key # new => uuidOf'[key] = uuidOf[key]
    BY <2>1
  <2>5. /\ v \in DOMAIN target'.items /\ v \notin DOMAIN target.items /\ v # 0
        /\ \A w \in DOMAIN target.items : w \in DOMAIN target'.items /\ target'.items[w] = target.items[w]
        /\ \A w \in (DOMAIN target'.items) \ DOMAIN target.items :
                /\ target'.items[w].launch = luuid /\ target'.items[w].of = it.id /\ target'.items[w].parent = parent
                /\ ~target'.items[w].done /\ target'.items[w].logs = <<>> /\ w # 0
        /\ \A w \in (DOMAIN target'.items) \ DOMAIN target.items : w = v \/ doubled'
    BY <1>9, <2>2 DEF ItemStarted
  <2>6. it = Items(at)[n]
    BY <1>5 DEF i
  <2> HIDE DEF v
  <2>7. /\ Tidy(target', Items(at), at, luuid, uuidOf', doubled', n, n - 1)
        /\ it.log = "none" => Tidy(target', Items(at), at, luuid, uuidOf', doubled', n, n)
        /\ target'.items[v].logs = <<>>
    BY <1>2, <1>3, <1>4, <1>6, <1>10, <1>12, <2>3, <2>4, <2>5, <2>6, StartedTidy
  <2>8. (Items(at))' = Items(at)
    BY <1>10, <2>1, SameOptions
  <2>9. n' = n => LogsOf(n)' = <<>>
    <3>1. n' = n => Uuid(n)' = v
      BY <2>1, <2>3, <2>6, <2>8 DEF Uuid
    <3> QED
      BY <2>7, <3>1 DEF LogsOf
  <2>10. Hand'
    <3>1. CASE it.log = "none"
      <4>1. pc' = "item" /\ n' - 1 = n
        BY <1>2, <2>1, <3>1
      <4> QED
        BY <2>1, <2>7, <2>8, <3>1, <4>1 DEF Hand
    <3>2. CASE it.log = "file" /\ opts.attach
      <4>1. pc' = "upload" /\ n' = n
        BY <2>1, <3>2
      <4> QED
        BY <2>1, <2>6, <2>7, <2>8, <2>9, <3>2, <4>1 DEF Hand
    <3>3. CASE it.log # "none" /\ ~(it.log = "file" /\ opts.attach)
      <4>1. pc' = "log" /\ n' = n
        BY <2>1, <3>3
      <4>2. Tried(it.log, <<>>, doubled')
        BY <3>3, NoLogs DEF Tried
      <4> QED
        BY <2>1, <2>6, <2>7, <2>8, <2>9, <4>1, <4>2 DEF Hand
    <3> QED
      BY <3>1, <3>2, <3>3
  <2> QED
    BY <1>13, <2>10 DEF CopyInv
<1> QED
  BY <1>14, <1>15

(* A step that leaves the target alone and has no launch in hand afterwards. *)
LEMMA StaysWhole ==
    ASSUME CopyInv, UNCHANGED <<opts, doubled, target>>, pc' \notin Copying
    PROVE  CopyInv'
<1>1. AllWhole(target, doubled)'
  BY WholeNext DEF CopyInv
<1> QED
  BY <1>1 DEF CopyInv, Hand, Copying

(* A request that touches no launch. *)
LEMMA OutsideWhole ==
    ASSUME TransferInv, CopyInv, NEW once, NEW twice, NEW r \in Sent(once, twice), Requested(r),
           Apart(target, once, 0), Apart(once, twice, 0), IsTarget(target'), pc' \notin Copying
    PROVE  CopyInv'
<1>1. /\ opts' = opts /\ doubled' \in BOOLEAN /\ (doubled => doubled') /\ target' = r.to
  BY DEF Requested, TransferInv, Typed
<1>2. Apart(target, target', 0)
  BY <1>1, SentApart
<1>3. 0 \notin DOMAIN target'.launches
  BY SeqDomain DEF IsTarget
<1>4. AllWhole(target', doubled')
  BY <1>1, <1>2, <1>3, AllStayWhole DEF CopyInv
<1> QED
  BY <1>1, <1>4, WholeNext DEF CopyInv, Hand, Copying

LEMMA SyncTypeWhole == TransferInv /\ TransferInv' /\ CopyInv /\ SyncType => CopyInv'
<1> SUFFICES ASSUME TransferInv, TransferInv', CopyInv, SyncType PROVE CopyInv'
  OBVIOUS
<1>1. pc = "sync" /\ IsTarget(target') /\ TargetOK(target)
  BY DEF SyncType, TransferInv, TargetOK
<1>2. PICK loc \in Unmapped :
        \/ UNCHANGED <<opts, pc, doubled, target>>
        \/ \E r \in Sent(NewType(target, loc), NewType(NewType(target, loc), loc)) :
              Requested(r) /\ pc' \in {pc, "died"}
  <2>1. PICK loc \in Unmapped :
        IF loc \notin SourceTypes \/ \E t \in target.types : SameType(t, loc)
        THEN UNCHANGED <<opts, pc, runs, faults, doubled, at, n, luuid, uuidOf, replay, target, analyzer>>
        ELSE \E r \in Sent(NewType(target, loc), NewType(NewType(target, loc), loc)) :
                /\ Requested(r)
                /\ \/ Died(r)
                   \/ UNCHANGED <<pc, at, n, luuid, uuidOf, replay, analyzer>>
    BY DEF SyncType
  <2>2. CASE loc \notin SourceTypes \/ \E t \in target.types : SameType(t, loc)
    BY <2>1, <2>2
  <2>3. CASE ~(loc \notin SourceTypes \/ \E t \in target.types : SameType(t, loc))
    BY <2>1, <2>3 DEF Died
  <2> QED
    BY <2>2, <2>3
<1>3. CASE UNCHANGED <<opts, pc, doubled, target>>
  BY <1>1, <1>3, StaysWhole DEF Copying
<1>4. CASE \E r \in Sent(NewType(target, loc), NewType(NewType(target, loc), loc)) :
              Requested(r) /\ pc' \in {pc, "died"}
  <2>1. PICK once : once = NewType(target, loc)
    OBVIOUS
  <2>2. PICK twice : twice = NewType(once, loc)
    OBVIOUS
  <2>3. PICK r \in Sent(once, twice) : Requested(r) /\ pc' \in {pc, "died"}
    BY <1>4, <2>1, <2>2
  <2>4. TargetOK(once) /\ once.launches = target.launches /\ once.items = target.items
    BY <1>1, <2>1, NewTypeOK
  <2>5. twice.launches = once.launches /\ twice.items = once.items
    BY <2>2, <2>4, NewTypeOK
  <2>6. Apart(target, once, 0) /\ Apart(once, twice, 0)
    BY <2>4, <2>5 DEF Apart, SameLaunch, SameItem
  <2> QED
    BY <1>1, <2>3, <2>6, OutsideWhole DEF Copying
<1> QED
  BY <1>2, <1>3, <1>4

LEMMA ReplayWhole == TransferInv /\ TransferInv' /\ CopyInv /\ Replay => CopyInv'
<1> SUFFICES ASSUME TransferInv, TransferInv', CopyInv, Replay PROVE CopyInv'
  OBVIOUS
<1>1. PICK chunk : chunk = Chunk(pending[at], batch)
  OBVIOUS
<1>2. PICK once : once = NewIssues(target, chunk)
  OBVIOUS
<1>3. PICK twice : twice = NewIssues(once, chunk)
  OBVIOUS
<1>4. PICK r \in Sent(once, twice) : Requested(r) /\ pc' \in {pc, "died"}
  BY <1>1, <1>2, <1>3 DEF Replay
<1>13. pc = "replay" /\ at <= Len(pending)
  BY DEF Replay
<1>5. pc = "replay" /\ at \in DOMAIN pending /\ batch \in Nat /\ TargetOK(target) /\ IsTarget(target')
  BY <1>13 DEF TransferInv, Typed, TargetOK
<1>6. Carried(target, chunk)
  BY <1>1, <1>5, ChunkOK
<1>7. /\ TargetOK(once) /\ Grows(target, once) /\ once.launches = target.launches
      /\ DOMAIN once.items = DOMAIN target.items
      /\ \A w \in DOMAIN target.items : SameItem(once.items[w], target.items[w])
  BY <1>2, <1>5, <1>6, NewIssuesOK
<1>8. /\ twice.launches = once.launches /\ DOMAIN twice.items = DOMAIN once.items
      /\ \A w \in DOMAIN once.items : SameItem(twice.items[w], once.items[w])
  <2>1. Carried(once, chunk)
    BY <1>6, <1>7, GrownFacts
  <2> QED
    BY <1>3, <1>7, <2>1, NewIssuesOK
<1>9. Apart(target, once, 0)
  BY <1>7 DEF Apart, SameLaunch, SameItem
<1>10. Apart(once, twice, 0)
  BY <1>8 DEF Apart, SameLaunch, SameItem
<1>11. pc' \notin Copying
  BY <1>4, <1>5 DEF Copying
<1>12. Requested(r) /\ IsTarget(target')
  BY <1>4, <1>5
<1> QED
  BY <1>9, <1>10, <1>11, <1>12, OutsideWhole

(* A step of the analyzer, or none. *)
LEMMA AsideWhole ==
    ASSUME CopyInv, UNCHANGED <<opts, pc, doubled, at, n, luuid, uuidOf, target>>
    PROVE  CopyInv'
<1>1. AllWhole(target, doubled)'
  BY WholeNext DEF CopyInv
<1>2. (Items(at))' = Items(at)
  BY SameOptions
<1>3. \A k \in DOMAIN Items(at) : Uuid(k)' = Uuid(k)
  BY <1>2 DEF Uuid
<1>4. Uuid(n)' = Uuid(n)
  BY <1>2 DEF Uuid
<1>5. LogsOf(n)' = LogsOf(n)
  BY <1>4 DEF LogsOf
<1>6. Hand'
  BY <1>2, <1>3, <1>5 DEF CopyInv, Hand
<1> QED
  BY <1>1, <1>6 DEF CopyInv

LEMMA CopyStep == TransferInv /\ TransferInv' /\ CopyInv /\ [Next]_vars => CopyInv'
<1> SUFFICES ASSUME TransferInv, TransferInv', CopyInv, [Next]_vars PROVE CopyInv'
  OBVIOUS
<1>1. CASE UNCHANGED vars
  BY <1>1, AsideWhole DEF vars
<1>2. CASE Run
  BY <1>2, StaysWhole DEF Run, Copying
<1>3. CASE SyncDone
  BY <1>3, StaysWhole DEF SyncDone, Copying
<1>4. CASE Skip
  BY <1>4, StaysWhole DEF Skip, Copying
<1>5. CASE Launched
  BY <1>5, StaysWhole DEF Launched, Copying
<1>6. CASE ReplayNext
  BY <1>6, StaysWhole DEF ReplayNext, Copying
<1>7. CASE Verify
  <2>1. pc' \in {"replay", "done"} /\ UNCHANGED <<opts, doubled, target>>
    BY <1>7 DEF Verify
  <2> QED
    BY <2>1, StaysWhole DEF Copying
<1>8. CASE Index
  BY <1>8, AsideWhole DEF Index, progress
<1>9. CASE DefectUpdate
  BY <1>9, AsideWhole DEF DefectUpdate, progress
<1> QED
  BY <1>1, <1>2, <1>3, <1>4, <1>5, <1>6, <1>7, <1>8, <1>9, SyncTypeWhole, StartLaunchWhole, StartItemWhole,
     UploadWhole, PostLogWhole, FinishItemWhole, FinishLaunchWhole, ReplayWhole
  DEF Next

-----------------------------------------------------------------------------
(* The properties *)

(* A launch is on the target at most once, unless the adapter repeated a request, and a run   *)
(* that ends has left every selected launch there: launch_exists finds what an earlier run    *)
(* began, however it ended (migrate.py 234-238, 767-773).                                     *)
THEOREM MigratesOnce == Spec => []CopiedOnce
<1>1. TransferInv => CopiedOnce
  <2> SUFFICES ASSUME TransferInv PROVE CopiedOnce
    OBVIOUS
  <2>1. ASSUME ~doubled, NEW l PROVE Cardinality(Copies(l)) <= 1
    <3>1. \A v, w \in Copies(l) : v = w
      BY <2>1 DEF TransferInv, Once, Copies, SameLaunch
    <3>2. CASE Copies(l) = {}
      BY <3>2, FS_EmptySet
    <3>3. CASE Copies(l) # {}
      <4>1. PICK v : Copies(l) = {v}
        BY <3>1, <3>3
      <4> QED
        BY <4>1, FS_Singleton
    <3> QED
      BY <3>2, <3>3
  <2>2. ASSUME pc = "done", NEW l \in Range(Selected) PROVE Copies(l) # {}
    <3>1. There(target, l)
      BY <2>2 DEF TransferInv, Passed, Range
    <3> QED
      BY <3>1 DEF There, Copies, SameLaunch
  <2> QED
    BY <2>1, <2>2 DEF CopiedOnce
<1> QED
  BY <1>1, TransferInvariant, PTL

(* A copy names its original. *)
LEMMA Origin ==
    ASSUME NEW u \in DOMAIN target.items, NEW l \in DOMAIN Source, NEW k \in DOMAIN Source[l].items,
           CopyOf(target, u, l, k)
    PROVE  Home(u) = l /\ SourceItem(u) = Source[l].items[k]
<1>1. target.items[u].of = Source[l].items[k].id
  BY DEF CopyOf
<1>2. \A m \in DOMAIN Source : \A b \in DOMAIN Source[m].items :
        Source[m].items[b].id = target.items[u].of => m = l /\ b = k
  BY <1>1, IdNames
<1>3. Home(u) = l
  BY <1>1, <1>2 DEF Home
<1>4. SourceItem(u) = Source[l].items[CHOOSE b \in DOMAIN Source[l].items :
                                          Source[l].items[b].id = target.items[u].of]
  BY <1>3 DEF SourceItem
<1>5. (CHOOSE b \in DOMAIN Source[l].items : Source[l].items[b].id = target.items[u].of) = k
  BY <1>1, <1>2
<1> QED
  BY <1>3, <1>4, <1>5

(* Every launch finished on the target is whole, and what a repeated request left beside its  *)
(* copies is bare: the launch in hand is tidy at each request, and no request touches a       *)
(* finished launch but to label its items (migrate.py drop_passed 348-372, migrate_launch     *)
(* 425-494, replay_log 497-527, replay_defects 533-576).                                      *)
THEOREM TreeIsKept == Spec => []TreeKept
<1>1. Init => CopyInv
  <2> SUFFICES ASSUME Init PROVE CopyInv
    OBVIOUS
  <2>1. pc = "idle" /\ DOMAIN target.launches = {}
    BY DEF Init
  <2> QED
    BY <2>1 DEF CopyInv, Hand, AllWhole
<1>2. TransferInv /\ TransferInv' /\ CopyInv /\ [Next]_vars => CopyInv'
  BY CopyStep
<1>3. CopyInv => TreeKept
  BY WholeIsKept DEF CopyInv
<1> QED
  BY <1>1, <1>2, <1>3, TransferInvariant, PTL DEF Spec

(* A label written for one the source's settings list, or for one of ReportPortal's own,      *)
(* means what its source item's label means and exists on the target: locator_map is complete *)
(* before the first launch and its entries stay valid (migrate.py 378-419, 533-576).          *)
THEOREM MeaningIsKept == Spec => []MeaningKept
<1>1. TransferInv => MeaningKept
  <2> SUFFICES ASSUME TransferInv, NEW u \in DOMAIN target.items, target.items[u].issue # Untyped,
                      SourceItem(u).label.by = "rp" \/ SourceItem(u).label \in SourceTypes
               PROVE  LET t == target.items[u].issue IN
                      /\ Meaning(t) = Meaning(SourceItem(u).label)
                      /\ t.by = "rp" \/ t \in target.types
    BY DEF MeaningKept
  <2>1. PICK l \in DOMAIN Source : \E k \in DOMAIN Source[l].items : CopyOf(target, u, l, k)
    BY DEF TransferInv, TargetOK
  <2>2. PICK k \in DOMAIN Source[l].items : CopyOf(target, u, l, k)
    BY <2>1
  <2>3. SourceItem(u) = Source[l].items[k]
    BY <2>2, Origin
  <2> QED
    BY <2>2, <2>3 DEF CopyOf, Fits
<1> QED
  BY <1>1, TransferInvariant, PTL

(* Full coverage is reported only when every label carried is in the analyzer's log: the       *)
(* items counted are the distinct items of all_applied, so an equal count leaves none out      *)
(* (migrate.py 579-592, 804-816).                                                             *)
THEOREM CoverageReported == Spec => []CoverageIsReal
<1>1. TransferInv => CoverageIsReal
  BY DEF TransferInv
<1> QED
  BY <1>1, TransferInvariant, PTL

=============================================================================
