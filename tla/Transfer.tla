------------------------------ MODULE Transfer ------------------------------
(***************************************************************************)
(* tools/rp-migrate/migrate.py: launches of one ReportPortal are replayed  *)
(* into another by requests that may be refused, lose their answer or be   *)
(* repeated by the HTTP adapter; the tool may die and be run again.  The   *)
(* target's analyzer indexes and learns on its own time.  An item, log or  *)
(* label is what the properties tell apart; times, texts and attributes    *)
(* are copied field by field by the code and left out.                     *)
(***************************************************************************)
EXTENDS Lists, SequencesExt

CONSTANTS
    Source,       \* the source's launches, oldest first: [name, start, items], an item is
                  \* [id, parent, nested, passed, label, log], log "none", "text" or "file"
    SourceTypes,  \* locators of the source's settings
    TargetTypes,  \* locators of the target's settings before the first run
    OptionSets,   \* [name, limit, skipLast, skipPassed, attach, verify]
    Batch,        \* BATCH_DEFECTS
    MaxRuns, MaxFaults    \* bounds: runs of the tool, requests that go wrong

(* A locator is known by its owner; its meaning is its group and long name. *)
Locator(by, group, name) == [by |-> by, group |-> group, name |-> name, nr |-> 0]
Meaning(loc) == <<loc.group, loc.name>>
Untyped == Locator("rp", "ti", "To Investigate")
NoIssue == Locator("none", "none", "none")
AnyName == "any"

(* ReportPortal gives ids in the order items are started, a parent before its children; an  *)
(* item without a parent is no nested step.                                                 *)
IsTree(items) ==
    /\ IsSeq(items)
    /\ \A a, b \in DOMAIN items : a < b => items[a].id < items[b].id
    /\ \A k \in DOMAIN items :
          /\ items[k].id \in Nat \ {0}
          /\ items[k].parent # 0 => \E p \in DOMAIN items : p < k /\ items[p].id = items[k].parent
          /\ items[k].parent = 0 => ~items[k].nested

ASSUME TransferAssumption ==
    /\ Batch \in Nat \ {0} /\ MaxRuns \in Nat /\ MaxFaults \in Nat
    /\ IsSeq(Source) /\ \A l \in DOMAIN Source : IsTree(Source[l].items)
    /\ \A l, m \in DOMAIN Source : \A a \in DOMAIN Source[l].items, b \in DOMAIN Source[m].items :
            Source[l].items[a].id = Source[m].items[b].id => l = m
    /\ \A o \in OptionSets : o.limit \in Nat /\ o.skipLast \in Nat
    /\ IsFiniteSet(TargetTypes) /\ \A t \in TargetTypes : t.nr = 0

VARIABLES
    opts, pc, runs, faults, doubled,
    at, n, luuid,    \* the launch of the selection in hand, its item, its id on the target
    mapping,         \* locator_map: a set of pairs
    uuidOf,          \* <<launch, item>> -> item of the target, of this run
    pending, batch, round,    \* pending_replays and how far the replay is
    applied, covered,         \* all_applied; the coverage the tool printed was full
    target,          \* [types, launches, items]
    indexed, mail, events     \* the analyzer: items it has, updates on their way, label_events

vars == <<opts, pc, runs, faults, doubled, at, n, luuid, mapping, uuidOf, pending, batch, round,
          applied, covered, target, indexed, mail, events>>
analyzer == <<indexed, mail, events>>
replay == <<pending, batch, round, applied, covered>>
progress == <<at, n, luuid, mapping, uuidOf>>

-----------------------------------------------------------------------------
(* The positions that a walk along the pairs of next reaches from those of base. *)
Reach(D, base, next) ==
    {k \in D : \A S \in SUBSET D :
        base \subseteq S /\ (\A p \in next : p[1] \in S => p[2] \in S) => k \in S}

(* What is selected: --name, then --limit; --skip-defects-last spares the newest. *)
FilterByName(launches, name) ==
    Picked(launches, {k \in DOMAIN launches : name \in {AnyName, launches[k].name}})
Selected == Prefix(FilterByName(Source, opts.name), opts.limit)
SkipsDefects(l) == l > Len(Selected) - opts.skipLast

(* items_of_launch: the flat listing may leave nested steps out; they are fetched parent by *)
(* parent, and the whole is sorted by id.                                                  *)
Kinship(items) ==
    {p \in (DOMAIN items) \X (DOMAIN items) : items[p[1]].id = items[p[2]].parent}
ItemsOfLaunch(items) ==
    Picked(items, Reach(DOMAIN items, {k \in DOMAIN items : ~items[k].nested}, Kinship(items)))

(* Mutant of Survivors: a PASSED container is dropped whatever it holds. *)
SurvivorsAlone(items) == {k \in DOMAIN items : ~items[k].passed}

(* drop_passed: an item survives with its own status or with a child that survives. *)
Survivors(items) ==
    Reach(DOMAIN items, {k \in DOMAIN items : ~items[k].passed},
          {<<p[2], p[1]>> : p \in Kinship(items)})

DropPassed(items) == Picked(items, Survivors(items))

Items(l) ==
    LET all == ItemsOfLaunch(Selected[l].items)
    IN  IF opts.skipPassed THEN DropPassed(all) ELSE all

Needed == {i.label : i \in UNION {Range(Items(l)) : l \in {j \in DOMAIN Selected : ~SkipsDefects(j)}}}
             \ {NoIssue}

-----------------------------------------------------------------------------
(* What a request may come to, given the target after it and after its repetition, through *)
(* _send and the retrying adapter: it is done and answered (after one login when the token *)
(* had expired, a 401 having changed nothing), refused, done with its answer lost, or done, *)
(* lost and repeated, and then answered or lost again.  The adapter's five repetitions      *)
(* (migrate.py:106-111) are taken as one.                                                   *)
Sent(once, twice) ==
    {[to |-> once, ok |-> TRUE, times |-> 1, fault |-> 0]}
    \cup IF faults = MaxFaults THEN {}
         ELSE {[to |-> target, ok |-> FALSE, times |-> 0, fault |-> 1],
               [to |-> once, ok |-> FALSE, times |-> 1, fault |-> 1],
               [to |-> twice, ok |-> TRUE, times |-> 2, fault |-> 1],
               [to |-> twice, ok |-> FALSE, times |-> 2, fault |-> 1]}

(* The request is sent, and an error it raises ends the run. *)
Requested(r) ==
    /\ target' = r.to
    /\ faults' = faults + r.fault
    /\ doubled' = (doubled \/ r.times = 2)
    /\ UNCHANGED <<opts, runs>>

Died(r) == ~r.ok /\ pc' = "died" /\ UNCHANGED <<progress, replay, analyzer>>

NewLaunch(t, l) == [t EXCEPT !.launches = Append(@, [name |-> l.name, start |-> l.start, done |-> FALSE])]
NewItem(t, u, i, parent) ==
    [t EXCEPT !.items = Append(@, [launch |-> u, of |-> i.id, parent |-> parent, logs |-> <<>>,
                                   done |-> FALSE, issue |-> Untyped])]
NewLog(t, u, kind) == [t EXCEPT !.items[u].logs = Append(@, kind)]
ItemDone(t, u) == [t EXCEPT !.items[u].done = TRUE]
LaunchDone(t, u) == [t EXCEPT !.launches[u].done = TRUE]
NewType(t, loc) ==
    [t EXCEPT !.types = @ \cup {[by |-> "dst", group |-> loc.group, name |-> loc.name,
                                 nr |-> 1 + Cardinality(t.types)]}]
Label(chunk, u) == (CHOOSE p \in chunk : p[1] = u)[2]
NewIssues(t, chunk) ==
    LET us == {p[1] : p \in chunk}
    IN  [t EXCEPT !.items = [u \in DOMAIN t.items |->
            IF u \in us THEN [t.items[u] EXCEPT !.issue = Label(chunk, u)] ELSE t.items[u]]]

Mapped(loc) == IF \E p \in mapping : p[1] = loc THEN (CHOOSE p \in mapping : p[1] = loc)[2] ELSE loc

-----------------------------------------------------------------------------
Init ==
    /\ opts \in OptionSets
    /\ pc = "idle" /\ runs = 0 /\ faults = 0 /\ doubled = FALSE
    /\ at = 1 /\ n = 1 /\ luuid = 0 /\ mapping = {} /\ uuidOf = <<>>
    /\ pending = <<>> /\ batch = 0 /\ round = 1 /\ applied = {} /\ covered = FALSE
    /\ target = [types |-> TargetTypes, launches |-> <<>>, items |-> <<>>]
    /\ indexed = {} /\ mail = <<>> /\ events = <<>>

(* main, first or again: selection and pre-scan only read. *)
Run ==
    /\ pc \in {"idle", "died", "done"} /\ runs < MaxRuns
    /\ runs' = runs + 1 /\ pc' = "sync"
    /\ at' = 1 /\ n' = 1 /\ luuid' = 0 /\ uuidOf' = <<>>
    /\ mapping' = {<<loc, loc>> : loc \in {x \in Needed : x.by = "rp"}}
    /\ pending' = <<>> /\ batch' = 0 /\ round' = 1 /\ applied' = {} /\ covered' = FALSE
    /\ UNCHANGED <<opts, faults, doubled, target, analyzer>>

Unmapped == Needed \ {p[1] : p \in mapping}

(* Mutant of SameType: the group alone. *)
SameGroup(a, b) == a.group = b.group

SameType(a, b) == Meaning(a) = Meaning(b)

(* sync_defect_types: a custom type is found on the target by group and name, or created;  *)
(* one the source's settings do not list keeps its locator.                                *)
SyncType ==
    /\ pc = "sync" /\ Unmapped # {}
    /\ \E loc \in Unmapped :
        IF loc \notin SourceTypes \/ \E t \in target.types : SameType(t, loc)
        THEN /\ \E t \in IF loc \in SourceTypes THEN {x \in target.types : SameType(x, loc)} ELSE {loc} :
                    mapping' = mapping \cup {<<loc, t>>}
             /\ UNCHANGED <<opts, pc, runs, faults, doubled, at, n, luuid, uuidOf, replay, target, analyzer>>
        ELSE LET Create(t) == NewType(t, loc) IN
             \E r \in Sent(Create(target), Create(Create(target))) :
                /\ Requested(r)
                /\ \/ Died(r)
                   \/ /\ r.ok
                      /\ mapping' = mapping \cup {<<loc, CHOOSE t \in r.to.types :
                                        SameType(t, loc) /\ t.nr = Cardinality(r.to.types)>>}
                      /\ UNCHANGED <<pc, at, n, luuid, uuidOf, replay, analyzer>>

SyncDone ==
    /\ pc = "sync" /\ Unmapped = {}
    /\ pc' = "launch"
    /\ UNCHANGED <<opts, runs, faults, doubled, progress, replay, target, analyzer>>

-----------------------------------------------------------------------------
(* Mutant of LaunchExists: only a finished launch counts. *)
LaunchFinished(l) ==
    \E u \in DOMAIN target.launches : /\ target.launches[u].name = l.name
                                      /\ target.launches[u].start = l.start
                                      /\ target.launches[u].done

LaunchExists(l) ==
    \E u \in DOMAIN target.launches : target.launches[u].name = l.name /\ target.launches[u].start = l.start

Skip ==
    /\ pc = "launch" /\ at <= Len(Selected) /\ LaunchExists(Selected[at])
    /\ at' = at + 1
    /\ UNCHANGED <<opts, pc, runs, faults, doubled, n, luuid, mapping, uuidOf, replay, target, analyzer>>

StartLaunch ==
    /\ pc = "launch" /\ at <= Len(Selected) /\ ~LaunchExists(Selected[at])
    /\ LET Post(t) == NewLaunch(t, Selected[at]) IN
       \E r \in Sent(Post(target), Post(Post(target))) :
        /\ Requested(r)
        /\ \/ Died(r)
           \/ /\ r.ok /\ pc' = "item" /\ n' = 1 /\ luuid' = Len(r.to.launches)
              /\ UNCHANGED <<at, mapping, uuidOf, replay, analyzer>>

(* The item's parent is the copy this run made of it, if it made one. *)
ParentUuid(i) == IF <<at, i.parent>> \in DOMAIN uuidOf THEN uuidOf[<<at, i.parent>>] ELSE 0

StartItem ==
    /\ pc = "item" /\ n <= Len(Items(at))
    /\ LET i == Items(at)[n]
           Post(t) == NewItem(t, luuid, i, ParentUuid(i)) IN
       \E r \in Sent(Post(target), Post(Post(target))) :
        /\ Requested(r)
        /\ \/ Died(r)
           \/ /\ r.ok
              /\ pc' = CASE i.log = "none" -> "item"
                         [] i.log = "file" /\ opts.attach -> "upload"
                         [] OTHER -> "log"
              /\ n' = IF i.log = "none" THEN n + 1 ELSE n
              /\ uuidOf' = [k \in DOMAIN uuidOf \cup {<<at, i.id>>} |->
                                IF k = <<at, i.id>> THEN Len(r.to.items) ELSE uuidOf[k]]
              /\ UNCHANGED <<at, luuid, mapping, replay, analyzer>>

Uuid(k) == uuidOf[<<at, Items(at)[k].id>>]

(* replay_log: an upload that fails, for whatever reason, is followed by the text alone. *)
Upload ==
    /\ pc = "upload"
    /\ LET Post(t) == NewLog(t, Uuid(n), "file") IN
       \E r \in Sent(Post(target), Post(Post(target))) :
        /\ Requested(r)
        /\ IF r.ok THEN pc' = "item" /\ n' = n + 1 ELSE pc' = "log" /\ n' = n
    /\ UNCHANGED <<at, luuid, mapping, uuidOf, replay, analyzer>>

PostLog ==
    /\ pc = "log"
    /\ LET Post(t) == NewLog(t, Uuid(n), "text") IN
       \E r \in Sent(Post(target), Post(Post(target))) :
        /\ Requested(r)
        /\ \/ Died(r)
           \/ r.ok /\ pc' = "item" /\ n' = n + 1 /\ UNCHANGED <<at, luuid, mapping, uuidOf, replay, analyzer>>

(* Children are finished before parents: in reverse order of ids. *)
FinishItem ==
    /\ \/ pc = "item" /\ n = Len(Items(at)) + 1
       \/ pc = "finish"
    /\ n > 1
    /\ LET Put(t) == ItemDone(t, Uuid(n - 1)) IN
       \E r \in Sent(Put(target), Put(Put(target))) :
        /\ Requested(r)
        /\ \/ Died(r)
           \/ r.ok /\ pc' = "finish" /\ n' = n - 1 /\ UNCHANGED <<at, luuid, mapping, uuidOf, replay, analyzer>>

Carries(l) == ~SkipsDefects(l) /\ \E i \in Range(Items(l)) : i.label # NoIssue

FinishLaunch ==
    /\ pc \in {"item", "finish"} /\ n = 1
    /\ pc = "item" => Len(Items(at)) = 0
    /\ LET Put(t) == LaunchDone(t, luuid) IN
       \E r \in Sent(Put(target), Put(Put(target))) :
        /\ Requested(r)
        /\ \/ Died(r)
           \/ /\ r.ok /\ pc' = "launch" /\ at' = at + 1
              /\ pending' = IF Carries(at) THEN Append(pending, at) ELSE pending
              /\ UNCHANGED <<n, luuid, mapping, uuidOf, batch, round, applied, covered, analyzer>>

Launched ==
    /\ pc = "launch" /\ at > Len(Selected)
    /\ pc' = IF pending = <<>> THEN "done" ELSE "replay"
    /\ batch' = 0 /\ at' = 1
    /\ UNCHANGED <<opts, runs, faults, doubled, n, luuid, mapping, uuidOf, pending, round, applied, covered,
                   target, analyzer>>

-----------------------------------------------------------------------------
(* The labelled items of a pending launch, TI left out, as <<item of the target, locator>>. *)
Updates(l) ==
    LET its == Items(l)
        labelled == Picked(its, {k \in DOMAIN its : /\ its[k].label # NoIssue
                                                    /\ Mapped(its[k].label).group # "ti"})
    IN  [k \in DOMAIN labelled |-> <<uuidOf[<<l, labelled[k].id>>], Mapped(labelled[k].label)>>]

Chunk(l, b) == {Updates(l)[k] : k \in (DOMAIN Updates(l)) \cap (b * Batch + 1)..((b + 1) * Batch)}

(* replay_defects: one PUT per chunk; the target accepts it and sends the analyzer its     *)
(* defect_update.  at walks over pending_replays, batch over the chunks.                    *)
Replay ==
    /\ pc = "replay" /\ at <= Len(pending) /\ Chunk(pending[at], batch) # {}
    /\ LET chunk == Chunk(pending[at], batch)
           us == {p[1] : p \in chunk}
           Put(t) == NewIssues(t, chunk) IN
       \E r \in Sent(Put(target), Put(Put(target))) :
        /\ Requested(r)
        /\ mail' = mail \o FlattenSeq([k \in 1..r.times |-> SetToSeq(us)])
        /\ IF r.ok THEN /\ batch' = batch + 1 /\ pc' = pc
                        /\ applied' = applied \cup (IF round = 1 THEN chunk ELSE {})
           ELSE pc' = "died" /\ UNCHANGED <<batch, applied>>
    /\ UNCHANGED <<at, n, luuid, mapping, uuidOf, pending, round, covered, indexed, events>>

ReplayNext ==
    /\ pc = "replay" /\ at <= Len(pending) /\ Chunk(pending[at], batch) = {}
    /\ at' = at + 1 /\ batch' = 0
    /\ UNCHANGED <<opts, pc, runs, faults, doubled, n, luuid, mapping, uuidOf, pending, round, applied,
                   covered, target, analyzer>>

(* Mutant of LabelEvents: rows are counted, not items. *)
LabelRows(ids) == Len(SelectSeq(events, LAMBDA u : u \in ids))

(* analyzer_label_events: count(distinct item_id). *)
LabelEvents(ids) == Cardinality({u \in ids : u \in Range(events)})

(* The coverage is counted, if the command is configured and works; when it is short the   *)
(* whole replay is done once more.                                                          *)
Verify ==
    /\ pc = "replay" /\ at > Len(pending)
    /\ LET ids == {p[1] : p \in applied}
           full == LabelEvents(ids) >= Cardinality(ids) IN
       \/ pc' = "done" /\ UNCHANGED <<at, batch, round, covered>>        \* no command, or it failed
       \/ /\ opts.verify
          /\ covered' = full
          /\ IF full \/ round = 2 THEN pc' = "done" /\ UNCHANGED <<at, batch, round>>
             ELSE pc' = pc /\ at' = 1 /\ batch' = 0 /\ round' = 2
    /\ UNCHANGED <<opts, runs, faults, doubled, n, luuid, mapping, uuidOf, pending, applied, target, analyzer>>

-----------------------------------------------------------------------------
(* The target's analyzer indexes items of finished launches, and drops the update of an    *)
(* item it does not have.                                                                   *)
Index ==
    /\ \E u \in DOMAIN target.items \ indexed :
        /\ target.launches[target.items[u].launch].done
        /\ indexed' = indexed \cup {u}
    /\ UNCHANGED <<opts, pc, runs, faults, doubled, progress, replay, target, mail, events>>

DefectUpdate ==
    /\ mail # <<>>
    /\ mail' = Tail(mail)
    /\ events' = IF Head(mail) \in indexed THEN Append(events, Head(mail)) ELSE events
    /\ UNCHANGED <<opts, pc, runs, faults, doubled, progress, replay, target, indexed>>

Next == \/ Run \/ SyncType \/ SyncDone \/ Skip \/ StartLaunch \/ StartItem \/ Upload \/ PostLog
        \/ FinishItem \/ FinishLaunch \/ Launched \/ Replay \/ ReplayNext \/ Verify
        \/ Index \/ DefectUpdate

Spec == Init /\ [][Next]_vars

-----------------------------------------------------------------------------
(* Where an item of the target comes from: ids are unique in the source. *)
Home(u) == CHOOSE l \in DOMAIN Source :
    \E k \in DOMAIN Source[l].items : Source[l].items[k].id = target.items[u].of
SourceItem(u) ==
    LET its == Source[Home(u)].items
    IN  its[CHOOSE k \in DOMAIN its : its[k].id = target.items[u].of]

Copies(l) == {u \in DOMAIN target.launches : target.launches[u].name = l.name /\ target.launches[u].start = l.start}

(* A selected launch is on the target exactly once when a run ends, and never twice, however *)
(* often the tool was killed and run again, unless the adapter repeated a request            *)
(* (launch_exists, migrate.py:234-238; main 767-773).                                        *)
CopiedOnce ==
    /\ ~doubled => \A l \in Range(Source) : Cardinality(Copies(l)) <= 1
    /\ pc = "done" => \A l \in Range(Selected) : Copies(l) # {}

(* The finished items of launch c of the target that copy one item of the source. *)
Finished(c, id) ==
    {u \in DOMAIN target.items : /\ target.items[u].launch = c /\ target.items[u].of = id
                                 /\ target.items[u].done}

(* Item u is the one finished copy of i in launch c, under the one of i's parent, with its   *)
(* log: with the attachment or as text, both only after an upload whose answer was lost, and *)
(* none of a kind twice unless a request was repeated.                                        *)
IsTheCopy(u, c, i) ==
    LET copy == target.items[u] IN
    /\ Finished(c, i.id) = {u}
    /\ IF i.parent = 0 THEN copy.parent = 0 ELSE Finished(c, i.parent) = {copy.parent}
    /\ i.log = "none" <=> copy.logs = <<>>
    /\ Range(copy.logs) \subseteq {"text", i.log}
    /\ ~doubled => IsInjective(copy.logs)

(* Item u of launch c is what a repeated request left: unfinished, without a log and without *)
(* children, beside its finished twin.                                                        *)
IsStray(u, c) ==
    LET stray == target.items[u] IN
    /\ doubled /\ ~stray.done /\ stray.logs = <<>>
    /\ \A w \in DOMAIN target.items : target.items[w].launch = c => target.items[w].parent # u
    /\ \E twin \in Finished(c, stray.of) : target.items[twin].parent = stray.parent

(* A launch the tool has finished, in whichever run, is whole: every item of its original    *)
(* has its copy there, if it was not to be dropped for PASSED, with the containers it hung in; *)
(* an item too many is there only when a request was repeated, and then bare (drop_passed     *)
(* 348-372, migrate_launch 425-494, replay_log 497-527).                                      *)
TreeKept ==
    \A c \in DOMAIN target.launches : target.launches[c].done =>
        \E l \in DOMAIN Selected :
            /\ target.launches[c].name = Selected[l].name
            /\ target.launches[c].start = Selected[l].start
            /\ \A i \in Range(Selected[l].items) :
                  (opts.skipPassed /\ i.passed) \/ \E u \in DOMAIN target.items : IsTheCopy(u, c, i)
            /\ \A u \in DOMAIN target.items : target.items[u].launch = c =>
                  IsStray(u, c) \/ \E i \in Range(Selected[l].items) : IsTheCopy(u, c, i)

(* The label written to an item whose source label is ReportPortal's own or listed in the    *)
(* source's settings means what that label means, and the target has it: its own type of that *)
(* name, found or created, or one of ReportPortal's (sync_defect_types 378-419,               *)
(* replay_defects 533-576).  Of a label the settings do not list the tool keeps the locator   *)
(* (402-405), whether or not the target has it, and nothing is claimed.                       *)
MeaningKept ==
    \A u \in DOMAIN target.items :
        LET t == target.items[u].issue
            label == SourceItem(u).label
        IN  t # Untyped /\ (label.by = "rp" \/ label \in SourceTypes) =>
                Meaning(t) = Meaning(label) /\ (t.by = "rp" \/ t \in target.types)

(* When the tool reports full coverage, every label it carried is in the analyzer's log,     *)
(* although updates that overtook indexing were dropped and all were sent again              *)
(* (analyzer_label_events 579-592, main 804-816).                                            *)
CoverageIsReal == covered => \A p \in applied : p[1] \in Range(events)
=============================================================================
