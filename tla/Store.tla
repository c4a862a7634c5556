------------------------------- MODULE Store -------------------------------
(***************************************************************************)
(* The PostgreSQL side of one project: core/ingest.py (index),             *)
(* ml/drain.py and drain3_state.py (the miner's state), retrieval.py       *)
(* (items, signatures, suggestions, deletions, the orphan reaper), kb.py   *)
(* and labels.py, as the workers' handlers call them.  Statements of       *)
(* different workers interleave under READ COMMITTED with row locks; a     *)
(* step is one transaction, or one statement of a transaction whose other  *)
(* statements another worker can come between.                             *)
(***************************************************************************)
EXTENDS Integers, Sequences, FiniteSets

CONSTANTS
    Workers,        \* threads of the pool, of one or several replicas
    Items,          \* test items, each with its own log message
    Shape,          \* Drain clusters messages of one shape
    Batches,        \* the item sequences index messages carry
    Labels,         \* labels people and the analyzer give
    PayloadLabels,  \* labels index messages carry
    Verdicts,       \* what _decide may answer: [label, auto, matched]
    CasRetries,     \* DRAIN_CAS_RETRIES
    Grace,          \* ANALYZER_LABEL_EVENT_ORPHAN_GRACE_DAYS
    MaxRequests, MaxFaults, MaxDay, MaxRows    \* bounds

NoItem == [label |-> "no item", auto |-> FALSE]
NoSig == {}
NoMode == <<-1, -1>>
NoDay == -1
Nobody == "nobody"
Idle == [kind |-> "idle"]
NoWork == [known |-> {}, ver |-> 0, tries |-> 0, at |-> 0, trusted |-> FALSE, old |-> "", count |-> NoMode]

ASSUME StoreAssumption ==
    /\ Nobody \notin Workers
    /\ \A b \in Batches : b \in Seq(Items) /\ b # <<>>
    /\ NoItem.label \notin Labels \cup PayloadLabels /\ \A v \in Verdicts : v.label # NoItem.label
    /\ Grace \in Int /\ CasRetries \in Nat \ {0}

VARIABLES
    item,       \* test_item: issue_type and is_auto_analyzed
    sig,        \* failure_signature: the template its message was mined into
    sug,        \* suggestion rows: [id, item, label, outcome]
    mode, mem,  \* one failure_mode's <<max, total>> of purity, and mode_membership
    events,     \* label_event rows: [n, item, old, new]
    tomb,       \* label_event_orphan.first_orphaned_at
    drain,      \* drain3_state: the messages learnt and state_version, 0 for no row
    mirror,     \* log_template patterns
    lock,       \* who holds pg_advisory_xact_lock of the project
    req, pc, work,  \* each worker's request, place in it and local variables
    writes,     \* rows each open transaction has written and still locks
    reaper, day,    \* the nightly timer thread, and the day
    requests, faults, rowsMade, eventsMade,
    alone,      \* history: no other request overlapped this one
    missed      \* history: first pass of the unbroken run of passes that found the item gone

tables == <<item, sig, sug, mode, mem, events, tomb, drain, mirror>>
counters == <<requests, faults, rowsMade, eventsMade>>
vars == <<tables, lock, req, pc, work, writes, reaper, day, counters, alone, missed>>

Row(t, k) == <<t, k>>
Present == {i \in Items : item[i] # NoItem}
Signed == {i \in Items : sig[i] # NoSig}

-----------------------------------------------------------------------------
\* DrainManager: a template is the set of messages it generalizes.
Template(known, i) == {j \in known \cup {i} : Shape[j] = Shape[i]}

\* cluster_mirror_rows
MirrorRows(known) == {Template(known, i) : i \in known}

\* rebuild_from_templates: the patterns replayed into an empty tree
Rebuilt(patterns) == UNION patterns

\* _process_item: the k-th item is mined after the ones before it
Signature(known, batch, k) == Template(known \cup {batch[j] : j \in 1 .. k - 1}, batch[k])

\* update_purity: labelled members, and those of the commonest label.  "ti" is a label too.
Purity(items, members) ==
    LET lab(l) == {i \in members : items[i] # NoItem /\ items[i].label = l}
        used == {items[i].label : i \in {j \in members : items[j] # NoItem}}
        most == CHOOSE n \in 0 .. Cardinality(members) :
                    /\ \A l \in used : Cardinality(lab(l)) <= n
                    /\ n = 0 \/ \E l \in used : Cardinality(lab(l)) = n
    IN <<most, Cardinality({i \in members : items[i] # NoItem})>>

-----------------------------------------------------------------------------
Asks ==
    [kind : {"index"}, batch : Batches, label : PayloadLabels]
    \cup [kind : {"delete"}]
    \cup [kind : {"item_remove"}, items : {{i} : i \in Items}]
    \cup [kind : {"launch_remove"}, items : {Items}]
    \cup [kind : {"defect_update"}, item : Items, label : Labels]
    \cup [kind : {"analyze"}, item : Items, verdict : Verdicts]

FirstStep(kind) ==
    CASE kind = "index" -> "lock" [] kind = "defect_update" -> "read"
      [] kind = "analyze" -> "decide" [] OTHER -> "purge"

\* A worker takes a message: the retry of a failed one is another message of the same kind.
Start(w) ==
    /\ pc[w] = "idle" /\ requests < MaxRequests
    /\ \E r \in Asks :
        /\ req' = [req EXCEPT ![w] = r]
        /\ pc' = [pc EXCEPT ![w] = FirstStep(r.kind)]
    /\ requests' = requests + 1
    /\ alone' = [v \in Workers |->
          v = w /\ req'[w].kind = "defect_update" /\ \A u \in Workers \ {w} : pc[u] = "idle"]
    /\ UNCHANGED <<tables, lock, work, writes, reaper, day, faults, rowsMade, eventsMade, missed>>

\* The request is over, or raises: its transaction, lock and locals are gone.
Ends(w) ==
    /\ pc' = [pc EXCEPT ![w] = "idle"] /\ req' = [req EXCEPT ![w] = Idle]
    /\ work' = [work EXCEPT ![w] = NoWork] /\ writes' = [writes EXCEPT ![w] = {}]
    /\ lock' = IF lock = w THEN Nobody ELSE lock
    /\ UNCHANGED <<reaper, day, alone, missed>>

Moves(w, to) ==
    /\ pc' = [pc EXCEPT ![w] = to]
    /\ UNCHANGED <<req, lock, reaper, day, alone, missed>>

\* A database error, a cancelled statement or a cancellation point ends the handler.
Fail(w) ==
    /\ pc[w] # "idle" /\ faults < MaxFaults
    /\ faults' = faults + 1
    /\ Ends(w)
    /\ UNCHANGED <<tables, requests, rowsMade, eventsMade>>

-----------------------------------------------------------------------------
\* Row locks.  An upsert takes its key whether or not a row is there; a deletion takes the
\* rows its statement's snapshot shows.
NextRow(w) == LET b == req[w].batch
                  n == Len(b)
                  k == work[w].at + 1
              IN IF k <= n THEN Row("item", b[k]) ELSE Row("sig", b[k - n])

\* What a request's deletions select: by id, or by a subquery over the items there now.
Selected(w) ==
    CASE req[w].kind = "delete" -> Items
      [] req[w].kind = "item_remove" -> req[w].items
      [] OTHER -> req[w].items \cap Present

Doomed(w) ==
    {Row("sig", i) : i \in Selected(w) \cap Signed}
    \cup {Row("mem", i) : i \in Selected(w) \cap mem}
    \cup (IF req[w].kind = "delete"
          THEN IF drain.ver > 0 THEN {Row("drain", 0)} ELSE {}
          ELSE {Row("sug", s.id) : s \in {r \in sug : r.item \in Selected(w)}})

Wanted(w) ==
    CASE pc[w] = "upsert" -> {NextRow(w)}
      [] pc[w] = "purge" -> Doomed(w)
      [] pc[w] = "erase" -> {Row("item", i) : i \in Selected(w) \cap Present}
      [] pc[w] \in {"relabel", "auto"} -> {Row("item", i) : i \in {req[w].item} \cap Present}
      [] pc[w] = "save" -> {Row("drain", 0)}
      [] pc[w] = "decide" -> {Row("sig", i) : i \in {req[w].item} \ Signed}
      [] OTHER -> {}

WaitsFor(w, v) == v # w /\ Wanted(w) \cap writes[v] # {}

Granted(w) == \A v \in Workers : ~ WaitsFor(w, v)

\* PostgreSQL's deadlock detector aborts one of two transactions that wait for each other.
Victim(w) ==
    /\ \E v \in Workers : WaitsFor(w, v) /\ WaitsFor(v, w)
    /\ Ends(w)
    /\ UNCHANGED <<tables, counters>>

-----------------------------------------------------------------------------
\* index: _index_project
Lock(w) ==
    /\ pc[w] = "lock" /\ lock = Nobody
    /\ lock' = w /\ pc' = [pc EXCEPT ![w] = "load"]
    /\ UNCHANGED <<tables, req, work, writes, reaper, day, counters, alone, missed>>

\* The lock's connection dies: the lock is free, its holder learns of it when it commits.
LockLost(w) ==
    /\ lock = w /\ faults < MaxFaults
    /\ lock' = Nobody /\ faults' = faults + 1
    /\ UNCHANGED <<tables, req, pc, work, writes, reaper, day, requests, rowsMade, eventsMade, alone, missed>>

\* load_manager: the blob, or a tree rebuilt from the mirror when there is none or it does
\* not deserialize
Load(w) ==
    /\ pc[w] = "load"
    /\ \E readable \in BOOLEAN :
        /\ readable \/ faults < MaxFaults
        /\ faults' = IF readable THEN faults ELSE faults + 1
        /\ work' = [work EXCEPT ![w] =
              [@ EXCEPT !.ver = drain.ver, !.trusted = readable,
                        !.known = IF readable /\ drain.ver > 0 THEN drain.known ELSE Rebuilt(mirror)]]
    /\ Moves(w, "save")
    /\ UNCHANGED <<tables, writes, requests, rowsMade, eventsMade>>

Learnt(w) == work[w].known \cup {req[w].batch[k] : k \in DOMAIN req[w].batch}

\* Mutant of CasAllows: the version is not compared.
CasNever(w) == TRUE

\* save(): insert version 1, or update the row if its version is the one loaded
CasAllows(w) == drain.ver = 0 \/ drain.ver = work[w].ver

\* save_manager, its first transaction.  A lost race reloads and mines again.
Save(w) ==
    /\ pc[w] = "save" /\ Granted(w)
    /\ IF CasAllows(w)
       THEN /\ drain' = [known |-> Learnt(w), ver |-> drain.ver + 1]
            /\ Moves(w, "mirror") /\ UNCHANGED <<work, writes>>
       ELSE /\ drain' = drain
            /\ IF work[w].tries + 1 < CasRetries
               THEN /\ work' = [work EXCEPT ![w] = [@ EXCEPT !.tries = @ + 1]]
                    /\ Moves(w, "load") /\ UNCHANGED writes
               ELSE Ends(w)
    /\ UNCHANGED <<item, sig, sug, mode, mem, events, tomb, mirror, counters>>

\* save_manager's upsert_templates, and the commit that releases the lock
Mirror(w) ==
    /\ pc[w] = "mirror"
    /\ mirror' = mirror \cup MirrorRows(Learnt(w))
    /\ IF lock = w
       THEN /\ lock' = Nobody /\ pc' = [pc EXCEPT ![w] = "upsert"]
            /\ UNCHANGED <<req, work, writes, reaper, day, alone, missed>>
       ELSE Ends(w)
    /\ UNCHANGED <<item, sig, sug, mode, mem, events, tomb, drain, counters>>

Indexed(w) == {req[w].batch[k] : k \in DOMAIN req[w].batch}

\* What the batch's transaction leaves: rows and signatures, together.
Commit(w) ==
    LET b == req[w].batch IN
    /\ item' = [i \in Items |-> IF i \in Indexed(w) THEN [label |-> req[w].label, auto |-> FALSE] ELSE item[i]]
    /\ sig' = [i \in Items |->
          IF i \in Indexed(w)
          THEN Signature(work[w].known, b, CHOOSE k \in DOMAIN b : b[k] = i) ELSE sig[i]]
    /\ Ends(w)
    /\ UNCHANGED <<sug, mode, mem, events, tomb, drain, mirror, counters>>

\* Mutant of Upsert: upsert_items not enlisted in the caller's transaction.
UpsertApart(w) ==
    /\ pc[w] = "upsert" /\ Granted(w)
    /\ IF work[w].at + 1 < 2 * Len(req[w].batch)
       THEN /\ work' = [work EXCEPT ![w] = [@ EXCEPT !.at = @ + 1]]
            /\ item' = IF NextRow(w)[1] = "item"
                       THEN [item EXCEPT ![NextRow(w)[2]] = [label |-> req[w].label, auto |-> FALSE]]
                       ELSE item
            /\ UNCHANGED <<sig, sug, mode, mem, events, tomb, drain, mirror,
                           lock, req, pc, writes, reaper, day, counters, alone, missed>>
       ELSE Commit(w)

\* One statement of the write: items in the batch's order, then signatures in that order.
Upsert(w) ==
    /\ pc[w] = "upsert" /\ Granted(w)
    /\ IF work[w].at + 1 < 2 * Len(req[w].batch)
       THEN /\ writes' = [writes EXCEPT ![w] = @ \cup {NextRow(w)}]
            /\ work' = [work EXCEPT ![w] = [@ EXCEPT !.at = @ + 1]]
            /\ UNCHANGED <<tables, lock, req, pc, reaper, day, counters, alone, missed>>
       ELSE Commit(w)

-----------------------------------------------------------------------------
\* delete_project, delete_items, delete_launches and delete_by_time_range: _purge_items and
\* its like first ...
Purge(w) ==
    /\ pc[w] = "purge" /\ Granted(w)
    /\ writes' = [writes EXCEPT ![w] = Doomed(w)]
    /\ Moves(w, "erase")
    /\ UNCHANGED <<tables, work, counters>>

\* ... then the items, and the commit.  label_event is left alone by all of them.
Erase(w) ==
    /\ pc[w] = "erase" /\ Granted(w)
    /\ item' = [i \in Items |-> IF i \in Selected(w) THEN NoItem ELSE item[i]]
    /\ sig' = [i \in Items |-> IF Row("sig", i) \in writes[w] THEN NoSig ELSE sig[i]]
    /\ IF req[w].kind = "delete"
       THEN /\ mode' = NoMode /\ mem' = {} /\ sug' = {} /\ mirror' = {}
            /\ drain' = [known |-> {}, ver |-> 0]
       ELSE /\ mem' = {i \in mem : Row("mem", i) \notin writes[w]}
            /\ sug' = {r \in sug : Row("sug", r.id) \notin writes[w]}
            /\ UNCHANGED <<mode, mirror, drain>>
    /\ LET freed == [work EXCEPT ![w] = NoWork] IN
        /\ pc' = [pc EXCEPT ![w] = "idle"] /\ req' = [req EXCEPT ![w] = Idle]
        /\ writes' = [writes EXCEPT ![w] = {}]
        \* history: a miner loaded before the deletion is not held to what it finds after it
        /\ work' = IF req[w].kind = "delete"
                   THEN [v \in Workers |-> [freed[v] EXCEPT !.trusted = FALSE]] ELSE freed
    /\ UNCHANGED <<events, tomb, lock, reaper, day, counters, alone, missed>>

-----------------------------------------------------------------------------
\* Mutant of Read: an update that changes nothing is taken for done.
ReadIfNew(w) ==
    /\ pc[w] = "read"
    /\ IF item[req[w].item] = NoItem \/ item[req[w].item].label = req[w].label
       THEN Ends(w)
       ELSE /\ work' = [work EXCEPT ![w] = [@ EXCEPT !.old = item[req[w].item].label]]
            /\ Moves(w, "relabel") /\ UNCHANGED writes
    /\ UNCHANGED <<tables, counters>>

\* defect_update, item by item: get_items_labels ...
Read(w) ==
    /\ pc[w] = "read"
    /\ IF item[req[w].item] = NoItem
       THEN Ends(w)
       ELSE /\ work' = [work EXCEPT ![w] = [@ EXCEPT !.old = item[req[w].item].label]]
            /\ Moves(w, "relabel") /\ UNCHANGED writes
    /\ UNCHANGED <<tables, counters>>

\* update_issue_type: an UPDATE, so nothing where the item is gone
Relabelled(i, label, auto) ==
    [item EXCEPT ![i] = IF @ = NoItem THEN @ ELSE [label |-> label, auto |-> auto]]

Relabel(w) ==
    /\ pc[w] = "relabel" /\ Granted(w)
    /\ item' = Relabelled(req[w].item, req[w].label, FALSE)
    /\ Moves(w, "append")
    /\ UNCHANGED <<sig, sug, mode, mem, events, tomb, drain, mirror, work, writes, counters>>

\* append_event
Append_(w) ==
    /\ pc[w] = "append"
    /\ events' = events \cup {[n |-> eventsMade + 1, item |-> req[w].item,
                              old |-> work[w].old, new |-> req[w].label]}
    /\ eventsMade' = eventsMade + 1
    /\ Moves(w, "member")
    /\ UNCHANGED <<item, sig, sug, mode, mem, tomb, drain, mirror, work, writes,
                   requests, faults, rowsMade>>

\* member_mode_id
Member(w) ==
    /\ pc[w] = "member"
    /\ Moves(w, IF req[w].item \in mem THEN "count" ELSE "outcome")
    /\ UNCHANGED <<tables, work, writes, counters>>

\* update_purity: the counts are read by one statement and written by a later one; a mode
\* deleted meanwhile makes require_row raise
Count(w) ==
    /\ pc[w] = "count"
    /\ IF mode = NoMode
       THEN Ends(w)
       ELSE /\ work' = [work EXCEPT ![w] = [@ EXCEPT !.count = Purity(item, mem)]]
            /\ Moves(w, "purity") /\ UNCHANGED writes
    /\ UNCHANGED <<tables, counters>>

WritePurity(w) ==
    /\ pc[w] = "purity"
    /\ mode' = IF mode = NoMode THEN mode ELSE work[w].count
    /\ Moves(w, "outcome")
    /\ UNCHANGED <<item, sig, sug, mem, events, tomb, drain, mirror, work, writes, counters>>

\* record_feedback_outcome: every pending row of the item, and the last write
Outcome(w) ==
    /\ pc[w] = "outcome"
    /\ sug' = {IF r.item = req[w].item /\ r.outcome = "pending"
               THEN [r EXCEPT !.outcome = IF r.label = req[w].label THEN "accepted" ELSE "corrected"]
               ELSE r : r \in sug}
    /\ Ends(w)
    /\ UNCHANGED <<item, sig, mode, mem, events, tomb, drain, mirror, counters>>

-----------------------------------------------------------------------------
\* analyze: _resolve_identity (a never-indexed item's signature is computed and kept) and
\* _decide, whose answer is the request's; a matched seed mode is materialized.
Decide(w) ==
    LET i == req[w].item IN
    /\ pc[w] = "decide" /\ Granted(w)
    /\ sig' = [sig EXCEPT ![i] = IF @ = NoSig THEN Template(drain.known, i) ELSE @]
    /\ mode' = IF req[w].verdict.matched /\ mode = NoMode THEN <<0, 0>> ELSE mode
    /\ Moves(w, "suggest")
    /\ UNCHANGED <<item, sug, mem, events, tomb, drain, mirror, work, writes, counters>>

\* write_suggestion
Suggest(w) ==
    /\ pc[w] = "suggest" /\ rowsMade < MaxRows
    /\ rowsMade' = rowsMade + 1
    /\ sug' = sug \cup {[id |-> rowsMade', item |-> req[w].item, label |-> req[w].verdict.label,
                         outcome |-> "pending"]}
    /\ IF req[w].verdict.auto THEN Moves(w, "auto") ELSE Moves(w, "join")
    /\ UNCHANGED <<item, sig, mode, mem, events, tomb, drain, mirror, work, writes,
                   requests, faults, eventsMade>>

\* update_issue_type with is_auto
AutoLabel(w) ==
    /\ pc[w] = "auto" /\ Granted(w)
    /\ item' = Relabelled(req[w].item, req[w].verdict.label, TRUE)
    /\ Moves(w, "join")
    /\ UNCHANGED <<sig, sug, mode, mem, events, tomb, drain, mirror, work, writes, counters>>

\* _record_membership: a matched mode is joined; the foreign key refuses one deleted
\* meanwhile, and that is swallowed
Joins(w) == req[w].verdict.matched /\ mode # NoMode

\* add_members
Join(w) ==
    /\ pc[w] = "join"
    /\ mem' = IF Joins(w) THEN mem \cup {req[w].item} ELSE mem
    /\ Ends(w)
    /\ UNCHANGED <<item, sig, sug, mode, events, tomb, drain, mirror, counters>>

-----------------------------------------------------------------------------
\* reap_orphan_label_events, one pass a night
Orphans == {e.item : e \in events} \ Present

Reaped == UNCHANGED <<item, sig, sug, mode, mem, drain, mirror, lock, req, pc, work, writes, counters, alone>>

\* mark and unmark: an item gone for the first time gets a tombstone, one that is back loses it
Mark ==
    /\ reaper = "idle" /\ day <= MaxDay /\ reaper' = "sweep"
    /\ tomb' = [i \in Items |-> IF i \in Present THEN NoDay
                               ELSE IF i \in Orphans /\ tomb[i] = NoDay THEN day ELSE tomb[i]]
    /\ missed' = [i \in Items |-> IF i \in Present THEN NoDay
                                 ELSE IF missed[i] = NoDay THEN day ELSE missed[i]]
    /\ UNCHANGED <<events, day>> /\ Reaped

\* Mutant of Expired: the sweep trusts the tombstones.
ExpiredUnseen == {i \in Items : Grace > 0 /\ tomb[i] # NoDay /\ tomb[i] < day - Grace}

\* The sweep looks again whether the item is there.
Expired == {i \in Items \ Present : Grace > 0 /\ tomb[i] # NoDay /\ tomb[i] < day - Grace}

\* sweep, with the tombstones of what it purged; the timer then sleeps until the next night
Sweep ==
    /\ reaper = "sweep" /\ reaper' = "idle" /\ day' = day + 1
    /\ events' = {e \in events : e.item \notin Expired}
    /\ tomb' = [i \in Items |-> IF i \in Expired THEN NoDay ELSE tomb[i]]
    /\ UNCHANGED missed /\ Reaped

-----------------------------------------------------------------------------
\* A project with one indexed, labelled and matched item, or a new one.
Init ==
    /\ \E warm \in {{}} \cup {{i} : i \in Items} :
        /\ item = [i \in Items |-> IF i \in warm THEN [label |-> "pb", auto |-> FALSE] ELSE NoItem]
        /\ sig = [i \in Items |-> IF i \in warm THEN {i} ELSE NoSig]
        /\ sug = {}
        /\ mem = warm /\ mode = IF warm = {} THEN NoMode ELSE <<1, 1>>
        /\ events = {[n |-> 1, item |-> i, old |-> "ti", new |-> "pb"] : i \in warm}
        /\ eventsMade = Cardinality(warm)
        /\ drain = [known |-> warm, ver |-> Cardinality(warm)]
        /\ mirror = {{i} : i \in warm}
    /\ tomb = [i \in Items |-> NoDay] /\ missed = [i \in Items |-> NoDay]
    /\ lock = Nobody /\ writes = [w \in Workers |-> {}]
    /\ req = [w \in Workers |-> Idle] /\ pc = [w \in Workers |-> "idle"]
    /\ work = [w \in Workers |-> NoWork]
    /\ reaper = "idle" /\ day = 0
    /\ requests = 0 /\ faults = 0 /\ rowsMade = 0
    /\ alone = [w \in Workers |-> FALSE]

Request(w) ==
    \/ Start(w) \/ Fail(w) \/ Victim(w)
    \/ Lock(w) \/ LockLost(w) \/ Load(w) \/ Save(w) \/ Mirror(w) \/ Upsert(w)
    \/ Purge(w) \/ Erase(w)
    \/ Read(w) \/ Relabel(w) \/ Append_(w) \/ Member(w) \/ Count(w) \/ WritePurity(w) \/ Outcome(w)
    \/ Decide(w) \/ Suggest(w) \/ AutoLabel(w) \/ Join(w)

Next == (\E w \in Workers : Request(w)) \/ Mark \/ Sweep

Spec == Init /\ [][Next]_vars

-----------------------------------------------------------------------------
\* What a reader sees of an item.
Shelf == [i \in Items |-> IF item[i] = NoItem THEN "absent"
                          ELSE IF sig[i] = NoSig THEN "torn" ELSE "whole"]

C == INSTANCE Catalogue WITH shelf <- Shelf

\* Readers see an item with its signature or not at all, and a batch at once, whatever
\* statements of other handlers run between those of the index write and of a deletion, and
\* whichever of them fails or is a deadlock victim (ingest.py:177-192, retrieval.py:200-240).
IsCatalogue == C!Spec

\* A successful save forgets no message the state it replaces had learnt, also when the
\* advisory lock was lost while mining: then the version check is all there is
\* (drain3_state.py:20-84).  A save whose load found an unreadable blob, or that a project
\* deletion overtook, is not held to it.
MinedKept ==
    [][\A w \in Workers : pc[w] = "save" /\ pc'[w] = "mirror" /\ work[w].trusted
         => drain.known \subseteq drain'.known]_vars

\* The reaper purges an item's label events only if the item is gone at that statement, and
\* every pass since a day more than the grace period ago found it gone: a reindex, which
\* deletes and rebuilds the item, never costs its learning history
\* (retrieval.py:363-447).
HistoryKept ==
    [][\A e \in events \ events' :
         e.item \notin Present /\ missed[e.item] # NoDay /\ missed[e.item] < day - Grace]_vars

Newest(evs, i) == CHOOSE e \in evs : e.item = i /\ \A f \in evs : f.item = i => f.n <= e.n

Coherent(i, label) ==
    /\ item[i] = [label |-> label, auto |-> FALSE]
    /\ \E e \in events : e.item = i
    /\ Newest(events, i).new = label
    /\ i \in mem => mode = Purity(item, mem)
    /\ \A r \in sug : r.item = i => r.outcome # "pending"

\* "A partial failure re-converges on the next defect_update" (handlers.py:476-481): one that
\* no other request overlaps leaves label, log, purity and suggestions agreeing, whatever
\* earlier updates of any worker left half done.
Reconverges ==
    [][\A w \in Workers, i \in Items, l \in Labels :
         /\ req[w] = [kind |-> "defect_update", item |-> i, label |-> l]
         /\ pc'[w] = "idle" /\ faults' = faults /\ alone[w] /\ item[i] # NoItem
         => Coherent(i, l)']_vars
=============================================================================
