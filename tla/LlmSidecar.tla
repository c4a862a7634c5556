----------------------------- MODULE LlmSidecar -----------------------------
(***************************************************************************)
(* llm/manager.py, queue.py, breaker.py, engine.py, wiring.py, apply.py:   *)
(* the optional LLM sidecar of one project, for one failed item.  Routes   *)
(* write suggestion rows and enqueue jobs; one worker thread takes a job,  *)
(* reads its facts, asks the model through cache and breaker, and writes   *)
(* the answer to a suggestion row, which by then need not be the newest.   *)
(***************************************************************************)
EXTENDS LlmRoles, FiniteSets

CONSTANTS
    Deployments,    \* the sets of roles whose ANALYZER_LLM_<ROLE> flags are on together
    QueueMax,       \* ANALYZER_LLM_QUEUE_MAX
    FailThreshold,  \* CircuitBreaker's fail_threshold
    BaseCooldown,   \* base_cooldown_s and max_cooldown_s, in ticks
    MaxCooldown,
    Candidates,     \* the judge's candidates, best first
    Comparisons,    \* what PgLlmComparisonSource may report
    MaxRows,        \* bound: suggestion rows the routes write
    MaxChanges      \* bound: deletions, database errors, nights, TTLs, twins and stops in a behaviour

ASSUME SidecarAssumption ==
    /\ Deployments \subseteq SUBSET Roles
    /\ QueueMax \in Nat \ {0} /\ FailThreshold \in Nat \ {0}
    /\ BaseCooldown \in Nat \ {0} /\ MaxCooldown \in Nat /\ BaseCooldown <= MaxCooldown

VARIABLES
    rows,       \* the item's suggestion rows, oldest first
    signed,     \* the items that have a signature: 0 is the item, the rest candidates
    cold,       \* is_cold
    roleState,  \* the roles whose flag is on, and is_enabled of the cold-start role
    pending,    \* jobs a route still has to enqueue
    queue,      \* _heap, oldest first
    available,  \* _available
    breaker,    \* [state, fails, cooldown, waited]
    cache,      \* llm_cache rows: [key, kind, out, age]; age 1 is past negative_ttl_days, 2 past ttl_days
    quoted,     \* the log quotes in the item's llm_event rows
    pc, job, inp, tries, out,   \* the worker and the call it makes
    outcome,    \* "ok", or "failed" for every way a run ends without an answer
    stopping,   \* _stopping
    changes     \* how many of them did

workerVars == <<pc, job, inp, tries, outcome, out>>
vars == <<rows, signed, cold, roleState, pending, queue, available, breaker, cache, quoted,
          pc, job, inp, tries, outcome, out, stopping, changes>>

NoJob == [role |-> "no", sid |-> 0]
NoInput == [key |-> <<>>, sid |-> 0, cands |-> <<>>]

(* probe, once, before start: what a later server would answer is not      *)
(* asked, and a warmup that fails changes nothing.                         *)
Probe(reachable, present) == reachable /\ present

Init ==
    /\ rows = <<>> /\ cold = TRUE
    /\ \E on \in Deployments : roleState = [on |-> on, coldstart |-> TRUE]
    /\ signed = {0} \cup {Candidates[i] : i \in DOMAIN Candidates}
    /\ pending = <<>> /\ queue = <<>>
    /\ \E reachable, present \in BOOLEAN : available = Probe(reachable, present)
    /\ breaker = [state |-> "closed", fails |-> 0, cooldown |-> BaseCooldown, waited |-> 0]
    /\ cache = {} /\ quoted = {}
    /\ pc = "idle" /\ job = NoJob /\ inp = NoInput /\ tries = 0
    /\ outcome = "no" /\ out = NoOutput
    /\ stopping = FALSE /\ changes = 0

-----------------------------------------------------------------------------
(* The job queue.                                                          *)

WithoutIndex(s, i) == SubSeq(s, 1, i - 1) \o SubSeq(s, i + 1, Len(s))

(* The index of the oldest of the jobs whose priority is p. *)
OldestOf(s, p) ==
    CHOOSE i \in DOMAIN s : /\ Priority(s[i].role) = p
                            /\ \A j \in DOMAIN s : Priority(s[j].role) = p => i <= j

Urgencies(s) == {Priority(s[i].role) : i \in DOMAIN s}
MostUrgent(s) == CHOOSE p \in Urgencies(s) : \A o \in Urgencies(s) : p <= o
LeastUrgent(s) == CHOOSE p \in Urgencies(s) : \A o \in Urgencies(s) : o <= p

(* Mutant of Enqueued: the oldest job makes room, however urgent. *)
EnqueuedOverOldest(s, j) == Append(IF Len(s) >= QueueMax THEN Tail(s) ELSE s, j)

(* enqueue: a full queue drops the newcomer when it is less urgent than    *)
(* every job, or else the oldest of its least urgent jobs.                 *)
Enqueued(s, j) ==
    IF Len(s) < QueueMax THEN Append(s, j)
    ELSE IF Priority(j.role) > LeastUrgent(s) THEN s
    ELSE Append(WithoutIndex(s, OldestOf(s, LeastUrgent(s))), j)

(* heappop *)
NextJob(s) == OldestOf(s, MostUrgent(s))

-----------------------------------------------------------------------------
(* The circuit breaker.                                                    *)

Elapsed(b) == b.waited >= b.cooldown

(* allow *)
Allows(b) == b.state # "open" \/ Elapsed(b)
Allowed(b) == IF b.state = "open" THEN [b EXCEPT !.state = "half_open"] ELSE b

(* record_success, record_response *)
Healed(b) == [state |-> "closed", fails |-> 0, cooldown |-> BaseCooldown, waited |-> 0]

(* record_failure *)
Failed(b) ==
    IF b.state = "half_open"
    THEN [state |-> "open", fails |-> b.fails, waited |-> 0,
          cooldown |-> IF 2 * b.cooldown <= MaxCooldown THEN 2 * b.cooldown ELSE MaxCooldown]
    ELSE IF b.state = "closed" /\ b.fails + 1 >= FailThreshold
    THEN [state |-> "open", fails |-> b.fails + 1, cooldown |-> BaseCooldown, waited |-> 0]
    ELSE [b EXCEPT !.fails = @ + 1]

-----------------------------------------------------------------------------
(* The routes.                                                             *)

(* The judge's verdict of a row: none yet, or the item it names. *)
NotJudged == <<>>

Row(label, method) ==
    [label |-> label, method |-> method, by |-> "no", prose |-> "no", ends |-> "whole",
     judge |-> NotJudged]

(* enqueue of a role that is off does nothing.  Only the abstain           *)
(* explainer's job names sid, the row the route wrote.                     *)
Job(role, sid) ==
    IF role \in roleState.on
    THEN <<[role |-> role, sid |-> IF role = "abstain_explainer" THEN sid ELSE 0]>>
    ELSE <<>>

(* _enqueue_llm's jobs for a decision, in order. *)
JobsFor(decision, sid) ==
    Job("extractor", sid) \o
    CASE decision = "abstain" -> Job("abstain_explainer", sid) \o Job("coldstart", sid)
      [] decision = "inherit" -> <<>>
      [] decision = "auto"    -> Job("explainer", sid)
      [] OTHER                -> Job("explainer", sid) \o Job("judge", sid)

(* A route decides on the item and commits its suggestion row. *)
Decides(decision) ==
    /\ pending = <<>> /\ ~stopping /\ Len(rows) < MaxRows
    /\ rows' = Append(rows, Row(IF decision = "abstain" THEN "ti" ELSE "pb", "classical"))
    /\ pending' = JobsFor(decision, Len(rows) + 1)
    /\ UNCHANGED <<signed, cold, roleState, queue, available, breaker, cache, quoted,
                   workerVars, stopping, changes>>

(* One enqueue of the route; the worker may pop between two of them. *)
Enqueue ==
    /\ pending # <<>>
    /\ queue' = Enqueued(queue, Head(pending))
    /\ pending' = Tail(pending)
    /\ UNCHANGED <<rows, signed, cold, roleState, available, breaker, cache, quoted,
                   workerVars, stopping, changes>>

(* What other routes do meanwhile: an item goes, the project gets labels.  *)
Forget ==
    /\ changes < MaxChanges /\ changes' = changes + 1
    /\ \E i \in signed : signed' = signed \ {i}
    /\ UNCHANGED <<rows, cold, roleState, pending, queue, available, breaker, cache, quoted,
                   workerVars, stopping>>

WarmsUp ==
    /\ changes < MaxChanges /\ changes' = changes + 1
    /\ cold /\ cold' = FALSE
    /\ UNCHANGED <<rows, signed, roleState, pending, queue, available, breaker, cache, quoted,
                   workerVars, stopping>>

(* LlmEvalJob.run: a role is only ever switched off. *)
Evaluate ==
    /\ changes < MaxChanges /\ changes' = changes + 1
    /\ roleState.coldstart
    /\ \E c \in Comparisons : Disables(c)
    /\ roleState' = [roleState EXCEPT !.coldstart = FALSE]
    /\ UNCHANGED <<rows, signed, cold, pending, queue, available, breaker, cache, quoted,
                   workerVars, stopping>>

(* Time: the breaker waits, and the cache ages past its windows. *)
Wait ==
    /\ breaker.state = "open" /\ ~Elapsed(breaker)
    /\ breaker' = [breaker EXCEPT !.waited = @ + 1]
    /\ UNCHANGED <<rows, signed, cold, roleState, pending, queue, available, cache, quoted,
                   workerVars, stopping, changes>>

Age ==
    /\ changes < MaxChanges /\ changes' = changes + 1
    /\ cache # {}
    /\ cache' = {[e EXCEPT !.age = IF @ < 2 THEN @ + 1 ELSE 2] : e \in cache}
    /\ UNCHANGED <<rows, signed, cold, roleState, pending, queue, available, breaker, quoted,
                   workerVars, stopping>>

-----------------------------------------------------------------------------
(* The worker.                                                             *)

Rest == pc' = "idle" /\ job' = NoJob /\ inp' = NoInput /\ tries' = 0
        /\ outcome' = "no" /\ out' = NoOutput

(* _pop_blocking: a stopping queue hands out nothing, whatever it holds. *)
Pop ==
    /\ pc = "idle" /\ queue # <<>> /\ ~stopping
    /\ job' = queue[NextJob(queue)]
    /\ queue' = WithoutIndex(queue, NextJob(queue))
    /\ pc' = "load"
    /\ UNCHANGED <<rows, signed, cold, roleState, pending, available, breaker, cache, quoted,
                   inp, tries, outcome, out, stopping, changes>>

(* PgLlmFactLoader: the candidates that still have facts, in order. *)
WithFacts(items) == SelectSeq(Candidates, LAMBDA c : c \in items)
Loaded == WithFacts(signed)

(* hash_pool: an abstention with no labelled candidate and no labelled     *)
(* item of the same hash is not explained.                                 *)
HasConflict(labels, pool) == labels \/ pool

(* Whether the loader returns an input rather than None. *)
HasInput(labels, pool) ==
    /\ 0 \in signed
    /\ CASE job.role = "explainer" -> rows # <<>> /\ rows[Len(rows)].label # "ti"
         [] job.role = "coldstart" -> cold
         [] job.role = "judge" -> Len(Loaded) >= 2
         [] job.role = "abstain_explainer" -> HasConflict(labels, pool)
         [] OTHER -> TRUE

(* is_enabled: a role is on until a row of llm_role_state disables it, and *)
(* the evaluation compares no other role than the cold-start one.          *)
IsEnabled == job.role = "coldstart" => roleState.coldstart

(* Mutant of Target: every explanation goes to the newest row. *)
NewestRow == Len(rows)

(* The row an answer is for: the explainer's is the newest, the abstain    *)
(* explainer's the one its job names.                                      *)
Target == IF job.role = "explainer" THEN Len(rows) ELSE job.sid

(* _process up to the engine. *)
Load ==
    /\ pc = "load"
    /\ \E labels, pool \in BOOLEAN :
          IF available /\ IsEnabled /\ HasInput(labels, pool)
          THEN /\ inp' = [ key |-> ContentKey(job.role, 0, Loaded),
                           sid |-> Target,
                           cands |-> IF job.role = "judge" THEN Loaded ELSE <<>> ]
               /\ pc' = "ask"
               /\ UNCHANGED <<job, tries, outcome, out>>
          ELSE Rest
    /\ UNCHANGED <<rows, signed, cold, roleState, pending, queue, available, breaker, cache, quoted,
                   stopping, changes>>

(* get_fresh under ttl_days, and under negative_ttl_days for a marker. *)
Fresh == {e \in cache : e.key = inp.key /\ e.age < (IF e.kind = "negative" THEN 1 ELSE 2)}

(* LlmEngine.run up to the first call. *)
Ask ==
    /\ pc = "ask"
    /\ IF Fresh # {}
       THEN LET e == CHOOSE e \in Fresh : TRUE
            IN /\ outcome' = IF e.kind = "negative" THEN "failed" ELSE "ok"
               /\ out' = e.out /\ UNCHANGED <<breaker, tries>>
               /\ pc' = "record"
       ELSE IF ~Allows(breaker)
       THEN outcome' = "failed" /\ pc' = "record" /\ UNCHANGED <<breaker, tries, out>>
       ELSE breaker' = Allowed(breaker) /\ tries' = 1 /\ pc' = "call" /\ UNCHANGED <<outcome, out>>
    /\ UNCHANGED <<rows, signed, cold, roleState, pending, queue, available, cache, quoted,
                   job, inp, stopping, changes>>

(* Mutant of AfterFailure: a call that failed in transport is repeated. *)
RetriedLikeBadAnswer == IF tries = 3 THEN <<"put", "ok", 0>>
                        ELSE IF tries = 1 THEN <<"call", "no", 2>> ELSE <<"record", "failed", 0>>

(* A transport failure ends the run; one of the longer retry of a cut      *)
(* answer leaves the cut answer.                                           *)
AfterFailure == IF tries = 3 THEN <<"put", "ok", 0>> ELSE <<"record", "failed", 0>>

(* An answer the schema or the role refuses is asked for once more. *)
AfterBadAnswer(kind) ==
    IF tries = 3 THEN <<"put", "ok", 0>>
    ELSE IF tries = 1 THEN <<"call", "no", 2>>
    ELSE IF kind = "validation_fail" /\ RemembersFailure(job.role) THEN <<"put", "failed", 0>>
    ELSE <<"record", "failed", 0>>

Goes(t) == pc' = t[1] /\ outcome' = t[2] /\ tries' = t[3]

(* OllamaClient.chat: what the request may come to.  All but a body is a   *)
(* transport error, and a body with tool calls or without JSON of the      *)
(* schema is no answer.                                                    *)
Replies == {"timeout", "http_error", "malformed", "no_answer", "answer"}
TransportError(r) == r \in {"timeout", "http_error", "malformed"}

(* A cut answer is asked for again with twice the budget; when that one is *)
(* cut too, or none comes, the cut is marked.                              *)
Resolved(o, isCut) == IF isCut /\ tries = 3 THEN MarkTruncated(o) ELSE o
KeptCut == out' = IF tries = 3 THEN MarkTruncated(out) ELSE out

(* _attempt, and what run and _resolve_truncation make of it. *)
Call ==
    /\ pc = "call"
    /\ \E r \in Replies :
          IF TransportError(r)
          THEN breaker' = Failed(breaker) /\ Goes(AfterFailure) /\ KeptCut
          ELSE /\ breaker' = Healed(breaker)
               /\ \/ r = "no_answer" /\ Goes(AfterBadAnswer("schema_fail")) /\ KeptCut
                  \/ /\ r = "answer"
                     /\ \E a \in Answers(job.role, inp.cands), e \in Endings :
                           LET isCut == IsCut(job.role, e[1], e[2])
                           IN IF ~PostValidate(job.role, a, Len(inp.cands))
                              THEN Goes(AfterBadAnswer("validation_fail")) /\ KeptCut
                              ELSE /\ out' = Resolved([Accepted(job.role, a) EXCEPT !.ends = Ends(job.role, e[1], e[2])], isCut)
                                   /\ Goes(IF isCut /\ tries < 3 THEN <<"call", "no", 3>>
                                           ELSE <<"put", "ok", 0>>)
    /\ UNCHANGED <<rows, signed, cold, roleState, pending, queue, available, cache, quoted,
                   job, inp, stopping, changes>>

(* LlmCacheStore.put: the row is replaced and its clock starts anew. *)
Put ==
    /\ pc = "put"
    /\ cache' = {e \in cache : e.key # inp.key} \cup
                {[key |-> inp.key, kind |-> IF outcome = "ok" THEN "ok" ELSE "negative",
                  out |-> IF outcome = "ok" THEN out ELSE NoOutput, age |-> 0]}
    /\ pc' = "record"
    /\ UNCHANGED <<rows, signed, cold, roleState, pending, queue, available, breaker, quoted,
                   job, inp, tries, outcome, out, stopping, changes>>

(* _finish: the audit event holds the whole answer, the quotes of log      *)
(* lines too; without an answer there is nothing to apply.                 *)
Record ==
    /\ pc = "record"
    /\ IF outcome = "ok"
       THEN /\ quoted' = quoted \cup ({out.log} \ {"no"})
            /\ pc' = "apply" /\ UNCHANGED <<job, inp, tries, outcome, out>>
       ELSE Rest /\ UNCHANGED quoted
    /\ UNCHANGED <<rows, signed, cold, roleState, pending, queue, available, breaker, cache,
                   stopping, changes>>

(* set_explanation: of the answer, the suggestion takes the sentence. *)
Explain(sid, by) ==
    rows' = [rows EXCEPT ![sid].by = by, ![sid].prose = out.prose, ![sid].ends = out.ends]

(* annotate_judge: the item's newest row takes the verdict. *)
Annotate ==
    IF out.choice = -1 \/ rows = <<>> THEN UNCHANGED rows
    ELSE rows' = [rows EXCEPT ![Len(rows)].judge =
                      <<IF out.choice = 0 THEN 0 ELSE inp.cands[out.choice]>>]

(* latest_judge, what suggest reads: the newest verdict there is. *)
LatestJudge(rs) ==
    LET judged == {i \in DOMAIN rs : rs[i].judge # NotJudged}
    IN IF judged = {} THEN 0 ELSE rs[CHOOSE i \in judged : \A j \in judged : j <= i].judge[1]

(* PgLlmApplier for every role but the cold-start one. *)
Apply ==
    /\ pc = "apply" /\ job.role # "coldstart"
    /\ CASE job.role = "judge" -> Annotate
         [] job.role = "extractor" -> UNCHANGED rows
         [] OTHER -> Explain(inp.sid, job.role)
    /\ Rest
    /\ UNCHANGED <<signed, cold, roleState, pending, queue, available, breaker, cache, quoted,
                   stopping, changes>>

(* apply_coldstart: a row of its own, and in a second transaction its      *)
(* explanation.                                                            *)
InsertColdstart ==
    /\ pc = "apply" /\ job.role = "coldstart"
    /\ rows' = Append(rows, Row(out.label, "coldstart"))
    /\ inp' = [inp EXCEPT !.sid = Len(rows) + 1]
    /\ pc' = "explain"
    /\ UNCHANGED <<signed, cold, roleState, pending, queue, available, breaker, cache, quoted,
                   job, tries, outcome, out, stopping, changes>>

ExplainColdstart ==
    /\ pc = "explain"
    /\ Explain(inp.sid, "coldstart")
    /\ Rest
    /\ UNCHANGED <<signed, cold, roleState, pending, queue, available, breaker, cache, quoted,
                   stopping, changes>>

(* Mutant of Crashed: the exception ends the thread. *)
DiesWith == pc' = "dead" /\ UNCHANGED <<job, inp, tries, outcome, out>>

(* _safe_process *)
Crashed == Rest

(* A database error in any step of a job. *)
Crash ==
    /\ changes < MaxChanges /\ changes' = changes + 1
    /\ pc \in {"load", "ask", "put", "record", "apply", "explain"}
    /\ Crashed
    /\ UNCHANGED <<rows, signed, cold, roleState, pending, queue, available, breaker, cache, quoted,
                   stopping>>

(* The worker answers the same question about another item of the error    *)
(* hash, with a role whose key does not name the excerpt.                  *)
Twin ==
    /\ changes < MaxChanges /\ changes' = changes + 1
    /\ pc = "idle" /\ ~stopping /\ available /\ Allows(breaker)
    /\ \E role \in {r \in Roles : r \in roleState.on /\ ~KeyHasExcerpt(r)} :
          LET cands == IF role = "judge" THEN Loaded ELSE <<>>
              key == ContentKey(role, 0, cands)
          IN /\ \A e \in cache : e.key = key => e.age = 2
             /\ \E o \in TwinAnswers(role, cands) :
                cache' = {e \in cache : e.key # key} \cup
                         {[key |-> key, kind |-> "ok", out |-> o, age |-> 0]}
    /\ breaker' = Healed(breaker)
    /\ UNCHANGED <<rows, signed, cold, roleState, pending, queue, available, quoted,
                   workerVars, stopping>>

(* LlmSidecar.stop *)
Stop ==
    /\ changes < MaxChanges /\ changes' = changes + 1
    /\ ~stopping /\ stopping' = TRUE
    /\ UNCHANGED <<rows, signed, cold, roleState, pending, queue, available, breaker, cache, quoted,
                   workerVars>>

Worker == Pop \/ Load \/ Ask \/ Call \/ Put \/ Record \/ Apply \/ InsertColdstart
          \/ ExplainColdstart

Next ==
    \/ \E d \in {"abstain", "inherit", "auto", "suggest"} : Decides(d)
    \/ Enqueue \/ Forget \/ WarmsUp \/ Evaluate \/ Wait \/ Age \/ Twin
    \/ Worker \/ Crash \/ Stop

(* The worker thread runs until stop; every call ends, by the client's     *)
(* timeout at the latest.                                                  *)
Spec == Init /\ [][Next]_vars /\ WF_vars(Worker)

-----------------------------------------------------------------------------
(* Properties.                                                             *)

(* No call reaches the model while the breaker is open, retries of the     *)
(* same job included, which do not ask it again (LlmEngine.run).           *)
NoCallWhileOpen == pc = "call" => breaker.state # "open"

(* The item suggest promotes after a verdict is the one the model chose,   *)
(* however many candidates disappeared since the job was enqueued and      *)
(* whether it answered for this job or an earlier one (apply_judge,        *)
(* content_key, latest_judge).                                             *)
VerdictIsMeant ==
    [][ pc = "apply" /\ pc' = "idle" /\ job.role = "judge" /\ rows' # rows /\ out.choice > 0 =>
          LatestJudge(rows') = out.meant ]_vars

(* What a reader is shown can be read.  A quote of a log line in an audit  *)
(* event is a line of a log as its reader opens it, never the sanitized    *)
(* text and never made up, and so is a quote inside a sentence unless it   *)
(* is a fact; a text the budget cut, or that ends on a dangling token, is  *)
(* marked, whatever the retries and the cache came to.  Not said: that the *)
(* log is this item's, and that a text in which the model stopped by       *)
(* itself is whole (_displayable, post_validate, _resolve_truncation).     *)
StoredTextReads ==
    /\ quoted \subseteq {"plain", "foreign"}
    /\ \A i \in DOMAIN rows : /\ rows[i].prose \in {"no", "plain", "foreign", "fact"}
                              /\ rows[i].ends \in {"whole", "stopped", "marked"}

(* An explanation of a match never lands on an abstained row, nor an       *)
(* explanation of why the analyzer abstained on any other, whatever rows   *)
(* were written since the job was enqueued (PgLlmApplier).                 *)
ExplanationFits ==
    \A i \in DOMAIN rows :
        /\ rows[i].by = "explainer" => rows[i].label # "ti"
        /\ rows[i].by = "abstain_explainer" => rows[i].label = "ti"

(* A full queue keeps the most urgent of the jobs it was offered: what is  *)
(* lost is at most as urgent as all that stays (_reject_or_evict_locked).  *)
LosesLeastUrgent ==
    [][ pending' # pending /\ Len(queue) = QueueMax =>
          LET offered == Append(queue, Head(pending))
              count(s, p) == Cardinality({i \in DOMAIN s : Priority(s[i].role) <= p})
              kept(p) == IF count(offered, p) <= QueueMax THEN count(offered, p) ELSE QueueMax
          IN pending # <<>> => \A p \in 0..2 : count(queue', p) = kept(p) ]_vars

(* Every job is taken or dropped in the end, whatever fails: the queue     *)
(* empties, unless the service stops (_run, _safe_process).                *)
QueueServed == (queue # <<>>) ~> (queue = <<>> \/ stopping)
=============================================================================
