----------------------------- MODULE LlmProofs -----------------------------
(***************************************************************************)
(* Proofs about LlmSidecar.tla, for any roles, queue, breaker settings,    *)
(* candidates, comparisons and bounds: an open breaker is obeyed, a full   *)
(* queue loses the least urgent job, and what is stored in a suggestion    *)
(* row reads well, fits the row and is what the model meant.               *)
(***************************************************************************)
EXTENDS LlmSidecar, SequenceTheorems, FunctionTheorems, FiniteSetTheorems,
        WellFoundedInduction, TLAPS

BreakerOK ==
    breaker \in [state : {"closed", "open", "half_open"}, fails : Nat, cooldown : Nat, waited : Nat]

CallInv == BreakerOK /\ NoCallWhileOpen

LEMMA BreakerSteps ==
    ASSUME BreakerOK
    PROVE  /\ Failed(breaker) \in [state : {"closed", "open", "half_open"}, fails : Nat,
                                   cooldown : Nat, waited : Nat]
           /\ Healed(breaker) \in [state : {"closed", "open", "half_open"}, fails : Nat,
                                   cooldown : Nat, waited : Nat]
           /\ Healed(breaker).state = "closed"
           /\ Allowed(breaker) \in [state : {"closed", "open", "half_open"}, fails : Nat,
                                    cooldown : Nat, waited : Nat]
           /\ Allowed(breaker).state # "open"
<1> DEFINE T == [state : {"closed", "open", "half_open"}, fails : Nat, cooldown : Nat, waited : Nat]
<1>1. breaker \in T /\ BaseCooldown \in Nat /\ MaxCooldown \in Nat
  BY SidecarAssumption DEF BreakerOK
<1>2. Healed(breaker) \in T /\ Healed(breaker).state = "closed"
  BY <1>1 DEF Healed
<1>3. Allowed(breaker) \in T /\ Allowed(breaker).state # "open"
  BY <1>1 DEF Allowed
<1>4. CASE breaker.state = "half_open"
  <2> DEFINE c == IF 2 * breaker.cooldown <= MaxCooldown THEN 2 * breaker.cooldown ELSE MaxCooldown
  <2>1. c \in Nat
    BY <1>1
  <2>2. Failed(breaker) = [state |-> "open", fails |-> breaker.fails, waited |-> 0, cooldown |-> c]
    BY <1>4 DEF Failed
  <2> HIDE DEF c
  <2> QED
    BY <1>1, <1>2, <1>3, <2>1, <2>2
<1>5. CASE breaker.state # "half_open" /\ breaker.state = "closed" /\ breaker.fails + 1 >= FailThreshold
  BY <1>1, <1>2, <1>3, <1>5 DEF Failed
<1>6. CASE breaker.state # "half_open" /\ ~(breaker.state = "closed" /\ breaker.fails + 1 >= FailThreshold)
  BY <1>1, <1>2, <1>3, <1>6 DEF Failed
<1> QED
  BY <1>4, <1>5, <1>6

LEMMA InitCall == Init => CallInv
BY SidecarAssumption DEF Init, CallInv, BreakerOK, NoCallWhileOpen

LEMMA NextCall == CallInv /\ [Next]_vars => CallInv'
<1> SUFFICES ASSUME CallInv, [Next]_vars
             PROVE  CallInv'
  OBVIOUS
<1> USE DEF CallInv, BreakerOK, NoCallWhileOpen
<1>1. CASE UNCHANGED vars
  BY <1>1 DEF vars
<1>2. ASSUME UNCHANGED <<breaker, pc>>
      PROVE  CallInv'
  BY <1>2
<1>3. ASSUME NEW d, Decides(d)
      PROVE  CallInv'
  BY <1>2, <1>3 DEF Decides, workerVars
<1>4. CASE Enqueue \/ Forget \/ WarmsUp \/ Evaluate \/ Age \/ Stop
  BY <1>2, <1>4 DEF Enqueue, Forget, WarmsUp, Evaluate, Age, Stop, workerVars
<1>9. CASE Twin
  BY <1>9, BreakerSteps DEF Twin, workerVars
<1>5. CASE Wait
  BY <1>5 DEF Wait, workerVars
<1>6. CASE Pop \/ Load \/ Put \/ Record \/ Apply \/ InsertColdstart \/ ExplainColdstart \/ Crash
  BY <1>6 DEF Pop, Load, Put, Record, Apply, InsertColdstart, ExplainColdstart, Crash, Crashed, Rest
<1>7. CASE Ask
  BY <1>7, BreakerSteps DEF Ask
<1>8. CASE Call
  <2>1. CASE breaker' = Failed(breaker) /\ Goes(AfterFailure)
    BY <2>1, BreakerSteps DEF Goes, AfterFailure
  <2>2. CASE breaker' = Healed(breaker)
    BY <2>2, BreakerSteps
  <2> QED
    BY <1>8, <2>1, <2>2 DEF Call
<1> QED
  BY <1>1, <1>3, <1>4, <1>5, <1>6, <1>7, <1>8, <1>9 DEF Next, Worker

(* For every setting of the breaker: no call is made while it is open,     *)
(* though a run asks it only before its first call (LlmEngine.run,         *)
(* CircuitBreaker).                                                        *)
THEOREM OpenBreakerIsObeyed == Spec => []NoCallWhileOpen
<1>1. CallInv => NoCallWhileOpen
  BY DEF CallInv
<1> QED
  BY <1>1, InitCall, NextCall, PTL DEF Spec

-----------------------------------------------------------------------------
(* The job queue.                                                          *)

(* A set of numbers that is not empty has a least one. *)
LEMMA LeastNumber ==
    ASSUME NEW T \in SUBSET Nat, T # {}
    PROVE  \E m \in T : \A k \in T : m <= k
<1> DEFINE R == {ss \in Nat \X Nat : ss[1] < ss[2]}
<1>1. OpToRel(<, Nat) = R
  BY DEF OpToRel
<1>2. IsWellFoundedOn(R, Nat)
  BY <1>1, NatLessThanWellFounded
<1>3. \A x, y \in Nat : y < x => <<y, x>> \in R
  OBVIOUS
<1> HIDE DEF R
<1>4. PICK x \in T : \A y \in T : ~ (<<y, x>> \in R)
  BY <1>2, WFMin
<1>5. \A y \in T : ~ (y < x)
  BY <1>3, <1>4
<1> QED
  BY <1>5

(* Three priorities: a queue that holds a job has a most and a least       *)
(* urgent one.                                                             *)
LEMMA UrgencyBounds ==
    ASSUME NEW T, NEW s \in Seq(T), s # <<>>
    PROVE  /\ MostUrgent(s) \in Urgencies(s)
           /\ LeastUrgent(s) \in Urgencies(s)
           /\ \A i \in 1..Len(s) : /\ Priority(s[i].role) \in 0..2
                                   /\ MostUrgent(s) <= Priority(s[i].role)
                                   /\ Priority(s[i].role) <= LeastUrgent(s)
<1>1. \A i \in DOMAIN s : Priority(s[i].role) \in {0, 1, 2}
  BY DEF Priority
<1>2. Urgencies(s) \subseteq {0, 1, 2} /\ Urgencies(s) # {}
  BY <1>1, LenProperties, EmptySeq DEF Urgencies
<1>3. \E p \in Urgencies(s) : \A o \in Urgencies(s) : p <= o
  BY <1>2
<1>4. \E p \in Urgencies(s) : \A o \in Urgencies(s) : o <= p
  BY <1>2
<1>5. MostUrgent(s) \in Urgencies(s) /\ \A o \in Urgencies(s) : MostUrgent(s) <= o
  BY <1>3 DEF MostUrgent
<1>6. LeastUrgent(s) \in Urgencies(s) /\ \A o \in Urgencies(s) : o <= LeastUrgent(s)
  BY <1>4 DEF LeastUrgent
<1> QED
  BY <1>1, <1>5, <1>6, LenProperties DEF Urgencies

(* The oldest job of a priority that some job has is in the queue. *)
LEMMA OldestIsThere ==
    ASSUME NEW T, NEW s \in Seq(T), NEW p \in Urgencies(s)
    PROVE  OldestOf(s, p) \in 1..Len(s) /\ Priority(s[OldestOf(s, p)].role) = p
<1> DEFINE K == {i \in DOMAIN s : Priority(s[i].role) = p}
<1>1. K \in SUBSET Nat /\ K # {}
  BY LenProperties DEF Urgencies
<1>2. \E i \in K : \A j \in K : i <= j
  BY <1>1, LeastNumber
<1>3. \E i \in DOMAIN s : /\ Priority(s[i].role) = p
                          /\ \A j \in DOMAIN s : Priority(s[j].role) = p => i <= j
  BY <1>2
<1>4. OldestOf(s, p) \in DOMAIN s /\ Priority(s[OldestOf(s, p)].role) = p
  BY <1>3 DEF OldestOf
<1> QED
  BY <1>4, LenProperties

(* What is left without one job: the others, in their order. *)
LEMMA WithoutIndexProperties ==
    ASSUME NEW T, NEW s \in Seq(T), NEW k \in 1..Len(s)
    PROVE  /\ WithoutIndex(s, k) \in Seq(T)
           /\ Len(WithoutIndex(s, k)) = Len(s) - 1
           /\ \A i \in 1..(Len(s) - 1) :
                 WithoutIndex(s, k)[i] = s[IF i < k THEN i ELSE i + 1]
<1> DEFINE a == SubSeq(s, 1, k - 1)
           b == SubSeq(s, k + 1, Len(s))
<1>0. Len(s) \in Nat /\ \A i \in 1..Len(s) : s[i] \in T
  BY LenProperties, ElementOfSeq
<1>1. /\ a \in Seq(T) /\ Len(a) = k - 1
      /\ \A i \in 1..(k - 1) : a[i] = s[i]
  <2>1. \A i \in 1..(k - 1) : s[i] \in T
    BY <1>0
  <2> QED
    BY <1>0, <2>1, SubSeqProperties
<1>2. /\ b \in Seq(T) /\ Len(b) = Len(s) - k
      /\ \A i \in 1..(Len(s) - k) : b[i] = s[k + i]
  <2>1. \A i \in (k + 1)..Len(s) : s[i] \in T
    BY <1>0
  <2>2. /\ b \in Seq(T) /\ Len(b) = IF k + 1 <= Len(s) THEN Len(s) - (k + 1) + 1 ELSE 0
        /\ \A i \in 1..(Len(s) - (k + 1) + 1) : b[i] = s[(k + 1) + i - 1]
    BY <1>0, <2>1, SubSeqProperties
  <2> QED
    BY <1>0, <2>2
<1> HIDE DEF a, b
<1>3. /\ a \o b \in Seq(T) /\ Len(a \o b) = Len(a) + Len(b)
      /\ \A i \in 1..(Len(a) + Len(b)) :
            (a \o b)[i] = IF i <= Len(a) THEN a[i] ELSE b[i - Len(a)]
  BY <1>1, <1>2, ConcatProperties
<1>4. WithoutIndex(s, k) = a \o b
  BY DEF WithoutIndex, a, b
<1>5. Len(WithoutIndex(s, k)) = Len(s) - 1
  BY <1>0, <1>1, <1>2, <1>3, <1>4
<1>6. ASSUME NEW i \in 1..(Len(s) - 1)
      PROVE  WithoutIndex(s, k)[i] = s[IF i < k THEN i ELSE i + 1]
  <2>1. CASE i < k
    BY <1>0, <1>1, <1>2, <1>3, <1>4, <2>1
  <2>2. CASE ~(i < k)
    <3>1. i - (k - 1) \in 1..(Len(s) - k) /\ k + (i - (k - 1)) = i + 1
      BY <1>0, <2>2
    <3>2. b[i - (k - 1)] = s[i + 1]
      BY <1>2, <3>1
    <3> QED
      BY <1>0, <1>1, <1>2, <1>3, <1>4, <2>2, <3>2
  <2> QED
    BY <2>1, <2>2
<1> QED
  BY <1>3, <1>4, <1>5, <1>6

(* The queue holds jobs it was offered, and the worker takes one of them. *)
LEMMA QueueHoldsJobs ==
    ASSUME NEW T, NEW s \in Seq(T)
    PROVE  /\ \A j \in T : Enqueued(s, j) \in Seq(T)
           /\ s # <<>> => /\ s[NextJob(s)] \in T
                          /\ WithoutIndex(s, NextJob(s)) \in Seq(T)
<1>1. ASSUME NEW j \in T PROVE Enqueued(s, j) \in Seq(T)
  <2>1. CASE Len(s) < QueueMax
    BY <2>1, AppendProperties DEF Enqueued
  <2>2. CASE ~(Len(s) < QueueMax)
    <3>1. s # <<>>
      BY <2>2, SidecarAssumption, EmptySeq
    <3>2. WithoutIndex(s, OldestOf(s, LeastUrgent(s))) \in Seq(T)
      BY <3>1, UrgencyBounds, OldestIsThere, WithoutIndexProperties
    <3> QED
      BY <2>2, <3>2, AppendProperties DEF Enqueued
  <2> QED
    BY <2>1, <2>2
<1>2. ASSUME s # <<>>
      PROVE  s[NextJob(s)] \in T /\ WithoutIndex(s, NextJob(s)) \in Seq(T)
  BY <1>2, UrgencyBounds, OldestIsThere, WithoutIndexProperties, ElementOfSeq DEF NextJob
<1> QED
  BY <1>1, <1>2

(* The places of the jobs at least as urgent as p. *)
Within(s, p) == {i \in DOMAIN s : Priority(s[i].role) <= p}

LEMMA WithinIsFinite ==
    ASSUME NEW T, NEW s \in Seq(T), NEW p
    PROVE  /\ IsFiniteSet(Within(s, p)) /\ Cardinality(Within(s, p)) \in Nat
           /\ Cardinality(Within(s, p)) <= Len(s)
           /\ Cardinality(Within(s, p)) = Len(s) <=> Within(s, p) = 1..Len(s)
<1>1. Len(s) \in Nat /\ Within(s, p) \in SUBSET (1..Len(s))
  BY LenProperties DEF Within
<1>2. IsFiniteSet(1..Len(s)) /\ Cardinality(1..Len(s)) = Len(s)
  <2>1. 1 \in Int /\ Len(s) \in Int
    BY <1>1
  <2>2. /\ IsFiniteSet(1..Len(s))
        /\ Cardinality(1..Len(s)) = IF 1 > Len(s) THEN 0 ELSE Len(s) - 1 + 1
    BY <2>1, FS_Interval
  <2> QED
    BY <1>1, <2>2
<1> QED
  BY <1>1, <1>2, FS_Subset, FS_CardinalityType

(* A job more counts if it is urgent enough. *)
LEMMA AppendCounts ==
    ASSUME NEW T, NEW s \in Seq(T), NEW j \in T, NEW p
    PROVE  Cardinality(Within(Append(s, j), p))
             = Cardinality(Within(s, p)) + IF Priority(j.role) <= p THEN 1 ELSE 0
<1> DEFINE w == Append(s, j)
           k == Len(s) + 1
<1>1. Len(s) \in Nat /\ DOMAIN s = 1..Len(s) /\ DOMAIN w = 1..k
      /\ (\A i \in 1..Len(s) : w[i] = s[i]) /\ w[k] = j
  BY LenProperties, AppendProperties
<1>2. k \notin Within(s, p)
  BY <1>1 DEF Within
<1>3. CASE Priority(j.role) <= p
  <2>1. Within(w, p) = Within(s, p) \cup {k}
    BY <1>1, <1>3 DEF Within
  <2> QED
    BY <1>2, <1>3, <2>1, WithinIsFinite, FS_AddElement
<1>4. CASE ~(Priority(j.role) <= p)
  <2>1. Within(w, p) = Within(s, p)
    BY <1>1, <1>4 DEF Within
  <2> QED
    BY <1>4, <2>1, WithinIsFinite
<1> QED
  BY <1>3, <1>4

(* A job less counts if it was urgent enough. *)
LEMMA RemovalCounts ==
    ASSUME NEW T, NEW s \in Seq(T), NEW k \in 1..Len(s), NEW p
    PROVE  Cardinality(Within(WithoutIndex(s, k), p))
             = Cardinality(Within(s, p)) - IF Priority(s[k].role) <= p THEN 1 ELSE 0
<1> DEFINE w == WithoutIndex(s, k)
           A == Within(w, p)
           B == Within(s, p) \ {k}
           f == [i \in A |-> IF i < k THEN i ELSE i + 1]
<1>1. /\ Len(s) \in Nat /\ DOMAIN s = 1..Len(s)
      /\ w \in Seq(T) /\ DOMAIN w = 1..(Len(s) - 1)
      /\ \A i \in 1..(Len(s) - 1) : w[i] = s[IF i < k THEN i ELSE i + 1]
  BY WithoutIndexProperties, LenProperties
<1> HIDE DEF w
<1>2. A \subseteq 1..(Len(s) - 1) /\ f \in [A -> B]
  <2>1. \A i \in A : /\ i \in 1..(Len(s) - 1)
                     /\ (IF i < k THEN i ELSE i + 1) \in 1..Len(s)
                     /\ (IF i < k THEN i ELSE i + 1) # k
                     /\ Priority(s[IF i < k THEN i ELSE i + 1].role) <= p
    BY <1>1 DEF Within
  <2> QED
    BY <1>1, <2>1 DEF Within
<1>3. \A a, b \in A : f[a] = f[b] => a = b
  BY <1>1, <1>2
<1>4. ASSUME NEW b \in B PROVE \E a \in A : f[a] = b
  <2>1. b \in 1..Len(s) /\ b # k /\ Priority(s[b].role) <= p
    BY <1>1 DEF Within
  <2>2. CASE b < k
    <3>1. b \in A
      BY <1>1, <2>1, <2>2 DEF Within
    <3> QED
      BY <2>2, <3>1
  <2>3. CASE ~(b < k)
    <3>1. b - 1 \in 1..(Len(s) - 1) /\ ~(b - 1 < k) /\ (b - 1) + 1 = b
      BY <1>1, <2>1, <2>3
    <3>2. b - 1 \in A
      BY <1>1, <2>1, <3>1 DEF Within
    <3> QED
      BY <3>1, <3>2
  <2> QED
    BY <2>2, <2>3
<1> HIDE DEF A, B, f
<1>5. f \in Bijection(A, B)
  <2>1. f \in [A -> B] /\ \A b \in B : \E a \in A : f[a] = b
    BY <1>2, <1>4
  <2> QED
    BY <1>3, <2>1, Fun_IsBij
<1> USE DEF A, B, f
<1>6. IsFiniteSet(A) /\ Cardinality(B) = Cardinality(A)
  BY <1>1, <1>5, WithinIsFinite, FS_Bijection DEF ExistsBijection
<1>7. Cardinality(B) = IF k \in Within(s, p) THEN Cardinality(Within(s, p)) - 1
                       ELSE Cardinality(Within(s, p))
  BY WithinIsFinite, FS_RemoveElement
<1>8. k \in Within(s, p) <=> Priority(s[k].role) <= p
  BY <1>1 DEF Within
<1> QED
  BY <1>6, <1>7, <1>8, WithinIsFinite DEF w

(* A full queue keeps the most urgent of the jobs it holds and the one it  *)
(* is offered (_reject_or_evict_locked).                                   *)
LEMMA FullQueueKeepsUrgent ==
    ASSUME NEW T, NEW s \in Seq(T), NEW j \in T, Len(s) = QueueMax, NEW p \in 0..2
    PROVE  LET offered == Cardinality(Within(Append(s, j), p))
           IN  Cardinality(Within(Enqueued(s, j), p))
                 = IF offered <= QueueMax THEN offered ELSE QueueMax
<1> DEFINE offered == Cardinality(Within(Append(s, j), p))
           least == LeastUrgent(s)
           old == OldestOf(s, least)
           here(q) == IF q <= p THEN 1 ELSE 0
<1>0. QueueMax \in Nat /\ s # <<>> /\ DOMAIN s = 1..Len(s)
  BY SidecarAssumption, EmptySeq, LenProperties
<1>1. /\ least \in 0..2 /\ Priority(j.role) \in 0..2
      /\ old \in 1..Len(s) /\ Priority(s[old].role) = least
      /\ \A i \in 1..Len(s) : Priority(s[i].role) \in 0..2 /\ Priority(s[i].role) <= least
  <2>1. Priority(j.role) \in 0..2
    BY DEF Priority
  <2>2. least \in Urgencies(s) /\ \A i \in 1..Len(s) : Priority(s[i].role) \in 0..2 /\ Priority(s[i].role) <= least
    BY <1>0, UrgencyBounds
  <2>3. least \in 0..2
    BY <1>0, <2>2 DEF Urgencies
  <2> QED
    BY <2>1, <2>2, <2>3, OldestIsThere
<1>2. offered = Cardinality(Within(s, p)) + here(Priority(j.role))
  BY AppendCounts
<1>3. Cardinality(Within(s, p)) \in Nat /\ Cardinality(Within(s, p)) <= QueueMax
      /\ (Cardinality(Within(s, p)) = QueueMax <=> Within(s, p) = 1..Len(s))
  BY WithinIsFinite
<1>4. Within(s, p) = 1..Len(s) <=> least <= p
  BY <1>0, <1>1 DEF Within
<1>5. CASE Priority(j.role) > least
  <2>1. Enqueued(s, j) = s
    BY <1>0, <1>5 DEF Enqueued
  <2> QED
    BY <1>0, <1>1, <1>2, <1>3, <1>4, <1>5, <2>1
<1>6. CASE ~(Priority(j.role) > least)
  <2>1. Enqueued(s, j) = Append(WithoutIndex(s, old), j)
    BY <1>0, <1>6 DEF Enqueued
  <2>2. WithoutIndex(s, old) \in Seq(T)
    BY <1>1, WithoutIndexProperties
  <2>3. Cardinality(Within(WithoutIndex(s, old), p)) = Cardinality(Within(s, p)) - here(least)
    BY <1>1, RemovalCounts
  <2>4. Cardinality(Within(Enqueued(s, j), p))
          = Cardinality(Within(WithoutIndex(s, old), p)) + here(Priority(j.role))
    BY <2>1, <2>2, AppendCounts
  <2> QED
    BY <1>0, <1>1, <1>2, <1>3, <1>4, <1>6, <2>3, <2>4
<1> QED
  BY <1>5, <1>6

-----------------------------------------------------------------------------
(* What the sidecar stores.                                                *)

Known == {0} \cup {Candidates[i] : i \in DOMAIN Candidates}

(* The lists a judge may be given, and the items its verdict may name. *)
CandLists == {<<>>} \cup {WithFacts(S) : S \in SUBSET Known}
Named == {0} \cup UNION {{cs[k] : k \in 1..Len(cs)} : cs \in CandLists}

Quotes == {"no", "plain", "foreign", "rewritten", "spanning", "fact", "invented"}
ShownQuotes == {"no", "plain", "foreign"}
AllEnds == {"whole", "cut", "stopped", "marked"}
OutLabels == {"no", "pb", "ab", "grounded", "made_up"}
Output == [choice : Int, meant : Named, log : Quotes, prose : Quotes,
           rule : {"no", "R3"}, label : OutLabels, ends : AllEnds]
SuggestionRow == [label : OutLabels \cup {"ti"}, method : {"classical", "coldstart"},
                  by : Roles \cup {"no"}, prose : Quotes, ends : AllEnds,
                  judge : {NotJudged} \cup {<<x>> : x \in Named}]
Keys == {<<>>} \cup {ContentKey(r, 0, cs) : r \in Roles, cs \in CandLists}
Input == [key : Keys, sid : Nat, cands : CandLists]
Entry == [key : Keys, kind : {"ok", "negative"}, out : Output, age : 0..2]

(* The job of an abstain explainer names an abstained row. *)
FittingJobs(rs) ==
    {j \in [role : Roles, sid : Nat] :
        j.role = "abstain_explainer" => j.sid \in 1..Len(rs) /\ rs[j.sid].label = "ti"}

SidecarTypeOK ==
    /\ rows \in Seq(SuggestionRow)
    /\ signed \subseteq Known
    /\ cache \subseteq Entry
    /\ pc \in {"idle", "load", "ask", "call", "put", "record", "apply", "explain"}
    /\ inp \in Input /\ tries \in 0..3 /\ out \in Output

JobsFit ==
    /\ pending \in Seq(FittingJobs(rows))
    /\ queue \in Seq(FittingJobs(rows))
    /\ pc # "idle" => job \in FittingJobs(rows)

(* An input in hand has the key of its role and candidates, and a target   *)
(* row that suits the role.                                                *)
InputFits ==
    pc \notin {"idle", "load"} =>
        /\ inp.key = ContentKey(job.role, 0, inp.cands)
        /\ job.role = "explainer" => inp.sid \in 1..Len(rows) /\ rows[inp.sid].label # "ti"
        /\ job.role = "abstain_explainer" => inp.sid = job.sid
        /\ pc = "explain" => job.role = "coldstart" /\ inp.sid \in 1..Len(rows)

(* An output that can be stored for a role over these candidates. *)
Storable(o, role, cands) ==
    /\ o.log \in ShownQuotes
    /\ o.prose \in ShownQuotes \cup {"fact"}
    /\ o.ends \in {"whole", "stopped", "marked"}
    /\ role = "judge" => /\ o.choice \in {-1, 0} \cup 1..Len(cands)
                         /\ o.choice > 0 => o.meant = cands[o.choice]

(* An answer kept through the longer retry is storable once it is marked;  *)
(* one on its way to the cache, the audit event or a row is storable as it *)
(* is.                                                                     *)
OutputFits ==
    /\ pc = "call" /\ tries = 3 => Storable(MarkTruncated(out), job.role, inp.cands)
    /\ pc \in {"apply", "explain"} \/ (pc \in {"put", "record"} /\ outcome = "ok")
          => Storable(out, job.role, inp.cands)

(* What the cache holds under a key is storable for whoever has that key.  *)
CacheFits ==
    \A e \in cache, r \in Roles, cs \in CandLists :
        e.kind = "ok" /\ e.key = ContentKey(r, 0, cs) => Storable(e.out, r, cs)

SidecarInv ==
    /\ SidecarTypeOK
    /\ JobsFit
    /\ InputFits
    /\ OutputFits
    /\ CacheFits
    /\ StoredTextReads
    /\ ExplanationFits

-----------------------------------------------------------------------------
(* Rows are only added and annotated: whatever fits them goes on fitting.  *)
Grows(rs) ==
    /\ rs \in Seq(SuggestionRow)
    /\ Len(rows) <= Len(rs)
    /\ \A i \in 1..Len(rows) : rs[i].label = rows[i].label

LEMMA StillFits ==
    ASSUME rows \in Seq(SuggestionRow), NEW rs, Grows(rs)
    PROVE  /\ FittingJobs(rows) \subseteq FittingJobs(rs)
           /\ \A s \in Seq(FittingJobs(rows)) : s \in Seq(FittingJobs(rs))
<1>1. Len(rows) \in Nat /\ Len(rs) \in Nat
  BY LenProperties DEF Grows
<1>2. FittingJobs(rows) \subseteq FittingJobs(rs)
  BY <1>1 DEF FittingJobs, Grows
<1> QED
  BY <1>2, SeqMonotonic

(* The key of an answer gives its role away, and the judge's candidates. *)
LEMMA KeyIsFaithful ==
    ASSUME NEW r \in Roles, NEW q \in Roles, NEW cs, NEW ds,
           ContentKey(r, 0, cs) = ContentKey(q, 0, ds)
    PROVE  r = q /\ (r = "judge" => cs = ds)
BY DEF ContentKey, Roles

LEMMA SameKeyStorable ==
    ASSUME NEW r \in Roles, NEW q \in Roles, NEW cs, NEW ds, NEW o,
           ContentKey(r, 0, cs) = ContentKey(q, 0, ds), Storable(o, r, cs)
    PROVE  Storable(o, q, ds)
BY KeyIsFaithful DEF Storable

(* What post_validate accepts, whatever the model answered.                *)
LEMMA AcceptedReads ==
    ASSUME NEW role \in Roles, NEW cands \in CandLists, NEW a \in Answers(role, cands),
           PostValidate(role, a, Len(cands))
    PROVE  /\ Accepted(role, a) \in Output
           /\ Accepted(role, a).log \in {"no", "plain"}
           /\ Accepted(role, a).prose \in {"no", "plain", "fact"}
           /\ role = "judge" => /\ Accepted(role, a).choice \in {-1, 0} \cup 1..Len(cands)
                                /\ Accepted(role, a).choice > 0 =>
                                      Accepted(role, a).meant = cands[Accepted(role, a).choice]
<1>1. NoOutput \in Output
  BY DEF NoOutput, Output, Named, Quotes, OutLabels, AllEnds
<1>2. a \in Output
  <2>1. CASE role = "judge"
    <3>1. PICK c \in Choices :
            a = [NoOutput EXCEPT !.choice = c,
                                 !.meant = IF c \in 1..Len(cands) THEN cands[c] ELSE 0]
      BY <2>1 DEF Answers
    <3>2. c \in Int /\ (IF c \in 1..Len(cands) THEN cands[c] ELSE 0) \in Named
      BY RolesAssumption DEF Named
    <3> QED
      BY <1>1, <3>1, <3>2 DEF Output
  <2>2. CASE role = "coldstart" \/ role = "extractor"
    <3>1. \/ \E l \in {"pb", "ab"} : a = [NoOutput EXCEPT !.rule = "R3", !.label = l]
          \/ \E l \in {"grounded", "made_up"} : a = [NoOutput EXCEPT !.label = l]
      BY <2>2 DEF Answers
    <3> QED
      BY <1>1, <3>1 DEF Output, OutLabels
  <2>3. CASE role \in {"explainer", "abstain_explainer"}
    <3>1. PICK q \in QuoteKinds : a = [NoOutput EXCEPT !.log = q] \/ a = [NoOutput EXCEPT !.prose = q]
      BY <2>3 DEF Answers
    <3> QED
      BY <1>1, <3>1, RolesAssumption DEF Output, Quotes
  <2> QED
    BY <2>1, <2>2, <2>3 DEF Roles
<1>3. /\ Accepted(role, a) \in Output
      /\ Accepted(role, a).log \in {"no", "plain"}
      /\ Accepted(role, a).prose \in {"no", "plain", "fact"}
      /\ role = "judge" => Accepted(role, a) = a
  <2>1. CASE role \in {"explainer", "abstain_explainer"}
    <3>1. a.log \in LogCorpus /\ a.prose \in {"no", "plain", "fact"}
      BY <2>1 DEF PostValidate, Grounded, FactCorpus
    <3>2. Displayable(a.log) \in {"no", "plain"}
      BY <3>1 DEF Displayable, LogCorpus
    <3> QED
      BY <1>2, <2>1, <3>1, <3>2 DEF Accepted, Explainers, Output, Quotes
  <2>2. CASE role \notin {"explainer", "abstain_explainer"}
    <3>1. a.log = "no" /\ a.prose = "no"
      BY <2>2 DEF Answers, Roles, NoOutput
    <3> QED
      BY <1>2, <2>2, <3>1 DEF Accepted, Explainers
  <2> QED
    BY <2>1, <2>2
<1>4. role = "judge" => /\ a.choice \in {-1, 0} \cup 1..Len(cands)
                        /\ a.choice > 0 => a.meant = cands[a.choice]
  <2> SUFFICES ASSUME role = "judge"
               PROVE  /\ a.choice \in {-1, 0} \cup 1..Len(cands)
                      /\ a.choice > 0 => a.meant = cands[a.choice]
    OBVIOUS
  <2>1. a.choice \in {-1, 0} \cup 1..Len(cands)
    BY DEF PostValidate, NamesCandidate
  <2>2. PICK c \in Choices :
          a = [NoOutput EXCEPT !.choice = c,
                               !.meant = IF c \in 1..Len(cands) THEN cands[c] ELSE 0]
    BY DEF Answers
  <2>3. a.choice = c /\ a.meant = IF c \in 1..Len(cands) THEN cands[c] ELSE 0
    BY <2>2 DEF NoOutput
  <2> QED
    BY <2>1, <2>3
<1> QED
  BY <1>3, <1>4

(* What the truncation rules leave of an accepted answer.                  *)
LEMMA AcceptedIsStorable ==
    ASSUME NEW role \in Roles, NEW cands \in CandLists, NEW a \in Answers(role, cands),
           PostValidate(role, a, Len(cands)), NEW e \in Endings
    PROVE  LET o == [Accepted(role, a) EXCEPT !.ends = Ends(role, e[1], e[2])]
           IN  /\ o \in Output /\ MarkTruncated(o) \in Output
               /\ Storable(MarkTruncated(o), role, cands)
               /\ ~IsCut(role, e[1], e[2]) => Storable(o, role, cands)
<1> DEFINE b == Accepted(role, a)
           o == [b EXCEPT !.ends = Ends(role, e[1], e[2])]
<1>1. /\ b \in Output /\ b.log \in ShownQuotes /\ b.prose \in ShownQuotes \cup {"fact"}
      /\ role = "judge" => /\ b.choice \in {-1, 0} \cup 1..Len(cands)
                           /\ b.choice > 0 => b.meant = cands[b.choice]
  BY AcceptedReads DEF ShownQuotes
<1> HIDE DEF b
<1>2. Ends(role, e[1], e[2]) \in {"whole", "stopped", "cut"}
  BY DEF Ends
<1>3. /\ o \in Output /\ o.ends = Ends(role, e[1], e[2])
      /\ o.log = b.log /\ o.prose = b.prose
      /\ o.choice = b.choice /\ o.meant = b.meant
  BY <1>1, <1>2 DEF Output, AllEnds
<1>4. ~IsCut(role, e[1], e[2]) => Ends(role, e[1], e[2]) \in {"whole", "stopped"}
  BY DEF IsCut, FreeText, LooksTruncated, Endings, Ends
<1> HIDE DEF o
<1>5. /\ MarkTruncated(o) \in Output /\ MarkTruncated(o).ends \in {"whole", "stopped", "marked"}
      /\ MarkTruncated(o).log = o.log /\ MarkTruncated(o).prose = o.prose
      /\ MarkTruncated(o).choice = o.choice /\ MarkTruncated(o).meant = o.meant
  BY <1>2, <1>3 DEF MarkTruncated, Output, AllEnds
<1>6. Storable(MarkTruncated(o), role, cands)
  BY <1>1, <1>3, <1>5 DEF Storable
<1>7. ~IsCut(role, e[1], e[2]) => Storable(o, role, cands)
  BY <1>1, <1>3, <1>4 DEF Storable
<1> QED
  BY <1>3, <1>5, <1>6, <1>7 DEF o, b

(* An answer cached for a twin reads as well in this item's place.         *)
LEMMA TwinIsStorable ==
    ASSUME NEW role \in Roles, NEW cands \in CandLists, NEW o \in TwinAnswers(role, cands)
    PROVE  o \in Output /\ Storable(o, role, cands)
<1>1. PICK a \in Answers(role, cands), t \in {"whole", "stopped", "marked"} :
        /\ PostValidate(role, a, Len(cands))
        /\ \/ o = [Accepted(role, a) EXCEPT !.ends = t]
           \/ o = [Accepted(role, a) EXCEPT !.ends = t, !.log = Missing(@), !.prose = Missing(@)]
  <2>1. PICK a \in Answers(role, cands), t \in TwinEnds(role) :
          PostValidate(role, a, Len(cands)) /\ o \in FromTwin(Accepted(role, a), t)
    BY DEF TwinAnswers
  <2> QED
    BY <2>1 DEF TwinEnds, FromTwin
<1> DEFINE b == Accepted(role, a)
<1>2. /\ b \in Output /\ b.log \in {"no", "plain"} /\ b.prose \in {"no", "plain", "fact"}
      /\ role = "judge" => /\ b.choice \in {-1, 0} \cup 1..Len(cands)
                           /\ b.choice > 0 => b.meant = cands[b.choice]
  BY <1>1, AcceptedReads
<1>3. /\ o = [b EXCEPT !.ends = t]
         \/ o = [b EXCEPT !.ends = t, !.log = Missing(@), !.prose = Missing(@)]
  BY <1>1
<1> HIDE DEF b
<1>4. Missing(b.log) \in ShownQuotes /\ Missing(b.prose) \in ShownQuotes \cup {"fact"}
  BY <1>2 DEF Missing, ShownQuotes
<1>5. /\ o \in Output /\ o.ends = t /\ o.choice = b.choice /\ o.meant = b.meant
      /\ o.log \in {b.log, Missing(b.log)} /\ o.prose \in {b.prose, Missing(b.prose)}
  BY <1>2, <1>3, <1>4 DEF Output, AllEnds, Quotes, ShownQuotes
<1> QED
  BY <1>2, <1>4, <1>5 DEF Storable, ShownQuotes

(* set_explanation changes one row, and of it only the explanation. *)
LEMMA ExplainChangesOne ==
    ASSUME rows \in Seq(SuggestionRow), out \in Output, NEW sid \in 1..Len(rows),
           NEW by \in Roles, Explain(sid, by)
    PROVE  /\ Grows(rows') /\ Len(rows') = Len(rows)
           /\ \A i \in 1..Len(rows) : i # sid => rows'[i] = rows[i]
           /\ rows'[sid].by = by
           /\ rows'[sid].prose = out.prose /\ rows'[sid].ends = out.ends
<1> DEFINE new == [rows[sid] EXCEPT !.by = by, !.prose = out.prose, !.ends = out.ends]
<1>1. rows[sid] \in SuggestionRow /\ Len(rows) \in Nat
  BY ElementOfSeq, LenProperties
<1>2. /\ new \in SuggestionRow /\ new.label = rows[sid].label
      /\ new.by = by /\ new.prose = out.prose /\ new.ends = out.ends
  BY <1>1 DEF SuggestionRow, Output
<1>3. rows' = [rows EXCEPT ![sid] = new]
  BY <1>1, LenProperties DEF Explain
<1> HIDE DEF new
<1>4. /\ rows' \in Seq(SuggestionRow) /\ Len(rows') = Len(rows)
      /\ \A i \in 1..Len(rows) : rows'[i] = IF i = sid THEN new ELSE rows[i]
  BY <1>2, <1>3, ExceptSeq
<1> QED
  BY <1>1, <1>2, <1>4 DEF Grows

-----------------------------------------------------------------------------
(* A job of the right kind for rows as they will be. *)
LEMMA JobFits ==
    ASSUME NEW role \in Roles, NEW rs \in Seq(SuggestionRow), NEW sid \in 1..Len(rs),
           role = "abstain_explainer" => rs[sid].label = "ti"
    PROVE  Job(role, sid) \in Seq(FittingJobs(rs))
<1> DEFINE j == [role |-> role, sid |-> IF role = "abstain_explainer" THEN sid ELSE 0]
<1>1. Len(rs) \in Nat
  BY LenProperties
<1>2. j \in FittingJobs(rs)
  BY <1>1 DEF FittingJobs
<1> HIDE DEF j
<1>3. <<j>> \in Seq(FittingJobs(rs)) /\ <<>> \in Seq(FittingJobs(rs))
  BY <1>2
<1> QED
  BY <1>3 DEF Job, j

(* A route writes a row and names it in the jobs it will enqueue. *)
LEMMA DecidesKeeps ==
    ASSUME SidecarInv, NEW d, Decides(d)
    PROVE  SidecarInv'
<1> DEFINE new == Row(IF d = "abstain" THEN "ti" ELSE "pb", "classical")
           n == Len(rows) + 1
<1> USE DEF SidecarInv, SidecarTypeOK
<1>1. rows' = Append(rows, new) /\ pending' = JobsFor(d, n)
  BY DEF Decides
<1>2. new \in SuggestionRow /\ new.by = "no" /\ new.prose = "no"
      /\ new.ends = "whole" /\ new.label = IF d = "abstain" THEN "ti" ELSE "pb"
  BY DEF Row, SuggestionRow, OutLabels, Quotes, AllEnds
<1> HIDE DEF new
<1>3. /\ Len(rows) \in Nat /\ rows' \in Seq(SuggestionRow) /\ Len(rows') = n
      /\ (\A i \in 1..Len(rows) : rows'[i] = rows[i]) /\ rows'[n] = new
      /\ DOMAIN rows' = 1..n /\ DOMAIN rows = 1..Len(rows)
  BY <1>1, <1>2, AppendProperties, LenProperties
<1>4. Grows(rows')
  BY <1>3 DEF Grows
<1>5. UNCHANGED <<signed, queue, cache, quoted, pc, job, inp, tries, outcome, out>>
  BY DEF Decides, workerVars
<1>6. JobsFor(d, n) \in Seq(FittingJobs(rows'))
  <2> DEFINE F == FittingJobs(rows')
  <2>1. n \in 1..Len(rows')
    BY <1>3
  <2>2. \A r \in Roles \ {"abstain_explainer"} : Job(r, n) \in Seq(F)
    BY <1>3, <2>1, JobFits
  <2>3. d = "abstain" => Job("abstain_explainer", n) \in Seq(F)
    <3> SUFFICES ASSUME d = "abstain" PROVE Job("abstain_explainer", n) \in Seq(F)
      OBVIOUS
    <3>1. "abstain_explainer" \in Roles /\ rows'[n].label = "ti"
      BY <1>2, <1>3 DEF Roles
    <3> QED
      BY <1>3, <2>1, <3>1, JobFits
  <2> HIDE DEF F
  <2>4. \A x, y \in Seq(F) : x \o y \in Seq(F)
    BY ConcatProperties
  <2>5. <<>> \in Seq(F)
    OBVIOUS
  <2> QED
    BY <2>2, <2>3, <2>4, <2>5 DEF JobsFor, Roles, F
<1>7. JobsFit'
  BY <1>1, <1>4, <1>5, <1>6, StillFits DEF JobsFit
<1>8. InputFits' /\ OutputFits' /\ CacheFits'
  BY <1>3, <1>5 DEF InputFits, OutputFits, CacheFits
<1>9. StoredTextReads' /\ ExplanationFits'
  BY <1>2, <1>3, <1>5 DEF StoredTextReads, ExplanationFits
<1> QED
  BY <1>3, <1>5, <1>7, <1>8, <1>9

(* The other routes, the clock and stop touch neither rows nor worker.     *)
LEMMA RoutesKeep ==
    ASSUME SidecarInv, Enqueue \/ Forget \/ WarmsUp \/ Evaluate \/ Wait \/ Age \/ Twin \/ Stop
    PROVE  SidecarInv'
<1> USE DEF SidecarInv, SidecarTypeOK
<1>1. UNCHANGED <<rows, quoted, pc, job, inp, tries, outcome, out>> /\ signed' \subseteq Known
  BY DEF Enqueue, Forget, WarmsUp, Evaluate, Wait, Age, Twin, Stop, workerVars
<1>2. pending' \in Seq(FittingJobs(rows)) /\ queue' \in Seq(FittingJobs(rows))
  <2>1. CASE Enqueue
    BY <2>1, HeadTailProperties, QueueHoldsJobs DEF Enqueue, JobsFit
  <2>2. CASE ~Enqueue
    BY <2>2 DEF Forget, WarmsUp, Evaluate, Wait, Age, Twin, Stop, JobsFit
  <2> QED
    BY <2>1, <2>2
<1>3. cache' \subseteq Entry /\ CacheFits'
  <2>1. CASE UNCHANGED cache
    BY <2>1 DEF CacheFits
  <2>2. CASE Age
    <3>1. ASSUME NEW x \in cache'
          PROVE  x \in Entry /\ \E e \in cache : x.key = e.key /\ x.kind = e.kind /\ x.out = e.out
      <4>1. PICK e \in cache : x = [e EXCEPT !.age = IF @ < 2 THEN @ + 1 ELSE 2]
        BY <2>2, <3>1 DEF Age
      <4>2. e \in Entry
        OBVIOUS
      <4>3. (IF e.age < 2 THEN e.age + 1 ELSE 2) \in 0..2
        BY <4>2 DEF Entry
      <4> QED
        BY <4>1, <4>2, <4>3 DEF Entry
    <3> QED
      BY <3>1 DEF CacheFits
  <2>3. CASE Twin
    <3>0. PICK role \in Roles, cands \in CandLists : \E o \in TwinAnswers(role, cands) :
            cache' = {e \in cache : e.key # ContentKey(role, 0, cands)} \cup
                     {[key |-> ContentKey(role, 0, cands), kind |-> "ok", out |-> o, age |-> 0]}
      <4>1. Loaded \in CandLists /\ <<>> \in CandLists
        BY DEF Loaded, CandLists
      <4> QED
        BY <2>3, <4>1, SidecarAssumption DEF Twin
    <3>1. PICK o \in TwinAnswers(role, cands) :
            cache' = {e \in cache : e.key # ContentKey(role, 0, cands)} \cup
                     {[key |-> ContentKey(role, 0, cands), kind |-> "ok", out |-> o, age |-> 0]}
      BY <3>0
    <3> DEFINE new == [key |-> ContentKey(role, 0, cands), kind |-> "ok", out |-> o, age |-> 0]
    <3>2. o \in Output /\ Storable(o, role, cands)
      BY TwinIsStorable
    <3>3. new \in Entry
      BY <3>2 DEF Entry, Keys
    <3>4. ASSUME NEW r \in Roles, NEW cs \in CandLists, new.key = ContentKey(r, 0, cs)
          PROVE  Storable(new.out, r, cs)
      BY <3>2, <3>4, SameKeyStorable
    <3> HIDE DEF new
    <3>5. cache' = {e \in cache : e.key # ContentKey(role, 0, cands)} \cup {new}
      BY <3>1 DEF new
    <3> QED
      BY <3>3, <3>4, <3>5 DEF CacheFits
  <2> QED
    BY <2>1, <2>2, <2>3 DEF Enqueue, Forget, WarmsUp, Evaluate, Wait, Stop
<1>4. JobsFit' /\ InputFits' /\ OutputFits'
  BY <1>1, <1>2 DEF JobsFit, InputFits, OutputFits
<1>5. StoredTextReads' /\ ExplanationFits'
  BY <1>1 DEF StoredTextReads, ExplanationFits
<1> QED
  BY <1>1, <1>3, <1>4, <1>5

(* A worker at rest holds nothing. *)
LEMMA RestIsTyped ==
    ASSUME Rest
    PROVE  /\ pc' = "idle" /\ inp' \in Input /\ tries' \in 0..3 /\ out' \in Output
           /\ InputFits' /\ OutputFits'
BY DEF Rest, NoInput, NoOutput, Input, Keys, CandLists, Output, Named, Quotes, OutLabels, AllEnds,
       InputFits, OutputFits

LEMMA RestKeeps ==
    ASSUME SidecarInv, Record \/ Crash
    PROVE  SidecarInv'
<1> USE DEF SidecarInv, SidecarTypeOK
<1>1. UNCHANGED <<rows, signed, pending, queue, cache>>
  BY DEF Record, Crash, Crashed
<1>2. CacheFits' /\ ExplanationFits'
  BY <1>1 DEF CacheFits, ExplanationFits
<1>3. CASE Rest /\ UNCHANGED quoted
  <2>1. JobsFit' /\ StoredTextReads'
    BY <1>1, <1>3, RestIsTyped DEF JobsFit, StoredTextReads
  <2> QED
    BY <1>1, <1>2, <1>3, <2>1, RestIsTyped
<1>4. CASE Record /\ outcome = "ok"
  <2>1. /\ pc = "record" /\ quoted' = quoted \cup ({out.log} \ {"no"})
        /\ pc' = "apply" /\ UNCHANGED <<job, inp, tries, outcome, out>>
    BY <1>4 DEF Record
  <2>2. Storable(out, job.role, inp.cands)
    BY <1>4, <2>1 DEF OutputFits
  <2>3. StoredTextReads'
    BY <1>1, <2>1, <2>2 DEF StoredTextReads, Storable, ShownQuotes
  <2>4. JobsFit' /\ InputFits' /\ OutputFits'
    BY <1>1, <2>1, <2>2 DEF JobsFit, InputFits, OutputFits
  <2> QED
    BY <1>1, <1>2, <2>1, <2>3, <2>4
<1> QED
  BY <1>3, <1>4 DEF Record, Crash, Crashed

LEMMA PopKeeps ==
    ASSUME SidecarInv, Pop
    PROVE  SidecarInv'
<1> USE DEF SidecarInv, SidecarTypeOK, Pop
<1>1. job' \in FittingJobs(rows) /\ queue' \in Seq(FittingJobs(rows))
  BY QueueHoldsJobs DEF JobsFit
<1>2. JobsFit' /\ InputFits' /\ OutputFits'
  BY <1>1 DEF JobsFit, InputFits, OutputFits
<1>3. CacheFits' /\ StoredTextReads' /\ ExplanationFits'
  BY DEF CacheFits, StoredTextReads, ExplanationFits
<1> QED
  BY <1>2, <1>3

(* The loader gives a job its key and its target. *)
LEMMA LoadKeeps ==
    ASSUME SidecarInv, Load
    PROVE  SidecarInv'
<1> USE DEF SidecarInv, SidecarTypeOK
<1>1. UNCHANGED <<rows, signed, pending, queue, cache, quoted>>
  BY DEF Load
<1>2. CacheFits' /\ StoredTextReads' /\ ExplanationFits'
  BY <1>1 DEF CacheFits, StoredTextReads, ExplanationFits
<1>3. CASE Rest
  BY <1>1, <1>2, <1>3, RestIsTyped DEF JobsFit
<1>4. CASE ~Rest
  <2>1. PICK labels, pool \in BOOLEAN :
          /\ HasInput(labels, pool)
          /\ inp' = [ key |-> ContentKey(job.role, 0, Loaded), sid |-> Target,
                      cands |-> IF job.role = "judge" THEN Loaded ELSE <<>> ]
          /\ pc' = "ask" /\ UNCHANGED <<job, tries, outcome, out>>
    BY <1>4 DEF Load
  <2>2. job \in FittingJobs(rows) /\ job.role \in Roles /\ job.sid \in Nat
    BY DEF Load, JobsFit, FittingJobs
  <2>3. Loaded \in CandLists /\ <<>> \in CandLists
    BY DEF Loaded, CandLists
  <2>4. Len(rows) \in Nat
    BY LenProperties
  <2>5. Target \in Nat
    BY <2>2, <2>4 DEF Target
  <2>6. ContentKey(job.role, 0, inp'.cands) = inp'.key
    BY <2>1 DEF ContentKey
  <2>7. inp' \in Input
    BY <2>1, <2>2, <2>3, <2>5 DEF Input, Keys
  <2>8. job.role = "explainer" => Target \in 1..Len(rows) /\ rows[Target].label # "ti"
    BY <2>1, <2>4, EmptySeq DEF HasInput, Target
  <2>9. job.role = "abstain_explainer" => Target = job.sid
    BY DEF Target
  <2>10. InputFits'
    BY <1>1, <2>1, <2>6, <2>8, <2>9 DEF InputFits
  <2>11. JobsFit' /\ OutputFits'
    BY <1>1, <2>1, <2>2 DEF JobsFit, OutputFits
  <2> QED
    BY <1>1, <1>2, <2>1, <2>7, <2>10, <2>11
<1> QED
  BY <1>3, <1>4

(* A cached answer was stored under the key of this very question. *)
LEMMA AskKeeps ==
    ASSUME SidecarInv, Ask
    PROVE  SidecarInv'
<1> USE DEF SidecarInv, SidecarTypeOK
<1>1. UNCHANGED <<rows, signed, pending, queue, cache, quoted, job, inp>>
  BY DEF Ask
<1>2. CacheFits' /\ StoredTextReads' /\ ExplanationFits'
  BY <1>1 DEF CacheFits, StoredTextReads, ExplanationFits
<1>3. pc = "ask" /\ job \in FittingJobs(rows) /\ job.role \in Roles
  BY DEF Ask, JobsFit, FittingJobs
<1>4. inp.cands \in CandLists
  BY DEF Input
<1>5. CASE Fresh # {}
  <2> DEFINE e == CHOOSE e \in Fresh : TRUE
  <2>1. e \in cache /\ e.key = inp.key
    BY <1>5 DEF Fresh
  <2>2. e \in Entry
    BY <2>1
  <2>3. /\ out' = e.out /\ UNCHANGED tries
        /\ pc' = "record"
        /\ outcome' = IF e.kind = "negative" THEN "failed" ELSE "ok"
    BY <1>5 DEF Ask
  <2> HIDE DEF e
  <2>4. out' \in Output /\ (outcome' = "ok" => e.kind = "ok")
    BY <2>2, <2>3 DEF Entry
  <2>5. e.key = ContentKey(job.role, 0, inp.cands)
    BY <1>3, <2>1 DEF InputFits
  <2>6. outcome' = "ok" => Storable(out', job.role, inp.cands)
    BY <1>3, <1>4, <2>1, <2>3, <2>4, <2>5 DEF CacheFits
  <2>7. JobsFit' /\ InputFits'
    BY <1>1, <1>3, <2>3 DEF JobsFit, InputFits
  <2>8. OutputFits'
    BY <1>1, <2>3, <2>6 DEF OutputFits
  <2> QED
    BY <1>1, <1>2, <2>3, <2>4, <2>7, <2>8
<1>6. CASE Fresh = {}
  <2>1. /\ UNCHANGED out /\ tries' \in {tries, 1}
        /\ (pc' = "record" /\ outcome' = "failed") \/ (pc' = "call" /\ tries' = 1)
    BY <1>6 DEF Ask
  <2>2. JobsFit' /\ InputFits' /\ OutputFits'
    BY <1>1, <1>3, <2>1 DEF JobsFit, InputFits, OutputFits
  <2> QED
    BY <1>1, <1>2, <2>1, <2>2
<1> QED
  BY <1>5, <1>6

(* Whatever a call comes to, the answer that goes on is storable. *)
LEMMA CallKeeps ==
    ASSUME SidecarInv, Call
    PROVE  SidecarInv'
<1> USE DEF SidecarInv, SidecarTypeOK
<1>1. UNCHANGED <<rows, signed, pending, queue, cache, quoted, job, inp>>
  BY DEF Call
<1>2. CacheFits' /\ StoredTextReads' /\ ExplanationFits'
  BY <1>1 DEF CacheFits, StoredTextReads, ExplanationFits
<1>3. pc = "call" /\ job \in FittingJobs(rows) /\ job.role \in Roles /\ inp.cands \in CandLists
  BY DEF Call, JobsFit, FittingJobs, Input
<1>4. MarkTruncated(out) \in Output
  BY DEF MarkTruncated, Output, AllEnds
<1>5. SUFFICES /\ out' \in Output
               /\ tries' \in 0..3 /\ pc' \in {"call", "put", "record"}
               /\ pc' = "call" /\ tries' = 3 => Storable(MarkTruncated(out'), job.role, inp.cands)
               /\ pc' \in {"put", "record"} /\ outcome' = "ok"
                     => Storable(out', job.role, inp.cands)
  <2>1. JobsFit' /\ InputFits' /\ OutputFits'
    BY <1>1, <1>3, <1>5 DEF JobsFit, InputFits, OutputFits
  <2> QED
    BY <1>1, <1>2, <1>5, <2>1
<1>6. CASE KeptCut /\ (Goes(AfterFailure) \/ Goes(AfterBadAnswer("schema_fail"))
                       \/ Goes(AfterBadAnswer("validation_fail")))
  <2>1. /\ tries' \in {0, 2} /\ pc' \in {"call", "put", "record"}
        /\ pc' \in {"put", "record"} /\ outcome' = "ok" => tries = 3
    BY <1>6 DEF Goes, AfterFailure, AfterBadAnswer
  <2>2. out' \in Output /\ (tries = 3 => out' = MarkTruncated(out))
    BY <1>4, <1>6 DEF KeptCut
  <2>3. tries = 3 => Storable(MarkTruncated(out), job.role, inp.cands)
    BY <1>3 DEF OutputFits
  <2> QED
    BY <2>1, <2>2, <2>3
<1>7. ASSUME NEW a \in Answers(job.role, inp.cands), NEW e \in Endings,
             PostValidate(job.role, a, Len(inp.cands)),
             out' = Resolved([Accepted(job.role, a) EXCEPT !.ends = Ends(job.role, e[1], e[2])],
                             IsCut(job.role, e[1], e[2])),
             Goes(IF IsCut(job.role, e[1], e[2]) /\ tries < 3 THEN <<"call", "no", 3>>
                  ELSE <<"put", "ok", 0>>)
      PROVE  /\ out' \in Output
             /\ tries' \in 0..3 /\ pc' \in {"call", "put", "record"}
             /\ pc' = "call" /\ tries' = 3 => Storable(MarkTruncated(out'), job.role, inp.cands)
             /\ pc' \in {"put", "record"} /\ outcome' = "ok"
                   => Storable(out', job.role, inp.cands)
  <2> DEFINE o == [Accepted(job.role, a) EXCEPT !.ends = Ends(job.role, e[1], e[2])]
             isCut == IsCut(job.role, e[1], e[2])
  <2>1. /\ o \in Output /\ MarkTruncated(o) \in Output
        /\ Storable(MarkTruncated(o), job.role, inp.cands)
        /\ ~isCut => Storable(o, job.role, inp.cands)
    BY <1>3, <1>7, AcceptedIsStorable
  <2>2. out' = IF isCut /\ tries = 3 THEN MarkTruncated(o) ELSE o
    BY <1>7 DEF Resolved
  <2>3. /\ isCut /\ tries < 3 => pc' = "call" /\ tries' = 3
        /\ ~(isCut /\ tries < 3) => pc' = "put" /\ tries' = 0
    BY <1>7 DEF Goes
  <2> HIDE DEF o, isCut
  <2> QED
    BY <2>1, <2>2, <2>3
<1> QED
  BY <1>6, <1>7 DEF Call

(* What is cached is storable for every job that will find it. *)
LEMMA PutKeeps ==
    ASSUME SidecarInv, Put
    PROVE  SidecarInv'
<1> USE DEF SidecarInv, SidecarTypeOK
<1> DEFINE new == [key |-> inp.key, kind |-> IF outcome = "ok" THEN "ok" ELSE "negative",
                   out |-> IF outcome = "ok" THEN out ELSE NoOutput, age |-> 0]
<1>1. /\ UNCHANGED <<rows, signed, quoted, pending, queue, job, inp, tries, outcome, out>>
      /\ pc = "put" /\ pc' = "record"
      /\ cache' = {e \in cache : e.key # inp.key} \cup {new}
  BY DEF Put
<1>2. job.role \in Roles /\ inp.cands \in CandLists /\ inp.key \in Keys
  BY <1>1 DEF JobsFit, FittingJobs, Input
<1>3. NoOutput \in Output
  BY DEF NoOutput, Output, Named, Quotes, OutLabels, AllEnds
<1>4. new \in Entry
  BY <1>2, <1>3 DEF Entry
<1>5. ASSUME NEW r \in Roles, NEW cs \in CandLists, new.kind = "ok",
             new.key = ContentKey(r, 0, cs)
      PROVE  Storable(new.out, r, cs)
  <2>1. outcome = "ok" /\ new.out = out /\ Storable(out, job.role, inp.cands)
    BY <1>1, <1>5 DEF OutputFits
  <2>2. ContentKey(job.role, 0, inp.cands) = ContentKey(r, 0, cs)
    BY <1>1, <1>5 DEF InputFits
  <2> QED
    BY <1>2, <2>1, <2>2, SameKeyStorable
<1> HIDE DEF new
<1>6. CacheFits'
  BY <1>1, <1>5 DEF CacheFits
<1>7. JobsFit' /\ InputFits' /\ OutputFits'
  BY <1>1 DEF JobsFit, InputFits, OutputFits
<1>8. StoredTextReads' /\ ExplanationFits'
  BY <1>1 DEF StoredTextReads, ExplanationFits
<1> QED
  BY <1>1, <1>4, <1>6, <1>7, <1>8

(* A storable explanation on a fitting row. *)
LEMMA ExplainKeeps ==
    ASSUME SidecarInv, NEW by \in Roles, NEW sid \in 1..Len(rows), Explain(sid, by), Rest,
           UNCHANGED <<signed, pending, queue, cache, quoted>>,
           Storable(out, job.role, inp.cands),
           by = "explainer" => rows[sid].label # "ti",
           by = "abstain_explainer" => rows[sid].label = "ti"
    PROVE  SidecarInv'
<1> USE DEF SidecarInv, SidecarTypeOK
<1>1. /\ Grows(rows') /\ Len(rows') = Len(rows)
      /\ \A i \in 1..Len(rows) : i # sid => rows'[i] = rows[i]
      /\ rows'[sid].by = by
      /\ rows'[sid].prose = out.prose /\ rows'[sid].ends = out.ends
  BY ExplainChangesOne
<1>2. DOMAIN rows = 1..Len(rows) /\ DOMAIN rows' = 1..Len(rows)
  BY <1>1, LenProperties DEF Grows
<1>3. JobsFit' /\ CacheFits'
  BY <1>1, RestIsTyped, StillFits DEF JobsFit, CacheFits
<1>4. StoredTextReads'
  BY <1>1, <1>2 DEF StoredTextReads, Storable, ShownQuotes
<1>5. ExplanationFits'
  BY <1>1, <1>2 DEF ExplanationFits, Grows
<1> QED
  BY <1>1, <1>3, <1>4, <1>5, RestIsTyped DEF Grows

(* annotate_judge changes the verdict of the newest row and nothing else. *)
LEMMA AnnotateChangesVerdict ==
    ASSUME SidecarInv, pc = "apply", job.role = "judge", Annotate, rows' # rows
    PROVE  /\ Grows(rows') /\ Len(rows) \in Nat \ {0} /\ Len(rows') = Len(rows)
           /\ rows'[Len(rows)].judge = <<IF out.choice = 0 THEN 0 ELSE inp.cands[out.choice]>>
           /\ \A i \in 1..Len(rows) : /\ i # Len(rows) => rows'[i] = rows[i]
                                      /\ rows'[i].by = rows[i].by
                                      /\ rows'[i].prose = rows[i].prose
                                      /\ rows'[i].ends = rows[i].ends
<1> USE DEF SidecarInv, SidecarTypeOK
<1> DEFINE n == Len(rows)
           verdict == <<IF out.choice = 0 THEN 0 ELSE inp.cands[out.choice]>>
           new == [rows[n] EXCEPT !.judge = verdict]
<1>1. rows # <<>> /\ out.choice # -1 /\ rows' = [rows EXCEPT ![n].judge = verdict]
  BY DEF Annotate
<1>2. n \in Nat \ {0} /\ n \in 1..n /\ DOMAIN rows = 1..n
  BY <1>1, EmptySeq, LenProperties
<1>3. rows[n] \in SuggestionRow
  BY <1>2, ElementOfSeq
<1>4. verdict \in {<<x>> : x \in Named}
  <2>1. out.choice \in {-1, 0} \cup 1..Len(inp.cands) /\ inp.cands \in CandLists
    BY DEF OutputFits, Storable, Input
  <2> QED
    BY <1>1, <2>1 DEF Named
<1> HIDE DEF verdict
<1>5. /\ new \in SuggestionRow /\ new.label = rows[n].label /\ new.by = rows[n].by
      /\ new.prose = rows[n].prose /\ new.ends = rows[n].ends
      /\ new.judge = verdict
  BY <1>3, <1>4 DEF SuggestionRow
<1>6. rows' = [rows EXCEPT ![n] = new]
  BY <1>1, <1>2
<1> HIDE DEF new
<1>7. /\ rows' \in Seq(SuggestionRow) /\ Len(rows') = n
      /\ \A i \in 1..n : rows'[i] = IF i = n THEN new ELSE rows[i]
  BY <1>2, <1>5, <1>6, ExceptSeq
<1>8. Grows(rows')
  <2>1. \A i \in 1..n : rows'[i].label = rows[i].label
    BY <1>5, <1>7
  <2>2. n <= Len(rows')
    <3>1. Len(rows') = n /\ n \in Nat
      BY <1>2, <1>7
    <3> HIDE DEF n
    <3> QED
      BY <3>1
  <2> QED
    BY <1>7, <2>1, <2>2 DEF Grows
<1>9. rows'[n].judge = verdict
  BY <1>2, <1>5, <1>7
<1>10. \A i \in 1..n : /\ i # n => rows'[i] = rows[i]
                       /\ rows'[i].by = rows[i].by
                       /\ rows'[i].prose = rows[i].prose /\ rows'[i].ends = rows[i].ends
  BY <1>5, <1>7
<1> QED
  BY <1>2, <1>7, <1>8, <1>9, <1>10 DEF verdict

LEMMA ApplyKeeps ==
    ASSUME SidecarInv, Apply
    PROVE  SidecarInv'
<1> USE DEF SidecarInv, SidecarTypeOK
<1>1. /\ pc = "apply" /\ job \in FittingJobs(rows) /\ job.role \in Roles \ {"coldstart"}
      /\ Rest /\ UNCHANGED <<signed, pending, queue, cache, quoted>>
  BY DEF Apply, JobsFit, FittingJobs
<1>2. CASE UNCHANGED rows
  BY <1>1, <1>2, RestIsTyped DEF JobsFit, CacheFits, StoredTextReads, ExplanationFits
<1>3. CASE job.role = "judge" /\ rows' # rows
  <2>1. Annotate
    BY <1>3 DEF Apply
  <2>2. /\ Grows(rows') /\ Len(rows) \in Nat /\ Len(rows') = Len(rows)
        /\ \A i \in 1..Len(rows) : /\ rows'[i].by = rows[i].by
                                   /\ rows'[i].prose = rows[i].prose
                                   /\ rows'[i].ends = rows[i].ends
    BY <1>1, <1>3, <2>1, AnnotateChangesVerdict
  <2>3. DOMAIN rows = 1..Len(rows) /\ DOMAIN rows' = 1..Len(rows)
    BY <2>2, LenProperties DEF Grows
  <2>4. JobsFit' /\ CacheFits'
    BY <1>1, <2>2, RestIsTyped, StillFits DEF JobsFit, CacheFits
  <2>5. StoredTextReads' /\ ExplanationFits'
    BY <1>1, <2>2, <2>3 DEF StoredTextReads, ExplanationFits, Grows
  <2> QED
    BY <1>1, <2>2, <2>4, <2>5, RestIsTyped DEF Grows
<1>4. CASE job.role \in {"explainer", "abstain_explainer"}
  <2>1. Explain(inp.sid, job.role)
    BY <1>4 DEF Apply
  <2>2. /\ inp.sid \in 1..Len(rows)
        /\ job.role = "explainer" => rows[inp.sid].label # "ti"
        /\ job.role = "abstain_explainer" => rows[inp.sid].label = "ti"
    BY <1>1, <1>4 DEF InputFits, FittingJobs
  <2>3. Storable(out, job.role, inp.cands)
    BY <1>1 DEF OutputFits
  <2> QED
    BY <1>1, <2>1, <2>2, <2>3, ExplainKeeps
<1>5. job.role \in {"judge", "extractor", "explainer", "abstain_explainer"}
  BY <1>1 DEF Roles
<1> QED
  BY <1>2, <1>3, <1>4, <1>5 DEF Apply

LEMMA ColdstartKeeps ==
    ASSUME SidecarInv, InsertColdstart \/ ExplainColdstart
    PROVE  SidecarInv'
<1> USE DEF SidecarInv, SidecarTypeOK
<1>1. CASE InsertColdstart
  <2> DEFINE new == Row(out.label, "coldstart")
             n == Len(rows) + 1
  <2>1. /\ pc = "apply" /\ job.role = "coldstart" /\ rows' = Append(rows, new)
        /\ inp' = [inp EXCEPT !.sid = n] /\ pc' = "explain"
        /\ UNCHANGED <<signed, pending, queue, cache, quoted, job, tries, outcome, out>>
    BY <1>1 DEF InsertColdstart
  <2>2. new \in SuggestionRow /\ new.by = "no" /\ new.prose = "no"
        /\ new.ends = "whole"
    BY DEF Row, SuggestionRow, Output, Quotes, AllEnds
  <2> HIDE DEF new
  <2>3. /\ Len(rows) \in Nat /\ rows' \in Seq(SuggestionRow) /\ Len(rows') = n
        /\ (\A i \in 1..Len(rows) : rows'[i] = rows[i]) /\ rows'[n] = new
        /\ DOMAIN rows' = 1..n /\ DOMAIN rows = 1..Len(rows)
    BY <2>1, <2>2, AppendProperties, LenProperties
  <2>4. Grows(rows') /\ n \in 1..Len(rows')
    BY <2>3 DEF Grows
  <2>5. inp' \in Input /\ inp'.key = inp.key /\ inp'.cands = inp.cands /\ inp'.sid = n
    BY <2>1, <2>3 DEF Input
  <2>6. JobsFit' /\ CacheFits'
    BY <2>1, <2>4, StillFits DEF JobsFit, CacheFits
  <2>7. InputFits'
    BY <2>1, <2>4, <2>5 DEF InputFits
  <2>8. OutputFits'
    BY <2>1, <2>5 DEF OutputFits
  <2>9. StoredTextReads' /\ ExplanationFits'
    BY <2>1, <2>2, <2>3 DEF StoredTextReads, ExplanationFits
  <2> QED
    BY <2>1, <2>3, <2>5, <2>6, <2>7, <2>8, <2>9
<1>2. CASE ExplainColdstart
  <2>1. /\ pc = "explain" /\ Explain(inp.sid, "coldstart") /\ Rest
        /\ UNCHANGED <<signed, pending, queue, cache, quoted>>
    BY <1>2 DEF ExplainColdstart
  <2>2. "coldstart" \in Roles /\ inp.sid \in 1..Len(rows) /\ Storable(out, job.role, inp.cands)
    BY <2>1 DEF InputFits, OutputFits, Roles
  <2> QED
    BY <2>1, <2>2, ExplainKeeps
<1> QED
  BY <1>1, <1>2

LEMMA SidecarInvHolds ==
    Spec => []SidecarInv
<1>1. ASSUME Init PROVE SidecarInv
  <2>1. SidecarTypeOK
    BY <1>1 DEF Init, SidecarTypeOK, NoInput, NoOutput, Input, Keys, CandLists, Output, Named,
                Quotes, OutLabels, AllEnds, Known
  <2>2. JobsFit /\ InputFits /\ OutputFits /\ CacheFits
    BY <1>1 DEF Init, JobsFit, InputFits, OutputFits, CacheFits
  <2>3. StoredTextReads /\ ExplanationFits
    BY <1>1 DEF Init, StoredTextReads, ExplanationFits
  <2> QED
    BY <2>1, <2>2, <2>3 DEF SidecarInv
<1>2. ASSUME SidecarInv, [Next]_vars PROVE SidecarInv'
  <2>1. CASE UNCHANGED vars
    BY <1>2, <2>1 DEF SidecarInv, SidecarTypeOK, JobsFit, InputFits, OutputFits, CacheFits,
                      StoredTextReads, ExplanationFits, vars
  <2> QED
    BY <1>2, <2>1, DecidesKeeps, RoutesKeep, RestKeeps, PopKeeps, LoadKeeps, AskKeeps,
       CallKeeps, PutKeeps, ApplyKeeps, ColdstartKeeps DEF Next, Worker
<1> QED
  BY <1>1, <1>2, PTL DEF Spec

-----------------------------------------------------------------------------
(* Whatever the model answers, however often a call is repeated and        *)
(* whichever item an answer was cached for: a stored quote is a line of    *)
(* that item's log as a reader sees it, and a stored text that the budget  *)
(* cut or that dangles is marked.                                          *)
THEOREM StoredTextIsReadable ==
    Spec => []StoredTextReads
BY SidecarInvHolds, PTL DEF SidecarInv

(* However many rows are written between a job's enqueueing, its reading   *)
(* of the facts and its answer: an explanation lands on a row it is about. *)
THEOREM ExplanationFitsItsRow ==
    Spec => []ExplanationFits
BY SidecarInvHolds, PTL DEF SidecarInv

(* For every list of candidates, and whichever of them have gone: the item *)
(* suggest promotes after a verdict is the one the model meant when it     *)
(* gave the number, for this job or for the one that filled the cache.     *)
THEOREM VerdictNamesWhatWasMeant ==
    Spec => VerdictIsMeant
<1>1. ASSUME SidecarInv, [Next]_vars, pc = "apply", pc' = "idle", job.role = "judge",
             rows' # rows, out.choice > 0
      PROVE  LatestJudge(rows') = out.meant
  <2>1. CASE Apply
    <3>1. Annotate
      BY <1>1, <2>1 DEF Apply
    <3> DEFINE n == Len(rows)
               judged == {i \in DOMAIN rows' : rows'[i].judge # NotJudged}
    <3>2. /\ rows' \in Seq(SuggestionRow) /\ n \in Nat \ {0} /\ Len(rows') = n
          /\ rows'[n].judge = <<IF out.choice = 0 THEN 0 ELSE inp.cands[out.choice]>>
      BY <1>1, <3>1, AnnotateChangesVerdict DEF Grows
    <3>3. rows'[n].judge = <<out.meant>>
      <4>1. out.choice # 0 /\ inp.cands[out.choice] = out.meant
        BY <1>1 DEF SidecarInv, SidecarTypeOK, OutputFits, Storable, Output
      <4> QED
        BY <3>2, <4>1
    <3>4. n \in judged /\ \A i \in judged : i \in Nat /\ i <= n
      <4>1. DOMAIN rows' = 1..n
        BY <3>2, LenProperties
      <4>2. <<out.meant>> # <<>>
        OBVIOUS
      <4>3. n \in DOMAIN rows' /\ rows'[n].judge # NotJudged
        BY <3>2, <3>3, <4>1, <4>2 DEF NotJudged
      <4>4. \A i \in DOMAIN rows' : i \in Nat /\ i <= n
        BY <3>2, <4>1
      <4> QED
        BY <4>3, <4>4
    <3>5. (CHOOSE i \in judged : \A j \in judged : j <= i) = n
      BY <3>4
    <3>6. LatestJudge(rows') = rows'[n].judge[1]
      BY <3>4, <3>5 DEF LatestJudge
    <3> QED
      BY <3>3, <3>6
  <2>2. CASE ~Apply
    BY <1>1, <2>2 DEF Next, Worker, Decides, Enqueue, Forget, WarmsUp, Evaluate, Wait, Age, Twin, Pop,
       Load, Ask, Call, Put, Record, InsertColdstart, ExplainColdstart, Crash, Stop, workerVars, vars
  <2> QED
    BY <2>1, <2>2
<1> QED
  BY <1>1, SidecarInvHolds, PTL DEF Spec, VerdictIsMeant

(* For every queue, full of any jobs: what a newcomer displaces, or its    *)
(* own rejection, leaves the most urgent of what was offered.              *)
THEOREM FullQueueLosesLeastUrgent ==
    Spec => LosesLeastUrgent
<1>1. ASSUME SidecarInv, [Next]_vars, pending' # pending, Len(queue) = QueueMax, pending # <<>>,
             NEW p \in 0..2
      PROVE  Cardinality(Within(queue', p)) =
                LET offered == Cardinality(Within(Append(queue, Head(pending)), p))
                IN  IF offered <= QueueMax THEN offered ELSE QueueMax
  <2>1. queue' = Enqueued(queue, Head(pending))
    BY <1>1 DEF Next, Worker, Decides, Enqueue, Forget, WarmsUp, Evaluate, Wait, Age, Twin, Pop,
       Load, Ask, Call, Put, Record, Apply, InsertColdstart, ExplainColdstart, Crash, Stop, vars
  <2>2. queue \in Seq(FittingJobs(rows)) /\ Head(pending) \in FittingJobs(rows)
    BY <1>1, HeadTailProperties DEF SidecarInv, JobsFit
  <2> QED
    BY <1>1, <2>1, <2>2, FullQueueKeepsUrgent
<1>2. ASSUME SidecarInv, [Next]_vars
      PROVE  pending' # pending /\ Len(queue) = QueueMax =>
               LET offered == Append(queue, Head(pending))
                   count(s, p) == Cardinality({i \in DOMAIN s : Priority(s[i].role) <= p})
                   kept(p) == IF count(offered, p) <= QueueMax THEN count(offered, p) ELSE QueueMax
               IN pending # <<>> => \A p \in 0..2 : count(queue', p) = kept(p)
  BY <1>1, <1>2 DEF Within
<1> QED
  BY <1>2, SidecarInvHolds, PTL DEF Spec, LosesLeastUrgent
=============================================================================
