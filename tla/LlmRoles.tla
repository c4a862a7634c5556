------------------------------ MODULE LlmRoles ------------------------------
(***************************************************************************)
(* llm/roles, llm/rubric.py, llm/eval.py: what the roles of the LLM        *)
(* sidecar ask, accept and remember, and when the nightly evaluation       *)
(* switches one off.  Pure operators.                                      *)
(*                                                                         *)
(* An output is [choice, meant, log, prose, rule, label, ends].  choice is *)
(* the judge's: a candidate's number, 0 for none, -1 for abstain; meant is *)
(* the item that number stood for when the model answered.  log is the     *)
(* kind of the explainer's quote of a log line, prose of the quote inside  *)
(* its sentence; rule and label are the cold-start role's; ends is how its *)
(* text ends.  An explainer's kind of quote is what it is in the log of    *)
(* the item whose suggestion it goes to.                                   *)
(***************************************************************************)
EXTENDS Integers, Sequences

CONSTANTS
    QuoteKinds,    \* the kinds of quotes a model tries
    Choices        \* the candidates' numbers a judge tries

ASSUME RolesAssumption ==
    /\ QuoteKinds \subseteq {"no", "plain", "rewritten", "spanning", "fact", "invented"}
    /\ Choices \subseteq Int

Roles == {"judge", "extractor", "coldstart", "explainer", "abstain_explainer"}

(* ROLE_PRIORITY: lower is more urgent. *)
Priority(role) ==
    CASE role = "judge" -> 0 [] role \in {"extractor", "coldstart"} -> 1 [] OTHER -> 2

(* free_text_fields: the roles whose answer a token budget can cut. *)
FreeText(role) == role # "extractor"

(* negative_ttl_days is not None *)
RemembersFailure(role) == role = "extractor"

NoOutput == [choice |-> 0, meant |-> 0, log |-> "no", prose |-> "no",
             rule |-> "no", label |-> "no", ends |-> "whole"]

-----------------------------------------------------------------------------
(* Quotes.  A quote is "plain" when the log holds it as it is, "rewritten" *)
(* when only a sanitized line does, "spanning" when it crosses lines of    *)
(* the sanitized excerpt and is in no single one, "fact" when it is a      *)
(* value of the fact block, "invented" when it is nowhere, and "no" when   *)
(* there is none.  "foreign" is a plain quote of the log of another item   *)
(* of the same error hash, which this log does not hold.                   *)

LogCorpus == {"no", "plain", "rewritten", "spanning"}
FactCorpus == {"no", "fact"}

(* Mutant of Displayable: the quote is stored as it was grounded. *)
AsQuoted(quote) == quote

(* _displayable: a sanitized line is traded for the line it came from, and *)
(* what cannot be recovered is dropped.                                    *)
Displayable(quote) ==
    CASE quote = "rewritten" -> "plain" [] quote = "spanning" -> "no" [] OTHER -> quote

(* ExplainerRole.post_validate *)
Grounded(out) ==
    /\ out.log \in LogCorpus
    /\ out.prose \in LogCorpus \cup FactCorpus
    /\ out.prose \in FactCorpus \/ out.prose = "plain"

-----------------------------------------------------------------------------
(* Cut answers.  A text is "whole", stops in "mid" sentence, or ends on a  *)
(* "dangling" token no sentence ends on; the server stopped at the token   *)
(* budget, reason "length", by itself, "stop", or does not say.            *)

Endings == {"whole", "mid", "dangling"} \X {"length", "stop", "unsaid"}

(* What a reader of the text finds: it is whole; it is cut, by the budget  *)
(* or visibly; or it stopped in mid sentence and nobody said that it was   *)
(* cut.  The judge's and the extractor's answers are shown nowhere.        *)
Ends(role, ending, reason) ==
    IF ending = "whole" \/ role \in {"judge", "extractor"} THEN "whole"
    ELSE IF ending = "mid" /\ reason # "length" THEN "stopped" ELSE "cut"

(* Mutant of LooksTruncated: only the budget cuts. *)
CutByBudget(ending, reason) == reason = "length" /\ ending # "whole"

(* _looks_truncated: a text the server does not say it cut is trusted,     *)
(* unless it dangles.                                                      *)
LooksTruncated(ending, reason) == ending = "dangling" \/ (reason = "length" /\ ending = "mid")

(* _truncated_fields: only a free text can be cut. *)
IsCut(role, ending, reason) == FreeText(role) /\ LooksTruncated(ending, reason)

(* _mark_truncated: a dangling end is clipped, and the cut is shown. *)
MarkTruncated(out) == [out EXCEPT !.ends = IF @ = "cut" THEN "marked" ELSE @]

-----------------------------------------------------------------------------
(* RUBRIC, one rule of each of three labels. *)
RubricLabel == [R1 |-> "pb", R3 |-> "ab", R6 |-> "si"]

(* ColdStartRole.post_validate *)
FollowsRubric(out) ==
    out.rule \in DOMAIN RubricLabel => RubricLabel[out.rule] = out.label

(* JudgeRole.post_validate, over k candidates. *)
NamesCandidate(out, k) == out.choice \in {-1, 0} \cup 1..k

(* post_validate of each role; the extractor's grounding is the choice of  *)
(* label "grounded" or "made_up".                                          *)
PostValidate(role, out, k) ==
    CASE role = "judge" -> NamesCandidate(out, k)
      [] role = "coldstart" -> FollowsRubric(out)
      [] role = "extractor" -> out.label = "grounded"
      [] OTHER -> Grounded(out)

Explainers == {"explainer", "abstain_explainer"}

(* What post_validate leaves of an accepted output. *)
Accepted(role, out) ==
    IF role \in Explainers
    THEN [out EXCEPT !.log = Displayable(@)] ELSE out

(* What a model may answer: every kind a validator tells apart. *)
Answers(role, cands) ==
    CASE role = "judge" ->
             { [NoOutput EXCEPT !.choice = c, !.meant = IF c \in 1..Len(cands) THEN cands[c] ELSE 0] :
                 c \in Choices }
      [] role = "coldstart" -> { [NoOutput EXCEPT !.rule = "R3", !.label = l] : l \in {"pb", "ab"} }
      [] role = "extractor" -> { [NoOutput EXCEPT !.label = l] : l \in {"grounded", "made_up"} }
      [] OTHER -> { [NoOutput EXCEPT !.log = q] : q \in QuoteKinds }
                  \cup { [NoOutput EXCEPT !.prose = q] : q \in QuoteKinds }

(* Mutant of ContentKey: the judge's key is the query alone. *)
KeyWithoutCandidates(role, mode, cands) == <<role, IF role = "explainer" THEN <<mode>> ELSE <<>> >>

(* content_key with the model and the role.  Every key names the error     *)
(* hash; what else it names is fixed here, but for the candidates of the   *)
(* judge and the mode of the explainer.  Only the extractor's and the      *)
(* cold-start role's name the excerpt the model is shown.                  *)
ContentKey(role, mode, cands) ==
    <<role, CASE role = "judge" -> cands [] role = "explainer" -> <<mode>> [] OTHER -> <<>> >>

KeyHasExcerpt(role) == role \in {"extractor", "coldstart"}

(* The answers the engine may have cached for another item of the error    *)
(* hash: a quote of that item's log may be missing from this one's.        *)
Missing(quote) == IF quote = "plain" THEN "foreign" ELSE quote
TwinEnds(role) == IF role = "judge" THEN {"whole"} ELSE {"whole", "stopped", "marked"}
FromTwin(out, ends) ==
    { [out EXCEPT !.ends = ends],
      [out EXCEPT !.ends = ends, !.log = Missing(@), !.prose = Missing(@)] }
TwinAnswers(role, cands) ==
    UNION { FromTwin(Accepted(role, a), ends) :
            a \in {x \in Answers(role, cands) : PostValidate(role, x, Len(cands))},
            ends \in TwinEnds(role) }

-----------------------------------------------------------------------------
(* evaluate_role over one comparison [sLlm, nLlm, sCls, nCls, n].          *)

MinCases == 50

(* wilson_interval's upper bound below 0.80, which is the score test       *)
(* (0.80 n - s)^2 > z^2 * 0.80 * 0.20 * n with s < 0.80 n, in integers.    *)
BelowAbsoluteFloor(s, n) ==
    /\ 10 * s < 8 * n
    /\ 10000 * (8 * n - 10 * s) * (8 * n - 10 * s) > 614656 * n

(* mover_difference_lower below zero: a negative difference less a square  *)
(* root; for a difference of zero or more the model leaves it open, and    *)
(* the comparison before it never gets there.                              *)
LowerBoundNegative(c) == c.sLlm * c.nCls < c.sCls * c.nLlm

Disables(c) ==
    \/ c.nLlm >= MinCases /\ BelowAbsoluteFloor(c.sLlm, c.nLlm)
    \/ /\ c.n >= MinCases
       /\ c.nCls >= MinCases
       /\ 100 * c.sLlm < 95 * c.nLlm
       /\ 100 * c.sLlm * c.nCls < (100 * c.sCls - 2 * c.nCls) * c.nLlm
       /\ LowerBoundNegative(c)
=============================================================================
